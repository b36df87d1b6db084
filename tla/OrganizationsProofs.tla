------------------------ MODULE OrganizationsProofs ------------------------
(***************************************************************************)
(* What every interleaving of edits, requests, payment pages and restarts  *)
(* keeps of the organisations, keys and logos of module Organizations, for *)
(* any forms, any numbers of rows and sessions, and every throttle, ttl    *)
(* and size of the cache.                                                  *)
(***************************************************************************)
EXTENDS Organizations, FiniteSetTheorems, SequenceTheorems, TLAPS

---------------------------------------------------------------------------
(* The inductive invariants *)

\* Where a session holds a row that an image is or was made from.
Drawing == {"invoice", "draw", "fetch"}

\* What a session carries: the identifiers and the copy its place needs.
GoodCopy(x) ==
  /\ x.at \in {"check", "store", "save"} =>
       /\ x.org \in Orgs /\ x.account \in Accounts /\ x.form \in Form
       /\ x.row # None => x.row \in OrgRow /\ x.row.account = x.account
  /\ x.at = "check" => x.row # None
  /\ x.at \in {"delete", "sent"} => x.org \in Orgs
  /\ x.at \in {"revoke", "mark", "resolve", "invoice"} => x.token \in Tokens
  /\ x.at \in {"mark", "resolve"} => x.account \in Accounts
  /\ x.at \in Drawing => x.org \in Orgs /\ x.row \in OrgRow /\ ImageOf(x.row) \in x.window
  /\ x.at = "fetch" => x.row.logo_key # None

CopiesOK == \A s \in Sessions : GoodCopy(ses[s])

\* Keys are never deleted, and an invoice has its organisation.
RowsStay ==
  /\ \A s \in Sessions : ses[s].at \in {"revoke", "mark", "resolve", "invoice"} =>
       tokens[ses[s].token] # None
  /\ \A o \in invoices : Exists(o)

TypeInv == TypeOK /\ CopiesOK /\ RowsStay

\* The logos of the rows and those a session has in hand are in the bucket;
\* so is what the cache holds.
RowLogos == \A o \in Orgs : Exists(o) => orgs[o].logo_key \in files \cup {None}
LogosInHand ==
  \A s \in Sessions :
    /\ ses[s].row # None => ses[s].row.logo_key \in files \cup {None}
    /\ ses[s].logo \in files \cup {None}

\* Entries are named by their keys, hold what the bucket holds, and are few.
GoodCache(q) ==
  /\ q \in Seq(Entry) /\ Len(q) <= CacheSize
  /\ \A i \in 1..Len(q) : q[i].data = q[i].key /\ q[i].key \in files
  /\ \A i, j \in 1..Len(q) : q[i].key = q[j].key => i = j

LogoInv == RowLogos /\ LogosInHand /\ GoodCache(cache)

\* Where a request knows whether it is the one to mark its key.
Marking == {"resolve", "invoice"}

\* A request that is to mark its key holds the key's row, whose mark is still
\* older than the throttle; one that is not has found a mark recent enough.
MarkerInv ==
  \A s \in Sessions : ses[s].at \in Marking /\ ses[s].marked =>
    tokenLock[ses[s].token] = s /\ MarkDue(ses[s].token, ses[s].clock)
OthersInv ==
  \A s \in Sessions : ses[s].at \in Marking /\ ~ses[s].marked =>
    ~MarkDue(ses[s].token, ses[s].clock)
UsedInv == \A t \in Tokens : used[t] # None => tokens[t] # None
MarkInv == MarkerInv /\ OthersInv /\ UsedInv /\ MarksFollowUse

\* The sessions that save an organisation, and what they know: a row that is
\* there has been loaded by whoever saves it, and a new one is nobody else's.
Saving == {"check", "store", "save"}
OwnRows ==
  \A s \in Sessions : ses[s].at \in Saving =>
    /\ Exists(ses[s].org) => ses[s].row # None /\ orgs[ses[s].org].account = ses[s].account
    /\ ses[s].row = None => \A x \in Sessions \ {s} :
         ses[x].at \in Saving => ses[x].org # ses[s].org

\* The sessions that will set a default: unless another did meanwhile, they
\* are going to unmark every other organisation that is marked.
Marks(x) == x.form.is_default /\ (x.row = None \/ ~x.row.is_default)
SetsDefault(x) == x.at \in {"store", "save"} /\ Marks(x)
ClearedInv ==
  \A s \in Sessions : SetsDefault(ses[s]) /\ ~ses[s].overtaken =>
    DefaultsOf(ses[s].account) \subseteq ses[s].cleared \cup {ses[s].org}
OneDefault == \A a \in Accounts \ raced : \A o, p \in DefaultsOf(a) : o = p
DefaultInv == OwnRows /\ ClearedInv /\ OneDefault

---------------------------------------------------------------------------
(* Values *)

LEMMA NoneApart ==
  /\ None \notin OrgRow /\ None \notin TokenRow /\ None \notin Sessions
  /\ None \notin Orgs /\ None \notin Tokens /\ None \notin Nat
  /\ \A t \in Time : t # None /\ t \in Nat
  /\ \A f \in Files : f # None
  BY OrganizationsAssumption DEF OrgRow, TokenRow, Time, Files

LEMMA ClosedType ==
  /\ Closed \in Session /\ GoodCopy(Closed) /\ Closed.at = "idle"
  /\ Closed.row = None /\ Closed.logo = None
<1>1. 0 \in Time
  BY OrganizationsAssumption DEF Time
<1> QED
  BY <1>1 DEF Closed, Session, Places, GoodCopy, Drawing

LEMMA RowFields ==
  ASSUME NEW row \in OrgRow
  PROVE  /\ row.account \in Accounts /\ row.alias \in Aliases /\ row.is_default \in BOOLEAN
         /\ row.requisites \in Requisites /\ row.logo_key \in Files \cup {None}
         /\ ImageOf(row) \in Image
         /\ ImageOf(row) = [requisites |-> row.requisites, logo |-> row.logo_key]
         /\ [row EXCEPT !.is_default = FALSE] \in OrgRow
         /\ [row EXCEPT !.is_default = FALSE].logo_key = row.logo_key
         /\ [row EXCEPT !.is_default = FALSE].account = row.account
         /\ ~[row EXCEPT !.is_default = FALSE].is_default
  BY DEF OrgRow, ImageOf, Image

\* What a save leaves of a row: each column is the current or the new one.
LEMMA FlushedFields ==
  ASSUME NEW current \in OrgRow, NEW before \in OrgRow, NEW after \in OrgRow
  PROVE  LET new == Flushed(current, before, after) IN
         /\ new \in OrgRow
         /\ new.account = IF after.account = before.account
                          THEN current.account ELSE after.account
         /\ new.is_default = IF after.is_default = before.is_default
                             THEN current.is_default ELSE after.is_default
         /\ new.logo_key \in {current.logo_key, after.logo_key}
<1>1. before # None
  BY NoneApart
<1> QED
  BY <1>1 DEF Flushed, OrgRow

LEMMA SavedFields ==
  ASSUME NEW x \in Session, GoodCopy(x), x.at = "save"
  PROVE  /\ Saved(x) \in OrgRow
         /\ Saved(x).account = x.account /\ Saved(x).is_default = x.form.is_default
         /\ Saved(x).logo_key = IF x.logo # None THEN x.logo
                                ELSE IF x.row = None THEN None ELSE x.row.logo_key
<1>1. x.account \in Accounts /\ x.form \in Form /\ x.logo \in Files \cup {None}
      /\ (x.row # None => x.row.logo_key \in Files \cup {None})
  BY DEF GoodCopy, Session, OrgRow
<1> QED
  BY <1>1 DEF Saved, OrgRow, Form

---------------------------------------------------------------------------
(* The cache *)

LEMMA RemoveAtFields ==
  ASSUME NEW S, NEW q \in Seq(S), NEW i \in 1..Len(q)
  PROVE  /\ RemoveAt(q, i) \in Seq(S)
         /\ Len(RemoveAt(q, i)) = Len(q) - 1
         /\ \A j \in 1..(Len(q) - 1) : RemoveAt(q, i)[j] = q[IF j < i THEN j ELSE j + 1]
<1> DEFINE left == SubSeq(q, 1, i - 1)
           right == SubSeq(q, i + 1, Len(q))
<1>1. Len(q) \in Nat /\ i \in Nat /\ 1 <= i /\ i <= Len(q) /\ \A j \in 1..Len(q) : q[j] \in S
  BY LenProperties, ElementOfSeq
<1>2. /\ left \in Seq(S) /\ Len(left) = i - 1
      /\ \A j \in 1..(i - 1) : left[j] = q[j]
  <2>1. \A j \in 1..(i - 1) : q[j] \in S
    BY <1>1
  <2>2. /\ left \in Seq(S) /\ Len(left) = IF 1 <= i - 1 THEN (i - 1) - 1 + 1 ELSE 0
        /\ \A j \in 1..((i - 1) - 1 + 1) : left[j] = q[1 + j - 1]
    BY <1>1, <2>1, SubSeqProperties
  <2> QED
    BY <1>1, <2>2
<1>3. /\ right \in Seq(S) /\ Len(right) = Len(q) - i
      /\ \A j \in 1..(Len(q) - i) : right[j] = q[i + j]
  <2>1. \A j \in (i + 1)..Len(q) : q[j] \in S
    BY <1>1
  <2>2. /\ right \in Seq(S)
        /\ Len(right) = IF i + 1 <= Len(q) THEN Len(q) - (i + 1) + 1 ELSE 0
        /\ \A j \in 1..(Len(q) - (i + 1) + 1) : right[j] = q[(i + 1) + j - 1]
    BY <1>1, <2>1, SubSeqProperties
  <2> QED
    BY <1>1, <2>2
<1> HIDE DEF left, right
<1>4. /\ left \o right \in Seq(S) /\ Len(left \o right) = Len(left) + Len(right)
      /\ \A j \in 1..(Len(left) + Len(right)) :
           (left \o right)[j] = IF j <= Len(left) THEN left[j] ELSE right[j - Len(left)]
  BY <1>2, <1>3, ConcatProperties
<1>5. RemoveAt(q, i) = left \o right
  BY DEF RemoveAt, left, right
<1>6. Len(left) + Len(right) = Len(q) - 1
  BY <1>1, <1>2, <1>3
<1>7. ASSUME NEW j \in 1..(Len(q) - 1)
      PROVE  (left \o right)[j] = q[IF j < i THEN j ELSE j + 1]
  <2>1. CASE j < i
    <3>1. j \in 1..(i - 1) /\ j <= Len(left)
      BY <1>1, <1>2, <2>1
    <3> QED
      BY <1>2, <1>4, <1>6, <2>1, <3>1
  <2>2. CASE ~(j < i)
    <3>1. ~(j <= Len(left)) /\ j - Len(left) \in 1..(Len(q) - i) /\ i + (j - Len(left)) = j + 1
      BY <1>1, <1>2, <2>2
    <3> QED
      BY <1>3, <1>4, <1>6, <2>2, <3>1
  <2> QED
    BY <2>1, <2>2
<1> QED
  BY <1>4, <1>5, <1>6, <1>7

\* Invalidation takes the entry of the key out and leaves the others.
LEMMA InvalidateGood ==
  ASSUME GoodCache(cache), NEW key
  PROVE  /\ GoodCache(Invalidate(key))
         /\ \A i \in 1..Len(Invalidate(key)) : Invalidate(key)[i].key # key
         /\ (\E i \in DOMAIN cache : cache[i].key = key) =>
              Len(Invalidate(key)) = Len(cache) - 1
<1>1. /\ cache \in Seq(Entry) /\ Len(cache) \in Nat /\ DOMAIN cache = 1..Len(cache)
      /\ CacheSize \in Nat
  BY LenProperties, OrganizationsAssumption DEF GoodCache
<1>2. CASE \E i \in DOMAIN cache : cache[i].key = key
  <2> DEFINE k == CHOOSE i \in DOMAIN cache : cache[i].key = key
             left == Invalidate(key)
  <2>1. k \in 1..Len(cache) /\ cache[k].key = key
    BY <1>1, <1>2
  <2>2. left = RemoveAt(cache, k)
    BY <1>2 DEF Invalidate
  <2> HIDE DEF k, left
  <2>3. /\ left \in Seq(Entry) /\ Len(left) = Len(cache) - 1
        /\ \A j \in 1..(Len(cache) - 1) : left[j] = cache[IF j < k THEN j ELSE j + 1]
    BY <1>1, <2>1, <2>2, RemoveAtFields
  <2>4. \A j \in 1..Len(left) :
          /\ (IF j < k THEN j ELSE j + 1) \in 1..Len(cache)
          /\ (IF j < k THEN j ELSE j + 1) # k
          /\ left[j] = cache[IF j < k THEN j ELSE j + 1]
    BY <1>1, <2>1, <2>3
  <2>5. \A j \in 1..Len(left) : left[j].data = left[j].key /\ left[j].key \in files
    BY <2>4 DEF GoodCache
  <2>6. \A j \in 1..Len(left) : left[j].key # key
    BY <2>1, <2>4 DEF GoodCache
  <2>7. \A i, j \in 1..Len(left) : left[i].key = left[j].key => i = j
    <3>1. SUFFICES ASSUME NEW i \in 1..Len(left), NEW j \in 1..Len(left),
                          left[i].key = left[j].key
                   PROVE  i = j
      OBVIOUS
    <3>2. (IF i < k THEN i ELSE i + 1) = (IF j < k THEN j ELSE j + 1)
      BY <2>4, <3>1 DEF GoodCache
    <3> QED
      BY <1>1, <2>1, <2>3, <3>2
  <2>8. Len(left) <= CacheSize
    BY <1>1, <2>3 DEF GoodCache
  <2> QED
    BY <2>3, <2>5, <2>6, <2>7, <2>8 DEF GoodCache, left
<1>3. CASE ~\E i \in DOMAIN cache : cache[i].key = key
  <2>1. Invalidate(key) = cache
    BY <1>3 DEF Invalidate
  <2> QED
    BY <1>1, <1>3, <2>1
<1> QED
  BY <1>2, <1>3

LEMMA InvalidateType ==
  ASSUME cache \in Seq(Entry), NEW key
  PROVE  Invalidate(key) \in Seq(Entry)
<1>1. DOMAIN cache = 1..Len(cache)
  BY LenProperties
<1> QED
  BY <1>1, RemoveAtFields DEF Invalidate

\* A new entry for a key that has none keeps the cache good but for its size.
LEMMA AppendGood ==
  ASSUME NEW q, GoodCache(q), NEW entry \in Entry, entry.data = entry.key,
         entry.key \in files, \A i \in 1..Len(q) : q[i].key # entry.key
  PROVE  LET longer == Append(q, entry) IN
         /\ longer \in Seq(Entry) /\ Len(longer) = Len(q) + 1
         /\ \A i \in 1..Len(longer) : longer[i].data = longer[i].key /\ longer[i].key \in files
         /\ \A i, j \in 1..Len(longer) : longer[i].key = longer[j].key => i = j
<1> DEFINE longer == Append(q, entry)
<1>1. q \in Seq(Entry) /\ Len(q) \in Nat
  BY LenProperties DEF GoodCache
<1>2. /\ longer \in Seq(Entry) /\ Len(longer) = Len(q) + 1
      /\ \A i \in 1..Len(q) : longer[i] = q[i]
      /\ longer[Len(q) + 1] = entry
  BY <1>1, AppendProperties
<1> HIDE DEF longer
<1>3. \A i \in 1..Len(longer) : i \in 1..Len(q) \/ i = Len(q) + 1
  BY <1>1, <1>2
<1>4. \A i \in 1..Len(longer) : longer[i].data = longer[i].key /\ longer[i].key \in files
  BY <1>2, <1>3 DEF GoodCache
<1>5. \A i, j \in 1..Len(longer) : longer[i].key = longer[j].key => i = j
  BY <1>2, <1>3 DEF GoodCache
<1> QED
  BY <1>2, <1>4, <1>5 DEF longer

LEMMA CachePutGood ==
  ASSUME GoodCache(cache), NEW entry \in Entry, entry.data = entry.key, entry.key \in files
  PROVE  GoodCache(CachePut(entry))
<1> DEFINE rest == Invalidate(entry.key)
           longer == Append(rest, entry)
<1>1. GoodCache(rest) /\ \A i \in 1..Len(rest) : rest[i].key # entry.key
  BY InvalidateGood
<1>2. Len(rest) \in Nat /\ Len(rest) <= CacheSize /\ CacheSize \in Nat
  BY <1>1, LenProperties, OrganizationsAssumption DEF GoodCache
<1> HIDE DEF rest
<1>3. /\ longer \in Seq(Entry) /\ Len(longer) = Len(rest) + 1
      /\ \A i \in 1..Len(longer) : longer[i].data = longer[i].key /\ longer[i].key \in files
      /\ \A i, j \in 1..Len(longer) : longer[i].key = longer[j].key => i = j
  BY <1>1, AppendGood
<1>4. CachePut(entry) = IF Len(longer) > CacheSize THEN Tail(longer) ELSE longer
  BY DEF CachePut, rest
<1> HIDE DEF longer
<1>5. CASE ~(Len(longer) > CacheSize)
  BY <1>2, <1>3, <1>4, <1>5 DEF GoodCache
<1>6. CASE Len(longer) > CacheSize
  <2> DEFINE t == Tail(longer)
  <2>1. longer # <<>>
    BY <1>2, <1>3, <1>6, EmptySeq
  <2>2. /\ t \in Seq(Entry) /\ Len(t) = Len(longer) - 1
        /\ \A i \in 1..Len(t) : t[i] = longer[i + 1]
    BY <1>3, <2>1, HeadTailProperties
  <2> HIDE DEF t
  <2>3. \A i \in 1..Len(t) : i + 1 \in 1..Len(longer) /\ i \in Nat
    BY <1>2, <1>3, <2>2
  <2>4. ASSUME NEW i \in 1..Len(t)
        PROVE  t[i].data = t[i].key /\ t[i].key \in files
    <3>1. t[i] = longer[i + 1] /\ i + 1 \in 1..Len(longer)
      BY <2>2, <2>3
    <3> QED
      BY <1>3, <3>1
  <2>5. ASSUME NEW i \in 1..Len(t), NEW j \in 1..Len(t), t[i].key = t[j].key
        PROVE  i = j
    <3>1. /\ t[i] = longer[i + 1] /\ i + 1 \in 1..Len(longer)
          /\ t[j] = longer[j + 1] /\ j + 1 \in 1..Len(longer)
      BY <2>2, <2>3
    <3>2. i + 1 = j + 1
      BY <1>3, <2>5, <3>1
    <3> QED
      BY <2>3, <3>2
  <2>6. Len(t) <= CacheSize
    BY <1>2, <1>3, <2>2
  <2> QED
    BY <1>4, <1>6, <2>2, <2>4, <2>5, <2>6 DEF GoodCache, t
<1> QED
  BY <1>5, <1>6

---------------------------------------------------------------------------
(* The pieces of a step *)

\* What a session starts with: a fresh identifier or a row as it is.
GoodEntry(x) ==
  /\ x \in Session /\ GoodCopy(x)
  /\ x.at \in {"check", "store", "delete", "revoke", "mark", "draw"}
  /\ x.logo = None
  /\ x.at \in {"revoke", "mark"} => tokens[x.token] # None
  /\ x.row # None => x.org \in Orgs /\ Exists(x.org) /\ x.row = orgs[x.org]
  /\ x.at = "store" =>
       /\ x.row = None /\ ~Exists(x.org) /\ \A y \in Sessions : ses[y].org # x.org
       /\ x.form.is_default => x.cleared = DefaultsOf(x.account) \ {x.org}

Started(s) == \E x : GoodEntry(x) /\ Open(s, x)

Starts(s) ==
  \/ \E o \in Orgs, form \in Forms :
       \/ PanelCreate(s, o, form) \/ OrgAdd(s, o, form) \/ PanelEdit(s, o, form)
       \/ \E viewer \in Accounts :
            CabinetCreate(s, viewer, o, form) \/ CabinetEdit(s, viewer, o, form)
  \/ \E o \in Orgs : PanelDelete(s, o) \/ \E viewer \in Accounts : CabinetDelete(s, viewer, o)
  \/ \E t \in Tokens :
       PanelRevoke(s, t) \/ CommandRevoke(s, t)
       \/ \E viewer \in Accounts : CabinetRevoke(s, viewer, t)
  \/ \E t \in Tokens, etag \in {None} \cup {o \in Orgs : client[o] # None} :
       Authenticate(s, t, etag)
  \/ \E o \in Orgs : PaymentQr(s, o)

\* A session's own step after its start.
Proceeds(s) ==
  \/ UpdateOrganization(s) \/ AttachLogo(s) \/ CommitSave(s) \/ DeleteOrganization(s)
  \/ CommitRevoke(s) \/ MarkTokenUsed(s)
  \/ \E alias \in Aliases \cup {None} : ResolveOrganization(s, alias)
  \/ ResolveInvoice(s) \/ NotModified(s)
  \/ DrawPlain(s) \/ CacheHit(s) \/ CacheMiss(s) \/ StorageAnswers(s) \/ Receive(s)
  \/ Rollback(s)

LEMMA ExistingRow ==
  ASSUME TypeOK, NEW o \in Orgs, Exists(o)
  PROVE  orgs[o] \in OrgRow /\ orgs[o] # None
  BY DEF TypeOK, Exists

LEMMA CreateEntry ==
  ASSUME TypeInv, NEW s \in Sessions, NEW a \in Accounts, NEW o \in Orgs,
         NEW form \in Forms, CreateOrganization(s, a, o, form)
  PROVE  Started(s)
<1> DEFINE gone == IF form.is_default THEN ClearDefault(a, o) ELSE {}
           x == [Closed EXCEPT !.at = "store", !.org = o, !.account = a, !.form = form,
                               !.cleared = gone]
<1>1. form \in Form /\ gone \in SUBSET Orgs
  BY OrganizationsAssumption DEF Form, ClearDefault, DefaultsOf, Of
<1> HIDE DEF gone
<1>2. /\ x \in Session /\ x.at = "store" /\ x.org = o /\ x.account = a /\ x.form = form
      /\ x.cleared = gone /\ x.row = None /\ x.logo = None
  BY <1>1, ClosedType DEF Session, Places
<1>3. ~Exists(o) /\ \A y \in Sessions : ses[y].org # o
  BY DEF CreateOrganization, NewId
<1>4. Open(s, x)
  BY DEF CreateOrganization, gone
<1> HIDE DEF x
<1>5. GoodEntry(x)
  BY <1>1, <1>2, <1>3 DEF GoodEntry, GoodCopy, Drawing, ClearDefault, gone
<1> QED
  BY <1>4, <1>5 DEF Started

LEMMA LoadEntry ==
  ASSUME TypeInv, NEW s \in Sessions, NEW o \in Orgs, Exists(o),
         NEW place \in {"check", "delete"}, NEW form \in Form \cup {None},
         place = "check" => form \in Form, Load(s, o, place, form)
  PROVE  Started(s)
<1> DEFINE x == [Closed EXCEPT !.at = place, !.org = o, !.account = orgs[o].account,
                               !.row = orgs[o], !.form = form]
<1>1. orgs[o] \in OrgRow /\ orgs[o] # None /\ orgs[o].account \in Accounts
  BY ExistingRow, RowFields DEF TypeInv
<1>2. /\ x \in Session /\ x.at = place /\ x.org = o /\ x.account = orgs[o].account
      /\ x.form = form /\ x.row = orgs[o] /\ x.logo = None
  <2>1. place \in Places
    BY DEF Places
  <2>2. Closed \in Session /\ Closed.logo = None
    BY ClosedType
  <2> QED
    BY <1>1, <2>1, <2>2 DEF Session
<1>3. Open(s, x)
  BY DEF Load
<1> HIDE DEF x
<1>4. GoodEntry(x)
  BY <1>1, <1>2 DEF GoodEntry, GoodCopy, Drawing
<1> QED
  BY <1>3, <1>4 DEF Started

LEMMA StartsAreGood ==
  ASSUME TypeInv, NEW s \in Sessions, Starts(s)
  PROVE  Started(s)
<1>1. ASSUME NEW o \in Orgs, NEW form \in Forms,
             \/ PanelCreate(s, o, form) \/ OrgAdd(s, o, form)
             \/ \E viewer \in Accounts : CabinetCreate(s, viewer, o, form)
      PROVE  Started(s)
  BY <1>1, CreateEntry DEF PanelCreate, OrgAdd, CabinetCreate
<1>2. ASSUME NEW o \in Orgs, NEW form \in Forms,
             \/ PanelEdit(s, o, form)
             \/ \E viewer \in Accounts : CabinetEdit(s, viewer, o, form)
      PROVE  Started(s)
  <2>1. Exists(o) /\ Load(s, o, "check", form)
    BY <1>2 DEF PanelEdit, CabinetEdit, Own
  <2>2. form \in Form
    BY OrganizationsAssumption DEF Form
  <2> QED
    BY <2>1, <2>2, LoadEntry
<1>3. ASSUME NEW o \in Orgs,
             PanelDelete(s, o) \/ \E viewer \in Accounts : CabinetDelete(s, viewer, o)
      PROVE  Started(s)
  <2>1. Exists(o) /\ Load(s, o, "delete", None)
    BY <1>3 DEF PanelDelete, CabinetDelete, Own
  <2> QED
    BY <2>1, LoadEntry
<1>4. now \in Time
  BY DEF TypeInv, TypeOK
<1>5. ASSUME NEW t \in Tokens,
             \/ PanelRevoke(s, t) \/ CommandRevoke(s, t)
             \/ \E viewer \in Accounts : CabinetRevoke(s, viewer, t)
      PROVE  Started(s)
  <2> DEFINE x == [Closed EXCEPT !.at = "revoke", !.token = t, !.clock = now]
  <2>1. Open(s, x) /\ tokens[t] # None
    BY <1>5 DEF PanelRevoke, CommandRevoke, CabinetRevoke, Stampable
  <2>2. x \in Session /\ x.at = "revoke" /\ x.token = t /\ x.row = None /\ x.logo = None
    BY <1>4, ClosedType DEF Session, Places
  <2> HIDE DEF x
  <2>3. GoodEntry(x)
    BY <2>1, <2>2 DEF GoodEntry, GoodCopy, Drawing
  <2> QED
    BY <2>1, <2>3 DEF Started
<1>6. ASSUME NEW t \in Tokens, NEW etag \in {None} \cup {o \in Orgs : client[o] # None},
             Authenticate(s, t, etag)
      PROVE  Started(s)
  <2> DEFINE held == IF etag = None THEN None ELSE client[etag]
             x == [Closed EXCEPT !.at = "mark", !.token = t, !.account = tokens[t].account,
                                 !.clock = now, !.etag = etag, !.shown = held]
  <2>1. Open(s, x) /\ tokens[t] # None
    BY <1>6 DEF Authenticate, Stampable
  <2>2. tokens[t].account \in Accounts /\ held \in Image \cup {None} /\ etag \in Orgs \cup {None}
    BY <2>1 DEF TypeInv, TypeOK, TokenRow
  <2> HIDE DEF held
  <2>3. /\ x \in Session /\ x.at = "mark" /\ x.token = t /\ x.account \in Accounts
        /\ x.row = None /\ x.logo = None
    BY <1>4, <2>2, ClosedType DEF Session, Places
  <2> HIDE DEF x
  <2>4. GoodEntry(x)
    BY <2>1, <2>3 DEF GoodEntry, GoodCopy, Drawing
  <2> QED
    BY <2>1, <2>4 DEF Started
<1>7. ASSUME NEW o \in Orgs, PaymentQr(s, o)
      PROVE  Started(s)
  <2> DEFINE x == [Closed EXCEPT !.at = "draw", !.org = o, !.row = orgs[o],
                                 !.window = {ImageOf(orgs[o])}]
  <2>1. Open(s, x) /\ Exists(o)
    BY <1>7 DEF PaymentQr, TypeInv, RowsStay
  <2>2. orgs[o] \in OrgRow /\ ImageOf(orgs[o]) \in Image
    BY <2>1, ExistingRow, RowFields DEF TypeInv
  <2>3. /\ x \in Session /\ x.at = "draw" /\ x.org = o /\ x.row = orgs[o]
        /\ x.window = {ImageOf(orgs[o])} /\ x.logo = None
    BY <2>2, ClosedType DEF Session, Places
  <2> HIDE DEF x
  <2>4. GoodEntry(x)
    BY <2>1, <2>2, <2>3 DEF GoodEntry, GoodCopy, Drawing
  <2> QED
    BY <2>1, <2>4 DEF Started
<1> QED
  BY <1>1, <1>2, <1>3, <1>5, <1>6, <1>7 DEF Starts

LEMMA StepKinds ==
  ASSUME TypeInv, [Next]_vars
  PROVE  \/ \E s \in Sessions : Started(s) \/ Proceeds(s)
         \/ \E t \in Tokens, a \in Accounts : IssueToken(t, a)
         \/ Restart \/ Tick \/ UNCHANGED vars
  BY StartsAreGood DEF Next, Edit, Keys, Request, Starts, Proceeds, Finished

---------------------------------------------------------------------------
(* Types *)

\* A step that moves one session to a good place.
LEMMA SessionMoves ==
  ASSUME TypeInv, NEW s \in Sessions, NEW y \in Session, GoodCopy(y),
         ses' = [ses EXCEPT ![s] = y]
  PROVE  /\ ses' \in [Sessions -> Session] /\ CopiesOK'
         /\ ses'[s] = y /\ \A z \in Sessions \ {s} : ses'[z] = ses[z]
  BY DEF TypeInv, TypeOK, CopiesOK

LEMMA SessionCloses ==
  ASSUME TypeInv, NEW s \in Sessions, Close(s)
  PROVE  /\ ses' \in [Sessions -> Session] /\ CopiesOK'
         /\ ses'[s] = Closed /\ \A z \in Sessions \ {s} : ses'[z] = ses[z]
         /\ tokenLock' \in [Tokens -> Sessions \cup {None}]
<1>1. ses' = [ses EXCEPT ![s] = Closed]
  BY DEF Close
<1>2. tokenLock' \in [Tokens -> Sessions \cup {None}]
  BY DEF Close, TypeInv, TypeOK
<1> QED
  BY <1>1, <1>2, ClosedType, SessionMoves

LEMMA RowsStayOn ==
  ASSUME TypeInv, NEW s \in Sessions, \A z \in Sessions \ {s} : ses'[z] = ses[z],
         ses'[s].at \in {"revoke", "mark", "resolve", "invoice"} =>
           /\ ses'[s].token \in Tokens
           /\ tokens[ses'[s].token] # None,
         \A t \in Tokens : tokens[t] # None => tokens'[t] # None,
         \A o \in invoices' : orgs'[o] # None
  PROVE  RowsStay'
<1>1. ASSUME NEW z \in Sessions, ses'[z].at \in {"revoke", "mark", "resolve", "invoice"}
      PROVE  tokens'[ses'[z].token] # None
  <2>1. CASE z = s
    BY <1>1, <2>1
  <2>2. CASE z # s
    <3>1. ses'[z] = ses[z] /\ GoodCopy(ses[z])
      BY <2>2 DEF TypeInv, CopiesOK
    <3>2. ses[z].token \in Tokens
      BY <1>1, <3>1 DEF GoodCopy
    <3> QED
      BY <1>1, <3>1, <3>2 DEF TypeInv, RowsStay
  <2> QED
    BY <2>1, <2>2
<1> QED
  BY <1>1 DEF RowsStay, Exists

LEMMA StartedTyped ==
  ASSUME TypeInv, NEW s \in Sessions, Started(s)
  PROVE  TypeInv'
<1>1. PICK x : GoodEntry(x) /\ Open(s, x)
  BY DEF Started
<1>2. x \in Session /\ GoodCopy(x) /\ ses' = [ses EXCEPT ![s] = x]
  BY <1>1 DEF GoodEntry, Open
<1>3. /\ ses' \in [Sessions -> Session] /\ CopiesOK'
      /\ ses'[s] = x /\ \A z \in Sessions \ {s} : ses'[z] = ses[z]
  BY <1>2, SessionMoves
<1>4. runs' \in 0..MaxRuns
  BY <1>1, OrganizationsAssumption DEF Open, TypeInv, TypeOK
<1>5. UNCHANGED <<rows, files, cache, now, history>>
  BY <1>1 DEF Open
<1>6. TypeOK'
  BY <1>3, <1>4, <1>5 DEF TypeInv, TypeOK, rows, history
<1>7. RowsStay'
  <2>1. x.at \in {"revoke", "mark", "resolve", "invoice"} =>
          x.token \in Tokens /\ tokens[x.token] # None
    BY <1>1 DEF GoodEntry, GoodCopy
  <2>2. tokens' = tokens /\ invoices' = invoices /\ orgs' = orgs
    BY <1>5 DEF rows
  <2>3. \A o \in invoices' : orgs'[o] # None
    BY <2>2 DEF TypeInv, RowsStay, Exists
  <2> QED
    BY <1>3, <2>1, <2>2, <2>3, RowsStayOn
<1> QED
  BY <1>3, <1>6, <1>7 DEF TypeInv

\* A step of one session that leaves the rows alone.
LEMMA MovesTyped ==
  ASSUME TypeInv, NEW s \in Sessions, NEW y \in Session, GoodCopy(y),
         ses' = [ses EXCEPT ![s] = y], UNCHANGED <<rows, now, runs, history>>,
         files' \in SUBSET Files, cache' \in Seq(Entry),
         y.at \in {"revoke", "mark", "resolve", "invoice"} => tokens[y.token] # None
  PROVE  TypeInv'
<1>1. /\ ses' \in [Sessions -> Session] /\ CopiesOK'
      /\ ses'[s] = y /\ \A z \in Sessions \ {s} : ses'[z] = ses[z]
  BY SessionMoves
<1>2. TypeOK'
  BY <1>1 DEF TypeInv, TypeOK, rows, history
<1>3. RowsStay'
  <2>1. y.at \in {"revoke", "mark", "resolve", "invoice"} => y.token \in Tokens
    BY DEF GoodCopy
  <2>2. tokens' = tokens /\ invoices' = invoices /\ orgs' = orgs
    BY DEF rows
  <2>3. \A o \in invoices' : orgs'[o] # None
    BY <2>2 DEF TypeInv, RowsStay, Exists
  <2> QED
    BY <1>1, <2>1, <2>2, <2>3, RowsStayOn
<1> QED
  BY <1>1, <1>2, <1>3 DEF TypeInv

LEMMA UpdateTyped ==
  ASSUME TypeInv, NEW s \in Sessions, UpdateOrganization(s)
  PROVE  TypeInv'
<1> DEFINE me == ses[s]
           gone == IF me.form.is_default /\ ~me.row.is_default
                   THEN ClearDefault(me.account, me.org) ELSE {}
           y == [me EXCEPT !.at = "store", !.cleared = gone]
<1>1. me \in Session /\ GoodCopy(me) /\ me.at = "check"
  BY DEF UpdateOrganization, TypeInv, TypeOK, CopiesOK
<1>2. gone \in SUBSET Orgs
  BY DEF ClearDefault, DefaultsOf, Of
<1>3. ses' = [ses EXCEPT ![s] = y]
  BY DEF UpdateOrganization, TypeInv, TypeOK, Session
<1> HIDE DEF gone
<1>4. y \in Session /\ GoodCopy(y) /\ y.at = "store"
  BY <1>1, <1>2 DEF Session, Places, GoodCopy, Drawing
<1> HIDE DEF y
<1>5. UNCHANGED <<rows, files, cache, now, runs, history>>
  BY DEF UpdateOrganization
<1> QED
  BY <1>3, <1>4, <1>5, MovesTyped DEF TypeInv, TypeOK

\* What the steps after the start write into their session.
LEMMA AttachTyped ==
  ASSUME TypeInv, NEW s \in Sessions, AttachLogo(s)
  PROVE  TypeInv'
<1> DEFINE me == ses[s]
<1>1. me \in Session /\ GoodCopy(me) /\ me.at = "store"
  BY DEF AttachLogo, TypeInv, TypeOK, CopiesOK
<1>2. UNCHANGED <<rows, now, runs, history>>
  BY DEF AttachLogo
<1>3. CASE ~me.form.upload
  <2> DEFINE y == [me EXCEPT !.at = "save"]
  <2>1. ses' = [ses EXCEPT ![s] = y] /\ UNCHANGED <<files, cache>>
    BY <1>3 DEF AttachLogo
  <2>2. y \in Session /\ GoodCopy(y) /\ y.at = "save"
    BY <1>1 DEF Session, Places, GoodCopy, Drawing
  <2> HIDE DEF y
  <2> QED
    BY <1>2, <2>1, <2>2, MovesTyped DEF TypeInv, TypeOK
<1>4. CASE me.form.upload
  <2>1. PICK key \in Files :
          /\ StoreLogo(key)
          /\ ses' = [ses EXCEPT ![s].at = "save", ![s].logo = key]
          /\ \E previous : cache' = cache \/ cache' = Invalidate(previous)
    BY <1>4 DEF AttachLogo
  <2> DEFINE y == [me EXCEPT !.at = "save", !.logo = key]
  <2>2. ses' = [ses EXCEPT ![s] = y]
    BY <2>1 DEF TypeInv, TypeOK, Session
  <2>3. y \in Session /\ GoodCopy(y) /\ y.at = "save"
    BY <1>1 DEF Session, Places, GoodCopy, Drawing
  <2>4. files' \in SUBSET Files
    BY <2>1 DEF StoreLogo, TypeInv, TypeOK
  <2>5. cache' \in Seq(Entry)
    BY <2>1, InvalidateType DEF TypeInv, TypeOK
  <2> HIDE DEF y
  <2> QED
    BY <1>2, <2>2, <2>3, <2>4, <2>5, MovesTyped
<1> QED
  BY <1>3, <1>4

LEMMA CachePutType ==
  ASSUME cache \in Seq(Entry), NEW entry \in Entry
  PROVE  CachePut(entry) \in Seq(Entry)
<1> DEFINE longer == Append(Invalidate(entry.key), entry)
<1>1. longer \in Seq(Entry) /\ Len(longer) = Len(Invalidate(entry.key)) + 1
  BY InvalidateType, AppendProperties
<1>2. Len(longer) \in Nat /\ Len(longer) # 0
  BY <1>1, InvalidateType, LenProperties
<1>3. CachePut(entry) = IF Len(longer) > CacheSize THEN Tail(longer) ELSE longer
  BY DEF CachePut
<1> HIDE DEF longer
<1>4. Tail(longer) \in Seq(Entry)
  BY <1>1, <1>2, EmptySeq, HeadTailProperties
<1> QED
  BY <1>1, <1>3, <1>4

LEMMA SendTyped ==
  ASSUME TypeInv, NEW s \in Sessions, ses[s].at \in {"draw", "fetch"},
         NEW logo \in Files \cup {None}, Send(s, logo), cache' \in Seq(Entry),
         UNCHANGED <<rows, files, now, runs, history>>
  PROVE  TypeInv'
<1> DEFINE me == ses[s]
           image == [requisites |-> me.row.requisites, logo |-> logo]
           y == [me EXCEPT !.at = "sent", !.fresh = TRUE, !.shown = image]
<1>1. me \in Session /\ me.org \in Orgs /\ me.row \in OrgRow
  BY DEF TypeInv, TypeOK, CopiesOK, GoodCopy, Drawing
<1>2. ses' = [ses EXCEPT ![s] = y]
  BY DEF Send, TypeInv, TypeOK, Session
<1>3. image \in Image
  BY <1>1, RowFields DEF Image
<1> HIDE DEF image
<1>4. y \in Session /\ GoodCopy(y) /\ y.at = "sent"
  BY <1>1, <1>3 DEF Session, Places, GoodCopy, Drawing
<1> HIDE DEF y
<1> QED
  BY <1>2, <1>4, MovesTyped DEF TypeInv, TypeOK

\* The steps of a request that write no row.
LEMMA RequestTyped ==
  ASSUME TypeInv, NEW s \in Sessions,
         \/ \E alias \in Aliases \cup {None} : ResolveOrganization(s, alias)
         \/ NotModified(s) \/ DrawPlain(s) \/ CacheHit(s) \/ CacheMiss(s) \/ StorageAnswers(s)
  PROVE  TypeInv'
<1> DEFINE me == ses[s]
<1>1. me \in Session /\ GoodCopy(me) /\ files \in SUBSET Files /\ cache \in Seq(Entry)
      /\ now \in Time
  BY DEF TypeInv, TypeOK, CopiesOK
<1>2. ASSUME NEW alias \in Aliases \cup {None}, ResolveOrganization(s, alias)
      PROVE  TypeInv'
  <2>1. PICK o \in Candidates(me.account, alias) :
          ses' = [ses EXCEPT ![s].at = "invoice", ![s].org = o, ![s].row = orgs[o],
                             ![s].window = {ImageOf(orgs[o])}]
    BY <1>2 DEF ResolveOrganization
  <2> DEFINE y == [me EXCEPT !.at = "invoice", !.org = o, !.row = orgs[o],
                             !.window = {ImageOf(orgs[o])}]
  <2>2. o \in Orgs /\ Exists(o)
    BY <2>1 DEF Candidates, DefaultsOf, Of
  <2>3. orgs[o] \in OrgRow /\ ImageOf(orgs[o]) \in Image
    BY <2>2, ExistingRow, RowFields DEF TypeInv
  <2>4. ses' = [ses EXCEPT ![s] = y]
    BY <2>1 DEF TypeInv, TypeOK, Session
  <2>5. y \in Session /\ y.at = "invoice" /\ y.org = o /\ y.row = orgs[o] /\ y.token = me.token
        /\ y.window = {ImageOf(orgs[o])}
    BY <1>1, <2>2, <2>3 DEF Session, Places
  <2>6. me.at = "resolve" /\ me.token \in Tokens /\ tokens[me.token] # None
    BY <1>1, <1>2 DEF ResolveOrganization, GoodCopy, TypeInv, RowsStay
  <2> HIDE DEF y
  <2>7. GoodCopy(y)
    BY <2>2, <2>3, <2>5, <2>6 DEF GoodCopy, Drawing
  <2>8. UNCHANGED <<rows, files, cache, now, runs, history>>
    BY <1>2 DEF ResolveOrganization
  <2> QED
    BY <1>1, <2>4, <2>5, <2>6, <2>7, <2>8, MovesTyped
<1>3. CASE NotModified(s)
  <2> DEFINE y == [me EXCEPT !.at = "sent", !.fresh = FALSE]
  <2>1. ses' = [ses EXCEPT ![s] = y]
    BY <1>3 DEF NotModified, TypeInv, TypeOK, Session
  <2>2. me.at = "draw" /\ me.org \in Orgs
    BY <1>1, <1>3 DEF NotModified, GoodCopy, Drawing
  <2>3. y \in Session /\ y.at = "sent" /\ y.org = me.org
    <3>1. me \in Session
      BY <1>1
    <3> HIDE DEF me
    <3>2. FALSE \in BOOLEAN /\ "sent" \in Places
      BY DEF Places
    <3> QED
      BY <3>1, <3>2 DEF Session
  <2>4. GoodCopy(y)
    BY <2>2, <2>3 DEF GoodCopy, Drawing
  <2>5. UNCHANGED <<rows, files, cache, now, runs, history>>
    BY <1>3 DEF NotModified
  <2> HIDE DEF y
  <2> QED
    BY <1>1, <2>1, <2>3, <2>5, <2>4, MovesTyped
<1>4. CASE DrawPlain(s)
  <2>1. me.at = "draw" /\ Send(s, None) /\ UNCHANGED <<rows, files, cache, now, runs, history>>
    BY <1>4 DEF DrawPlain, Draws
  <2> QED
    BY <1>1, <2>1, SendTyped
<1>5. CASE CacheHit(s)
  <2>1. PICK i \in DOMAIN cache :
          cache' = Append(Invalidate(me.row.logo_key), cache[i]) /\ Send(s, cache[i].data)
    BY <1>5 DEF CacheHit
  <2>2. cache[i] \in Entry
    BY <1>1, <2>1, LenProperties, ElementOfSeq
  <2>3. cache' \in Seq(Entry)
    BY <1>1, <2>1, <2>2, InvalidateType, AppendProperties
  <2>4. cache[i].data \in Files \cup {None}
    BY <2>2 DEF Entry
  <2>5. me.at = "draw" /\ UNCHANGED <<rows, files, now, runs, history>>
    BY <1>5 DEF CacheHit, Draws
  <2> QED
    BY <2>1, <2>3, <2>4, <2>5, SendTyped
<1>6. CASE CacheMiss(s)
  <2> DEFINE y == [me EXCEPT !.at = "fetch", !.clock = now]
  <2>1. ses' = [ses EXCEPT ![s] = y]
    BY <1>6 DEF CacheMiss, TypeInv, TypeOK, Session
  <2>2. me.at = "draw" /\ me.row.logo_key # None
    BY <1>6 DEF CacheMiss, Draws
  <2>3. y \in Session /\ GoodCopy(y) /\ y.at = "fetch"
    BY <1>1, <2>2 DEF Session, Places, GoodCopy, Drawing
  <2>4. UNCHANGED <<rows, files, now, runs, history>> /\ cache' \in Seq(Entry)
    BY <1>1, <1>6, InvalidateType DEF CacheMiss
  <2> HIDE DEF y
  <2> QED
    BY <1>1, <2>1, <2>3, <2>4, MovesTyped
<1>7. CASE StorageAnswers(s)
  <2> DEFINE key == me.row.logo_key
             entry == [key |-> key, expires |-> me.clock + CacheTtl, data |-> StorageGet(key)]
  <2>1. me.at = "fetch" /\ Send(s, StorageGet(key)) /\ cache' = CachePut(entry)
        /\ UNCHANGED <<rows, files, now, runs, history>>
    BY <1>7 DEF StorageAnswers
  <2>2. key \in Files /\ StorageGet(key) \in Files \cup {None}
    <3>1. me.row \in OrgRow /\ key # None
      BY <1>1, <2>1 DEF GoodCopy, Drawing
    <3> QED
      BY <3>1, RowFields DEF StorageGet
  <2>3. me.clock + CacheTtl \in Nat
    BY <1>1, OrganizationsAssumption DEF Session, Time
  <2> HIDE DEF key
  <2>4. entry \in Entry
    BY <2>2, <2>3 DEF Entry
  <2> HIDE DEF entry
  <2> QED
    BY <1>1, <2>1, <2>2, <2>4, CachePutType, SendTyped
<1> QED
  BY <1>2, <1>3, <1>4, <1>5, <1>6, <1>7

\* A commit of another session's save leaves a session as it is, but for what
\* it learns of the race and the images its row has stood for.
SameBut(x, y) ==
  /\ y \in Session
  /\ y.at = x.at /\ y.org = x.org /\ y.token = x.token /\ y.account = x.account
  /\ y.row = x.row /\ y.form = x.form /\ y.logo = x.logo /\ y.cleared = x.cleared
  /\ y.clock = x.clock /\ y.marked = x.marked /\ y.etag = x.etag
  /\ y.shown = x.shown /\ y.fresh = x.fresh
  /\ x.window \subseteq y.window /\ (x.overtaken => y.overtaken)

\* What the commit of a save does to the rows.
LEMMA SaveRows ==
  ASSUME TypeInv, NEW s \in Sessions, CommitSave(s)
  PROVE  LET me == ses[s] IN
         /\ me \in Session /\ GoodCopy(me) /\ me.at = "save" /\ me.org \in Orgs
         /\ Saved(me) \in OrgRow
         /\ orgs' \in [Orgs -> OrgRow \cup {None}]
         /\ orgs'[me.org] = IF me.row = None THEN Saved(me)
                            ELSE IF Exists(me.org) THEN Flushed(orgs[me.org], me.row, Saved(me))
                            ELSE None
         /\ \A p \in Orgs : p # me.org => orgs'[p] =
              IF p \in me.cleared /\ Exists(p)
              THEN [orgs[p] EXCEPT !.is_default = FALSE] ELSE orgs[p]
         /\ \A p \in Orgs : Exists(p) => orgs'[p] # None
<1> DEFINE me == ses[s]
           o == me.org
           after == Saved(me)
           written == IF me.row = None THEN after
                      ELSE IF Exists(o) THEN Flushed(orgs[o], me.row, after) ELSE None
<1>1. me \in Session /\ GoodCopy(me) /\ me.at = "save"
  BY DEF CommitSave, TypeInv, TypeOK, CopiesOK
<1>2. /\ o \in Orgs /\ after \in OrgRow
      /\ me.row # None => me.row \in OrgRow
  BY <1>1, SavedFields DEF GoodCopy
<1>3. orgs' = [p \in Orgs |->
         IF p = o THEN written
         ELSE IF p \in me.cleared /\ Exists(p) THEN [orgs[p] EXCEPT !.is_default = FALSE]
         ELSE orgs[p]]
  BY DEF CommitSave
<1>4. written \in OrgRow \cup {None} /\ (Exists(o) => written # None)
  <2>1. CASE me.row = None
    BY <1>2, <2>1, NoneApart
  <2>2. CASE me.row # None /\ Exists(o)
    <3>1. orgs[o] \in OrgRow /\ me.row \in OrgRow
      BY <1>2, <2>2, ExistingRow DEF TypeInv
    <3>2. Flushed(orgs[o], me.row, after) \in OrgRow
      BY <1>2, <3>1, FlushedFields
    <3> QED
      BY <2>2, <3>2, NoneApart
  <2>3. CASE me.row # None /\ ~Exists(o)
    BY <2>3
  <2> QED
    BY <2>1, <2>2, <2>3
<1>5. /\ orgs'[o] = written
      /\ \A p \in Orgs : p # o => orgs'[p] =
           IF p \in me.cleared /\ Exists(p)
           THEN [orgs[p] EXCEPT !.is_default = FALSE] ELSE orgs[p]
  BY <1>2, <1>3
<1>6. \A p \in Orgs : Exists(p) =>
        /\ orgs[p] \in OrgRow /\ [orgs[p] EXCEPT !.is_default = FALSE] \in OrgRow
        /\ orgs[p] # None /\ [orgs[p] EXCEPT !.is_default = FALSE] # None
  BY ExistingRow, RowFields, NoneApart DEF TypeInv
<1> HIDE DEF written
<1>7. \A p \in Orgs : orgs'[p] \in OrgRow \cup {None} /\ (Exists(p) => orgs'[p] # None)
  BY <1>4, <1>5, <1>6 DEF TypeInv, TypeOK
<1>8. orgs' \in [Orgs -> OrgRow \cup {None}]
  BY <1>3, <1>7
<1> QED
  BY <1>1, <1>2, <1>5, <1>7, <1>8 DEF written

\* What it does to the sessions.
LEMMA SaveSessions ==
  ASSUME TypeInv, NEW s \in Sessions, CommitSave(s)
  PROVE  LET me == ses[s] IN
         /\ ses' \in [Sessions -> Session]
         /\ ses'[s] = Closed
         /\ \A x \in Sessions \ {s} :
              /\ SameBut(ses[x], ses'[x])
              /\ Marks(me) /\ ses[x].account = me.account /\ ses[x].at \in {"store", "save"}
                   => ses'[x].overtaken
              /\ ses[x].at \in Drawing /\ ses[x].org = me.org /\ orgs'[me.org] # None
                   => ImageOf(orgs'[me.org]) \in ses'[x].window
         /\ raced' = IF Marks(me) /\ me.overtaken THEN raced \cup {me.account} ELSE raced
         /\ UNCHANGED <<tokens, tokenLock, invoices, files, cache, now, runs, client, used>>
<1> DEFINE me == ses[s]
           o == me.org
           written == orgs'[o]
           late(x) == ses[x].overtaken \/ (Marks(me) /\ ses[x].account = me.account
                                           /\ ses[x].at \in {"store", "save"})
           seen(x) == IF ses[x].at \in Drawing /\ ses[x].org = o /\ written # None
                      THEN ses[x].window \cup {ImageOf(written)} ELSE ses[x].window
<1>1. written = IF me.row = None THEN Saved(me)
                ELSE IF Exists(o) THEN Flushed(orgs[o], me.row, Saved(me)) ELSE None
  BY SaveRows
<1>2. /\ raced' = IF Marks(me) /\ me.overtaken THEN raced \cup {me.account} ELSE raced
      /\ UNCHANGED <<tokens, tokenLock, invoices, files, cache, now, runs, client, used>>
  BY DEF CommitSave, Marks
<1>3. ses' = [x \in Sessions |-> IF x = s THEN Closed
                ELSE [ses[x] EXCEPT !.overtaken = late(x), !.window = seen(x)]]
  <2> DEFINE w == IF me.row = None THEN Saved(me)
                  ELSE IF Exists(o) THEN Flushed(orgs[o], me.row, Saved(me)) ELSE None
  <2>1. ses' = [x \in Sessions |-> IF x = s THEN Closed
          ELSE [ses[x] EXCEPT
            !.overtaken = @ \/ (Marks(me) /\ ses[x].account = me.account
                                /\ ses[x].at \in {"store", "save"}),
            !.window = IF ses[x].at \in {"invoice", "draw", "fetch"} /\ ses[x].org = o
                          /\ w # None
                       THEN @ \cup {ImageOf(w)} ELSE @]]
    BY Zenon DEF CommitSave, Marks
  <2>2. w = written
    BY <1>1
  <2>3. \A x \in Sessions : ses[x] \in Session
    BY DEF TypeInv, TypeOK
  <2> HIDE DEF w, written
  <2> QED
    BY <2>1, <2>3, <2>2 DEF Session, Drawing
<1>4. written # None => ImageOf(written) \in Image
  BY SaveRows, RowFields
<1>5. ASSUME NEW x \in Sessions \ {s}
      PROVE  /\ SameBut(ses[x], ses'[x]) /\ ses'[x] \in Session
             /\ ses'[x].overtaken = late(x) /\ ses'[x].window = seen(x)
  <2> DEFINE a == ses[x]
             l == late(x)
             w == seen(x)
  <2>1. a \in Session
    BY DEF TypeInv, TypeOK
  <2>2. l \in BOOLEAN /\ w \in SUBSET Image /\ a.window \subseteq w /\ (a.overtaken => l)
    BY <1>4, <2>1 DEF Session
  <2>3. ses'[x] = [a EXCEPT !.overtaken = l, !.window = w]
    BY <1>3
  <2> HIDE DEF a, l, w
  <2>4. [a EXCEPT !.overtaken = l, !.window = w] \in Session
    BY <2>1, <2>2 DEF Session
  <2>5. SameBut(a, ses'[x]) /\ ses'[x].overtaken = l /\ ses'[x].window = w
    BY <2>1, <2>2, <2>3, <2>4 DEF SameBut, Session
  <2> QED
    BY <2>3, <2>4, <2>5 DEF a, l, w
<1>6. ses'[s] = Closed
  BY <1>3
<1>7. ses' \in [Sessions -> Session]
  BY <1>5, <1>6, <1>3, ClosedType
<1> QED
  BY <1>2, <1>5, <1>6, <1>7

LEMMA SaveTyped ==
  ASSUME TypeInv, NEW s \in Sessions, CommitSave(s)
  PROVE  TypeInv'
<1> DEFINE me == ses[s]
<1>1. /\ me \in Session /\ GoodCopy(me) /\ me.at = "save"
      /\ orgs' \in [Orgs -> OrgRow \cup {None}]
      /\ \A p \in Orgs : Exists(p) => orgs'[p] # None
  BY SaveRows
<1>2. /\ ses' \in [Sessions -> Session] /\ ses'[s] = Closed
      /\ \A x \in Sessions \ {s} : SameBut(ses[x], ses'[x])
      /\ raced' \in {raced, raced \cup {me.account}}
      /\ UNCHANGED <<tokens, tokenLock, invoices, files, cache, now, runs, client, used>>
  BY SaveSessions
<1>3. raced' \in SUBSET Accounts
  BY <1>1, <1>2 DEF GoodCopy, TypeInv, TypeOK
<1>4. TypeOK'
  BY <1>1, <1>2, <1>3 DEF TypeInv, TypeOK
<1>5. ASSUME NEW x \in Sessions
      PROVE  GoodCopy(ses'[x])
  <2>1. CASE x = s
    BY <1>2, <2>1, ClosedType
  <2>2. CASE x # s
    BY <1>2, <2>2 DEF SameBut, GoodCopy, TypeInv, CopiesOK
  <2> QED
    BY <2>1, <2>2
<1>6. ASSUME NEW x \in Sessions, ses'[x].at \in {"revoke", "mark", "resolve", "invoice"}
      PROVE  tokens'[ses'[x].token] # None
  <2>1. x # s
    BY <1>2, <1>6, ClosedType
  <2> QED
    BY <1>2, <1>6, <2>1 DEF SameBut, TypeInv, RowsStay
<1>7. \A o \in invoices' : orgs'[o] # None
  BY <1>1, <1>2 DEF TypeInv, TypeOK, RowsStay
<1> QED
  BY <1>4, <1>5, <1>6, <1>7 DEF TypeInv, CopiesOK, RowsStay, Exists

\* The steps that end a session.
LEMMA EndTyped ==
  ASSUME TypeInv, NEW s \in Sessions,
         DeleteOrganization(s) \/ CommitRevoke(s) \/ Receive(s) \/ Rollback(s)
  PROVE  TypeInv'
<1>1. /\ ses' \in [Sessions -> Session] /\ CopiesOK'
      /\ ses'[s] = Closed /\ \A z \in Sessions \ {s} : ses'[z] = ses[z]
      /\ tokenLock' \in [Tokens -> Sessions \cup {None}]
  BY SessionCloses DEF DeleteOrganization, CommitRevoke, Receive, Rollback
<1>2. Closed.at \notin {"revoke", "mark", "resolve", "invoice"}
  BY ClosedType
<1>3. ses[s] \in Session /\ GoodCopy(ses[s])
  BY DEF TypeInv, TypeOK, CopiesOK
<1>4. CASE DeleteOrganization(s)
  <2> DEFINE o == ses[s].org
  <2>1. /\ o \in Orgs /\ orgs' = [orgs EXCEPT ![o] = None]
        /\ invoices' = invoices \ {o} /\ client' = [client EXCEPT ![o] = None]
        /\ UNCHANGED <<tokens, files, cache, now, runs, used, raced>>
    BY <1>3, <1>4 DEF DeleteOrganization, GoodCopy
  <2>2. TypeOK'
    BY <1>1, <2>1 DEF TypeInv, TypeOK
  <2>3. \A p \in invoices' : orgs'[p] # None
    BY <2>1 DEF TypeInv, TypeOK, RowsStay, Exists
  <2>4. RowsStay'
    BY <1>1, <1>2, <2>1, <2>3, RowsStayOn
  <2> QED
    BY <1>1, <2>2, <2>4 DEF TypeInv
<1>5. CASE CommitRevoke(s)
  <2> DEFINE t == ses[s].token
             row == [tokens[t] EXCEPT !.revoked_at = ses[s].clock]
  <2>1. t \in Tokens /\ tokens[t] # None /\ ses[s].clock \in Time
    BY <1>3, <1>5 DEF CommitRevoke, GoodCopy, TypeInv, RowsStay, Session
  <2>2. row \in TokenRow
    BY <2>1 DEF TypeInv, TypeOK, TokenRow
  <2>3. tokens' = [tokens EXCEPT ![t] = row]
        /\ UNCHANGED <<orgs, invoices, files, cache, now, runs, history>>
    BY <1>5, <2>1 DEF CommitRevoke, TypeInv, TypeOK
  <2>4. row # None
    BY <2>2, NoneApart
  <2> HIDE DEF row
  <2>5. tokens' \in [Tokens -> TokenRow \cup {None}]
        /\ \A u \in Tokens : tokens[u] # None => tokens'[u] # None
    BY <2>2, <2>3, <2>4 DEF TypeInv, TypeOK
  <2>6. TypeOK'
    BY <1>1, <2>3, <2>5 DEF TypeInv, TypeOK, history
  <2>7. RowsStay'
    BY <1>1, <1>2, <2>3, <2>5, RowsStayOn DEF TypeInv, RowsStay, Exists
  <2> QED
    BY <1>1, <2>6, <2>7 DEF TypeInv
<1>6. CASE Receive(s)
  <2>1. ses[s].token # None => ses[s].shown \in Image \cup {None}
    BY <1>3 DEF Session
  <2>2. client' \in [Orgs -> Image \cup {None}]
    BY <1>3, <1>6, <2>1 DEF Receive, TypeInv, TypeOK
  <2>3. UNCHANGED <<orgs, tokens, invoices, files, cache, now, runs, used, raced>>
    BY <1>6 DEF Receive
  <2>4. TypeOK'
    BY <1>1, <2>2, <2>3 DEF TypeInv, TypeOK
  <2>5. RowsStay'
    BY <1>1, <1>2, <2>3, RowsStayOn DEF TypeInv, RowsStay, Exists
  <2> QED
    BY <1>1, <2>4, <2>5 DEF TypeInv
<1>7. CASE Rollback(s)
  <2>1. UNCHANGED <<orgs, tokens, invoices, files, cache, now, runs, history>>
    BY <1>7 DEF Rollback
  <2>2. TypeOK'
    BY <1>1, <2>1 DEF TypeInv, TypeOK, history
  <2>3. RowsStay'
    BY <1>1, <1>2, <2>1, RowsStayOn DEF TypeInv, RowsStay, Exists
  <2> QED
    BY <1>1, <2>2, <2>3 DEF TypeInv
<1> QED
  BY <1>4, <1>5, <1>6, <1>7

LEMMA MarkTyped ==
  ASSUME TypeInv, NEW s \in Sessions, MarkTokenUsed(s)
  PROVE  TypeInv'
<1> DEFINE me == ses[s]
           due == MarkDue(me.token, me.clock)
           y == [me EXCEPT !.at = "resolve", !.marked = due]
<1>1. me \in Session /\ GoodCopy(me) /\ me.at = "mark"
  BY DEF MarkTokenUsed, TypeInv, TypeOK, CopiesOK
<1>2. me.token \in Tokens /\ me.account \in Accounts /\ tokens[me.token] # None
  BY <1>1 DEF GoodCopy, TypeInv, RowsStay
<1>3. ses' = [ses EXCEPT ![s] = y]
  BY DEF MarkTokenUsed, TypeInv, TypeOK, Session
<1>4. due \in BOOLEAN
  BY DEF MarkDue
<1>5. y \in Session /\ y.at = "resolve" /\ y.token = me.token /\ y.account = me.account
  <2>1. ASSUME NEW b \in BOOLEAN
        PROVE  LET z == [me EXCEPT !.at = "resolve", !.marked = b] IN
               z \in Session /\ z.at = "resolve" /\ z.token = me.token /\ z.account = me.account
    <3>1. me \in Session /\ "resolve" \in Places
      BY <1>1 DEF Places
    <3> HIDE DEF me, due
    <3> QED
      BY <3>1 DEF Session
  <2> HIDE DEF due
  <2> QED
    BY <1>4, <2>1
<1> HIDE DEF y
<1>6. GoodCopy(y)
  BY <1>2, <1>5 DEF GoodCopy, Drawing
<1>7. /\ ses' \in [Sessions -> Session] /\ CopiesOK'
      /\ ses'[s] = y /\ \A z \in Sessions \ {s} : ses'[z] = ses[z]
  BY <1>3, <1>5, <1>6, SessionMoves
<1>8. /\ tokenLock' \in [Tokens -> Sessions \cup {None}]
      /\ UNCHANGED <<orgs, tokens, invoices, files, cache, now, runs, history>>
  BY DEF MarkTokenUsed, TypeInv, TypeOK
<1>9. TypeOK'
  BY <1>7, <1>8 DEF TypeInv, TypeOK, history
<1>10. RowsStay'
  BY <1>2, <1>5, <1>7, <1>8, RowsStayOn DEF TypeInv, RowsStay, Exists
<1> QED
  BY <1>7, <1>9, <1>10 DEF TypeInv

\* What the commit of a request does to the keys.
LEMMA InvoiceKeys ==
  ASSUME TypeInv, NEW s \in Sessions, ResolveInvoice(s)
  PROVE  LET me == ses[s] t == ses[s].token IN
         /\ me \in Session /\ t \in Tokens /\ tokens[t] \in TokenRow /\ me.clock \in Time
         /\ me.org \in Orgs /\ Exists(me.org)
         /\ tokens' \in [Tokens -> TokenRow \cup {None}]
         /\ \A u \in Tokens \ {t} : tokens'[u] = tokens[u]
         /\ tokens'[t] \in TokenRow
         /\ tokens'[t].last_used_at = IF me.marked THEN me.clock ELSE tokens[t].last_used_at
         /\ ~me.marked => tokens' = tokens
<1> DEFINE me == ses[s]
           t == me.token
           row == [tokens[t] EXCEPT !.last_used_at = me.clock]
<1>1. me \in Session /\ GoodCopy(me) /\ me.at = "invoice" /\ Exists(me.org)
  BY DEF ResolveInvoice, TypeInv, TypeOK, CopiesOK
<1>2. t \in Tokens /\ me.org \in Orgs /\ tokens[t] # None
  BY <1>1 DEF GoodCopy, Drawing, TypeInv, RowsStay
<1>3. tokens[t] \in TokenRow /\ me.clock \in Time
  BY <1>1, <1>2 DEF TypeInv, TypeOK, Session
<1>4. tokens' = IF me.marked THEN [tokens EXCEPT ![t] = row] ELSE tokens
  BY <1>2 DEF ResolveInvoice, TypeInv, TypeOK
<1>5. row \in TokenRow /\ row.last_used_at = me.clock
  BY <1>3 DEF TokenRow
<1> HIDE DEF row
<1> QED
  BY <1>1, <1>2, <1>3, <1>4, <1>5 DEF TypeInv, TypeOK

LEMMA InvoiceTyped ==
  ASSUME TypeInv, NEW s \in Sessions, ResolveInvoice(s)
  PROVE  TypeInv'
<1> DEFINE me == ses[s]
           t == me.token
           y == [me EXCEPT !.at = "draw"]
<1>1. me \in Session /\ GoodCopy(me) /\ me.at = "invoice"
  BY DEF ResolveInvoice, TypeInv, TypeOK, CopiesOK
<1>2. ses' = [ses EXCEPT ![s] = y]
  BY DEF ResolveInvoice, TypeInv, TypeOK, Session
<1>3. y \in Session /\ GoodCopy(y) /\ y.at = "draw"
  BY <1>1 DEF Session, Places, GoodCopy, Drawing
<1> HIDE DEF y
<1>4. /\ ses' \in [Sessions -> Session] /\ CopiesOK'
      /\ ses'[s] = y /\ \A z \in Sessions \ {s} : ses'[z] = ses[z]
  BY <1>2, <1>3, SessionMoves
<1>5. /\ t \in Tokens /\ me.clock \in Time /\ me.org \in Orgs /\ Exists(me.org)
      /\ tokens' \in [Tokens -> TokenRow \cup {None}]
      /\ \A u \in Tokens \ {t} : tokens'[u] = tokens[u]
      /\ tokens'[t] # None
  BY InvoiceKeys, NoneApart
<1>6. /\ tokenLock' \in [Tokens -> Sessions \cup {None}]
      /\ invoices' = invoices \cup {me.org}
      /\ UNCHANGED <<orgs, files, cache, now, runs, client, raced>>
  BY DEF ResolveInvoice, TypeInv, TypeOK
<1>7. used' \in [Tokens -> Time \cup {None}]
  BY <1>5 DEF ResolveInvoice, TypeInv, TypeOK
<1>8. TypeOK'
  BY <1>4, <1>5, <1>6, <1>7 DEF TypeInv, TypeOK
<1>9. RowsStay'
  <2>1. \A u \in Tokens : tokens[u] # None => tokens'[u] # None
    BY <1>5
  <2>2. \A o \in invoices' : orgs'[o] # None
    BY <1>5, <1>6 DEF TypeInv, RowsStay, Exists
  <2> QED
    BY <1>3, <1>4, <2>1, <2>2, RowsStayOn
<1> QED
  BY <1>4, <1>8, <1>9 DEF TypeInv

LEMMA IssueTyped ==
  ASSUME TypeInv, NEW t \in Tokens, NEW a \in Accounts, IssueToken(t, a)
  PROVE  TypeInv'
<1>1. NewToken(a) \in TokenRow /\ NewToken(a) # None
  BY NoneApart DEF NewToken, TokenRow
<1>2. /\ tokens' = [tokens EXCEPT ![t] = NewToken(a)]
      /\ UNCHANGED <<orgs, tokenLock, invoices, files, cache, now, ses, runs, history>>
  BY DEF IssueToken
<1>3. /\ tokens' \in [Tokens -> TokenRow \cup {None}]
      /\ \A u \in Tokens : tokens[u] # None => tokens'[u] # None
  BY <1>1, <1>2 DEF TypeInv, TypeOK
<1>4. TypeOK' /\ CopiesOK'
  BY <1>2, <1>3 DEF TypeInv, TypeOK, CopiesOK, history
<1>5. RowsStay'
  <2>1. \A z \in Sessions : ses[z].at \in {"revoke", "mark", "resolve", "invoice"} =>
          ses[z].token \in Tokens
    BY DEF TypeInv, CopiesOK, GoodCopy
  <2> QED
    BY <1>2, <1>3, <2>1 DEF TypeInv, RowsStay, Exists
<1> QED
  BY <1>4, <1>5 DEF TypeInv

LEMMA TypeStep ==
  ASSUME TypeInv, [Next]_vars
  PROVE  TypeInv'
<1>1. ASSUME NEW s \in Sessions, Started(s) PROVE TypeInv'
  BY <1>1, StartedTyped
<1>2. ASSUME NEW s \in Sessions, Proceeds(s) PROVE TypeInv'
  BY <1>2, UpdateTyped, AttachTyped, SaveTyped, EndTyped, MarkTyped, RequestTyped,
     InvoiceTyped DEF Proceeds
<1>3. ASSUME NEW t \in Tokens, NEW a \in Accounts, IssueToken(t, a) PROVE TypeInv'
  BY <1>3, IssueTyped
<1>4. CASE Restart
  <2>1. /\ ses' \in [Sessions -> Session] /\ CopiesOK'
        /\ \A s \in Sessions : ses'[s].at = "idle"
    BY <1>4, ClosedType DEF Restart, CopiesOK
  <2>2. cache' = <<>> /\ <<>> \in Seq(Entry)
    BY <1>4, EmptySeq DEF Restart
  <2>3. TypeOK'
    BY <1>4, <2>1, <2>2 DEF Restart, TypeInv, TypeOK, history
  <2>4. RowsStay'
    BY <1>4, <2>1 DEF Restart, TypeInv, RowsStay, Exists
  <2> QED
    BY <2>1, <2>3, <2>4 DEF TypeInv
<1>5. CASE Tick
  <2>1. now' \in Time /\ UNCHANGED <<rows, files, cache, ses, runs, history>>
    BY <1>5, OrganizationsAssumption DEF Tick, TypeInv, TypeOK, Time
  <2> QED
    BY <2>1 DEF TypeInv, TypeOK, CopiesOK, RowsStay, Exists, rows, history
<1>6. CASE UNCHANGED vars
  BY <1>6 DEF vars, rows, history, TypeInv, TypeOK, CopiesOK, RowsStay, Exists
<1> QED
  BY <1>1, <1>2, <1>3, <1>4, <1>5, <1>6, StepKinds

LEMMA TypeInit ==
  ASSUME Init
  PROVE  TypeInv
<1>1. orgs \in [Orgs -> OrgRow \cup {None}] /\ files \in SUBSET Files
  BY OrganizationsAssumption DEF Init, Files
<1>2. tokens \in [Tokens -> TokenRow \cup {None}]
  <2>1. \A a \in Accounts : [account |-> a, revoked_at |-> None, last_used_at |-> None]
          \in TokenRow
    BY DEF TokenRow
  <2> QED
    BY <2>1 DEF Init
<1>3. cache \in Seq(Entry)
  BY EmptySeq DEF Init
<1>4. ses \in [Sessions -> Session] /\ CopiesOK /\ \A s \in Sessions : ses[s].at = "idle"
  BY ClosedType DEF Init, CopiesOK
<1>5. TypeOK
  BY <1>1, <1>2, <1>3, <1>4, OrganizationsAssumption DEF Init, TypeOK, Time
<1>6. RowsStay
  BY <1>4 DEF Init, RowsStay
<1> QED
  BY <1>4, <1>5, <1>6 DEF TypeInv

LEMMA Types == Spec => []TypeInv
<1>1. Init => TypeInv
  BY TypeInit
<1>2. TypeInv /\ [Next]_vars => TypeInv'
  BY TypeStep
<1> QED
  BY <1>1, <1>2, PTL DEF Spec

\* Every value the handlers write is one the schema and the forms allow: the
\* rows, the copies the sessions work on and the cache keep their types.
THEOREM OrganizationTypeCorrect == Spec => []TypeOK
<1>1. TypeInv => TypeOK
  BY DEF TypeInv
<1> QED
  BY <1>1, Types, PTL

---------------------------------------------------------------------------
(* The marks of the keys *)

\* A step that moves no mark and takes no lock from another session.
LEMMA MarksKept ==
  ASSUME TypeInv, MarkInv, NEW s \in Sessions,
         \A z \in Sessions \ {s} : SameBut(ses[z], ses'[z]),
         ses'[s].at \in Marking =>
           /\ ses[s].at \in Marking /\ ses'[s].token = ses[s].token
           /\ ses'[s].marked = ses[s].marked /\ ses'[s].clock = ses[s].clock
           /\ tokenLock' = tokenLock,
         \A t \in Tokens : tokenLock[t] \in Sessions \ {s} => tokenLock'[t] = tokenLock[t],
         \A t \in Tokens : tokens[t] # None =>
           tokens'[t] # None /\ tokens'[t].last_used_at = tokens[t].last_used_at,
         used' = used
  PROVE  MarkInv'
<1>1. ASSUME NEW z \in Sessions, ses'[z].at \in Marking
      PROVE  /\ ses[z].at \in Marking /\ ses'[z].token = ses[z].token
             /\ ses'[z].marked = ses[z].marked /\ ses'[z].clock = ses[z].clock
             /\ tokenLock[ses[z].token] = z => tokenLock'[ses[z].token] = z
             /\ MarkDue(ses[z].token, ses[z].clock)' <=> MarkDue(ses[z].token, ses[z].clock)
  <2>1. /\ ses[z].at \in Marking /\ ses'[z].token = ses[z].token
        /\ ses'[z].marked = ses[z].marked /\ ses'[z].clock = ses[z].clock
        /\ z = s => tokenLock' = tokenLock
    BY <1>1 DEF SameBut
  <2>2. ses[z].token \in Tokens /\ tokens[ses[z].token] # None
    BY <2>1 DEF Marking, TypeInv, CopiesOK, GoodCopy, RowsStay
  <2>3. tokenLock[ses[z].token] = z => tokenLock'[ses[z].token] = z
    BY <2>1, <2>2
  <2>4. MarkDue(ses[z].token, ses[z].clock)' <=> MarkDue(ses[z].token, ses[z].clock)
    BY <2>1, <2>2 DEF MarkDue
  <2> QED
    BY <2>1, <2>3, <2>4
<1>2. MarkerInv'
  BY <1>1 DEF MarkInv, MarkerInv
<1>3. OthersInv'
  BY <1>1 DEF MarkInv, OthersInv
<1>4. UsedInv' /\ MarksFollowUse'
  BY DEF MarkInv, UsedInv, MarksFollowUse
<1> QED
  BY <1>2, <1>3, <1>4 DEF MarkInv

LEMMA MarkTakes ==
  ASSUME TypeInv, MarkInv, NEW s \in Sessions, MarkTokenUsed(s)
  PROVE  MarkInv'
<1> DEFINE me == ses[s]
           due == MarkDue(me.token, me.clock)
<1>1. me \in Session /\ me.token \in Tokens /\ due \in BOOLEAN
  BY DEF MarkTokenUsed, TypeInv, TypeOK, CopiesOK, GoodCopy, MarkDue
<1>2. /\ due => tokenLock[me.token] = None
      /\ tokenLock' = IF due THEN [tokenLock EXCEPT ![me.token] = s] ELSE tokenLock
      /\ tokens' = tokens /\ used' = used
  BY DEF MarkTokenUsed, history
<1>3. \A z \in Sessions \ {s} : ses'[z] = ses[z]
  BY DEF MarkTokenUsed, TypeInv, TypeOK
<1>4. ses'[s].token = me.token /\ ses'[s].clock = me.clock /\ ses'[s].marked = due
  BY <1>1 DEF MarkTokenUsed, TypeInv, TypeOK, Session
<1>5. \A z \in Sessions : ses'[z].token = ses[z].token /\ ses'[z].clock = ses[z].clock
  BY <1>3, <1>4
<1>6. \A z \in Sessions :
        MarkDue(ses[z].token, ses[z].clock)' <=> MarkDue(ses[z].token, ses[z].clock)
  BY <1>2, <1>5 DEF MarkDue
<1>7. due => tokenLock'[me.token] = s
  BY <1>1, <1>2 DEF TypeInv, TypeOK
<1>8. \A z \in Sessions, t \in Tokens : z # s /\ tokenLock[t] = z => tokenLock'[t] = z
  BY <1>1, <1>2, NoneApart DEF TypeInv, TypeOK
<1>9. MarkerInv'
  <2>1. ASSUME NEW z \in Sessions \ {s}, ses'[z].at \in Marking, ses'[z].marked
        PROVE  tokenLock'[ses'[z].token] = z /\ MarkDue(ses[z].token, ses[z].clock)'
    <3>1. ses[z].at \in Marking /\ ses[z].marked /\ ses[z].token \in Tokens
      BY <1>3, <2>1 DEF Marking, TypeInv, CopiesOK, GoodCopy
    <3> QED
      BY <1>5, <1>6, <1>8, <3>1 DEF MarkInv, MarkerInv
  <2>2. ASSUME ses'[s].marked
        PROVE  tokenLock'[ses'[s].token] = s /\ MarkDue(ses[s].token, ses[s].clock)'
    BY <1>4, <1>6, <1>7, <2>2
  <2> QED
    BY <2>1, <2>2 DEF MarkerInv
<1>10. OthersInv'
  <2>1. ASSUME NEW z \in Sessions \ {s}, ses'[z].at \in Marking, ~ses'[z].marked
        PROVE  ~MarkDue(ses[z].token, ses[z].clock)'
    BY <1>3, <1>6, <2>1 DEF MarkInv, OthersInv
  <2>2. ASSUME ~ses'[s].marked
        PROVE  ~MarkDue(ses[s].token, ses[s].clock)'
    BY <1>4, <1>6, <2>2
  <2> QED
    BY <2>1, <2>2 DEF OthersInv
<1>11. UsedInv' /\ MarksFollowUse'
  BY <1>2 DEF MarkInv, UsedInv, MarksFollowUse
<1> QED
  BY <1>9, <1>10, <1>11 DEF MarkInv

LEMMA InvoiceMarks ==
  ASSUME TypeInv, MarkInv, NEW s \in Sessions, ResolveInvoice(s)
  PROVE  MarkInv'
<1> DEFINE me == ses[s]
           t == ses[s].token
           last == tokens[t].last_used_at
           next == tokens'[t].last_used_at
<1>1. /\ t \in Tokens /\ tokens[t] \in TokenRow /\ me.clock \in Time
      /\ \A u \in Tokens \ {t} : tokens'[u] = tokens[u]
      /\ tokens'[t] # None
      /\ next = IF me.marked THEN me.clock ELSE last
      /\ Throttle \in Nat
  BY InvoiceKeys, NoneApart, OrganizationsAssumption
<1>2. last \in Time \cup {None}
  BY <1>1 DEF TokenRow
<1>3. /\ me.at = "invoice"
      /\ used' = [used EXCEPT ![t] = IF @ = None \/ @ < me.clock THEN me.clock ELSE @]
      /\ tokenLock' = [u \in Tokens |-> IF tokenLock[u] = s THEN None ELSE tokenLock[u]]
      /\ ses' = [ses EXCEPT ![s].at = "draw"]
  BY DEF ResolveInvoice
<1>4. \A z \in Sessions \ {s} : ses'[z] = ses[z]
  BY <1>3 DEF TypeInv, TypeOK
<1>5. ses'[s].at = "draw"
  BY <1>3 DEF TypeInv, TypeOK, Session
<1>6. me.marked => tokenLock[t] = s /\ (last = None \/ last < me.clock - Throttle)
  BY <1>3 DEF MarkInv, MarkerInv, Marking, MarkDue
<1>7. ~me.marked => last # None /\ ~(last < me.clock - Throttle)
  BY <1>3 DEF MarkInv, OthersInv, Marking, MarkDue
<1>8. next # None /\ next \in Time /\ (last # None => last <= next)
      /\ me.clock - Throttle <= next
  <2>1. CASE me.marked
    BY <1>1, <1>2, <1>6, <2>1, NoneApart DEF Time
  <2>2. CASE ~me.marked
    BY <1>1, <1>2, <1>7, <2>2, NoneApart DEF Time
  <2> QED
    BY <2>1, <2>2
<1> HIDE DEF last, next
<1>9. ASSUME NEW z \in Sessions, ses'[z].at \in Marking
      PROVE  /\ z # s /\ ses'[z] = ses[z] /\ ses[z].at \in Marking
             /\ ses[z].token \in Tokens /\ ses[z].clock \in Time
  <2>1. z # s /\ ses'[z] = ses[z]
    BY <1>4, <1>5, <1>9 DEF Marking
  <2> QED
    BY <1>9, <2>1 DEF Marking, TypeInv, TypeOK, CopiesOK, GoodCopy, Session
<1>10. MarkerInv'
  <2>1. ASSUME NEW z \in Sessions, ses'[z].at \in Marking, ses'[z].marked
        PROVE  tokenLock'[ses'[z].token] = z /\ MarkDue(ses[z].token, ses[z].clock)'
    <3>1. z # s /\ ses'[z] = ses[z] /\ ses[z].at \in Marking /\ ses[z].token \in Tokens
      BY <1>9, <2>1
    <3>2. tokenLock[ses[z].token] = z /\ MarkDue(ses[z].token, ses[z].clock)
      BY <2>1, <3>1 DEF MarkInv, MarkerInv
    <3>3. tokenLock'[ses[z].token] = z
      BY <1>3, <3>1, <3>2
    <3>4. tokens'[ses[z].token].last_used_at = tokens[ses[z].token].last_used_at
      <4>1. CASE ses[z].token # t
        BY <1>1, <3>1, <4>1
      <4>2. CASE ses[z].token = t
        <5>1. ~me.marked
          BY <1>6, <3>1, <3>2, <4>2
        <5> QED
          BY <1>1, <4>2, <5>1 DEF last, next
      <4> QED
        BY <4>1, <4>2
    <3>5. MarkDue(ses[z].token, ses[z].clock)'
      BY <3>1, <3>2, <3>4 DEF MarkDue
    <3> QED
      BY <3>1, <3>3, <3>5
  <2> QED
    BY <2>1 DEF MarkerInv
<1>11. OthersInv'
  <2>1. ASSUME NEW z \in Sessions, ses'[z].at \in Marking, ~ses'[z].marked
        PROVE  ~MarkDue(ses[z].token, ses[z].clock)'
    <3>1. /\ ses'[z] = ses[z] /\ ses[z].at \in Marking
          /\ ses[z].token \in Tokens /\ ses[z].clock \in Time
      BY <1>9, <2>1
    <3>2. ~MarkDue(ses[z].token, ses[z].clock)
      BY <2>1, <3>1 DEF MarkInv, OthersInv
    <3>3. CASE ses[z].token # t
      BY <1>1, <3>1, <3>2, <3>3 DEF MarkDue
    <3>4. CASE ses[z].token = t
      <4>1. last # None /\ ~(last < ses[z].clock - Throttle)
        BY <3>2, <3>4 DEF MarkDue, last
      <4>2. next # None /\ ~(next < ses[z].clock - Throttle)
        BY <1>1, <1>2, <1>8, <3>1, <4>1, NoneApart DEF Time
      <4> QED
        BY <3>1, <3>4, <4>2 DEF MarkDue, next
    <3> QED
      BY <3>3, <3>4
  <2> QED
    BY <2>1 DEF OthersInv
<1>12. UsedInv'
  BY <1>1, <1>3 DEF MarkInv, UsedInv, TypeInv, TypeOK
<1>13. MarksFollowUse'
  <2>1. ASSUME NEW u \in Tokens, used'[u] # None
        PROVE  tokens'[u].last_used_at # None /\ used'[u] - Throttle <= tokens'[u].last_used_at
    <3>1. CASE u # t
      BY <1>1, <1>3, <2>1, <3>1 DEF MarkInv, MarksFollowUse, TypeInv, TypeOK
    <3>2. CASE u = t
      <4>1. used[t] # None => last # None /\ used[t] - Throttle <= last /\ used[t] \in Time
        BY <1>1 DEF MarkInv, MarksFollowUse, TypeInv, TypeOK, last
      <4>2. used'[t] = IF used[t] = None \/ used[t] < me.clock THEN me.clock ELSE used[t]
        BY <1>1, <1>3 DEF TypeInv, TypeOK
      <4>3. used'[t] - Throttle <= next
        BY <1>1, <1>2, <1>8, <4>1, <4>2, NoneApart DEF Time
      <4> QED
        BY <1>8, <3>2, <4>3 DEF next
    <3> QED
      BY <3>1, <3>2
  <2> QED
    BY <2>1 DEF MarksFollowUse
<1> QED
  BY <1>10, <1>11, <1>12, <1>13 DEF MarkInv

\* Who stays as it is.
LEMMA SameSelf ==
  ASSUME NEW x \in Session
  PROVE  SameBut(x, x)
  BY DEF SameBut

LEMMA OthersSame ==
  ASSUME TypeInv, NEW s \in Sessions, Started(s) \/ (Proceeds(s) /\ ~CommitSave(s))
  PROVE  \A z \in Sessions \ {s} : ses'[z] = ses[z] /\ SameBut(ses[z], ses'[z])
<1>1. ses \in [Sessions -> Session]
  BY DEF TypeInv, TypeOK
<1>2. CASE Started(s)
  BY <1>1, <1>2, SameSelf DEF Started, Open
<1>3. CASE Proceeds(s) /\ ~CommitSave(s)
  <2>1. CASE UpdateOrganization(s) \/ AttachLogo(s) \/ MarkTokenUsed(s) \/ ResolveInvoice(s)
             \/ NotModified(s) \/ CacheMiss(s)
    <3>1. \A z \in Sessions \ {s} : ses'[z] = ses[z]
      BY <1>1, <2>1 DEF UpdateOrganization, AttachLogo, MarkTokenUsed, ResolveInvoice,
         NotModified, CacheMiss
    <3> QED
      BY <1>1, <3>1, SameSelf
  <2>2. CASE \/ DrawPlain(s) \/ CacheHit(s) \/ StorageAnswers(s)
             \/ \E alias \in Aliases \cup {None} : ResolveOrganization(s, alias)
    <3>1. \A z \in Sessions \ {s} : ses'[z] = ses[z]
      BY <1>1, <2>2 DEF DrawPlain, CacheHit, StorageAnswers, ResolveOrganization, Send
    <3> QED
      BY <1>1, <3>1, SameSelf
  <2>3. CASE DeleteOrganization(s) \/ CommitRevoke(s) \/ Receive(s) \/ Rollback(s)
    <3>1. \A z \in Sessions \ {s} : ses'[z] = ses[z]
      BY <1>1, <2>3 DEF DeleteOrganization, CommitRevoke, Receive, Rollback, Close
    <3> QED
      BY <1>1, <3>1, SameSelf
  <2> QED
    BY <1>3, <2>1, <2>2, <2>3 DEF Proceeds
<1> QED
  BY <1>2, <1>3

LEMMA MarkStep ==
  ASSUME TypeInv, MarkInv, [Next]_vars
  PROVE  MarkInv'
<1>0. \A z \in Sessions : ses[z] \in Session
  BY DEF TypeInv, TypeOK
<1>1. ASSUME NEW s \in Sessions, Started(s)
      PROVE  MarkInv'
  <2>1. PICK x : GoodEntry(x) /\ Open(s, x)
    BY <1>1 DEF Started
  <2>2. ses'[s].at \notin Marking
    BY <1>0, <2>1 DEF GoodEntry, Open, Marking, TypeInv, TypeOK
  <2>3. tokens' = tokens /\ tokenLock' = tokenLock /\ used' = used
    BY <2>1 DEF Open, rows, history
  <2> QED
    BY <1>1, <2>2, <2>3, OthersSame, MarksKept
<1>2. ASSUME NEW s \in Sessions, CommitSave(s)
      PROVE  MarkInv'
  <2>1. /\ ses'[s].at = "idle" /\ \A z \in Sessions \ {s} : SameBut(ses[z], ses'[z])
        /\ tokens' = tokens /\ tokenLock' = tokenLock /\ used' = used
    BY <1>2, SaveSessions, ClosedType
  <2> QED
    BY <2>1, MarksKept DEF Marking
<1>3. ASSUME NEW s \in Sessions, Proceeds(s), ~CommitSave(s), ~MarkTokenUsed(s),
             ~ResolveInvoice(s)
      PROVE  MarkInv'
  <2>1. \A z \in Sessions \ {s} : SameBut(ses[z], ses'[z])
    BY <1>3, OthersSame
  <2>2. CASE \E alias \in Aliases \cup {None} : ResolveOrganization(s, alias)
    <3>1. /\ ses[s].at \in Marking /\ ses'[s].token = ses[s].token
          /\ ses'[s].marked = ses[s].marked /\ ses'[s].clock = ses[s].clock
      BY <1>0, <2>2 DEF ResolveOrganization, Marking, TypeInv, TypeOK, Session
    <3>2. tokens' = tokens /\ tokenLock' = tokenLock /\ used' = used
      BY <2>2 DEF ResolveOrganization, rows, history
    <3> QED
      BY <2>1, <3>1, <3>2, MarksKept
  <2>3. CASE UpdateOrganization(s) \/ AttachLogo(s) \/ NotModified(s) \/ CacheMiss(s)
    <3>1. ses'[s].at \in {"store", "save", "sent", "fetch"}
      BY <1>0, <2>3 DEF UpdateOrganization, AttachLogo, NotModified, CacheMiss, TypeInv, TypeOK,
         Session
    <3>2. tokens' = tokens /\ tokenLock' = tokenLock /\ used' = used
      BY <2>3 DEF UpdateOrganization, AttachLogo, NotModified, CacheMiss, rows, history
    <3> QED
      BY <2>1, <3>1, <3>2, MarksKept DEF Marking
  <2>4. CASE DrawPlain(s) \/ CacheHit(s) \/ StorageAnswers(s)
    <3>1. ses'[s].at = "sent"
      BY <1>0, <2>4 DEF DrawPlain, CacheHit, StorageAnswers, Send, TypeInv, TypeOK, Session
    <3>2. tokens' = tokens /\ tokenLock' = tokenLock /\ used' = used
      BY <2>4 DEF DrawPlain, CacheHit, StorageAnswers, rows, history
    <3> QED
      BY <2>1, <3>1, <3>2, MarksKept DEF Marking
  <2>5. CASE DeleteOrganization(s) \/ CommitRevoke(s) \/ Receive(s) \/ Rollback(s)
    <3>1. Close(s) /\ used' = used
      BY <2>5 DEF DeleteOrganization, CommitRevoke, Receive, Rollback, history
    <3>2. ses'[s].at \notin Marking
      BY <3>1, SessionCloses, ClosedType DEF Marking
    <3>3. \A t \in Tokens : tokenLock[t] \in Sessions \ {s} => tokenLock'[t] = tokenLock[t]
      BY <3>1 DEF Close
    <3>4. ASSUME NEW t \in Tokens, tokens[t] # None
          PROVE  tokens'[t] # None /\ tokens'[t].last_used_at = tokens[t].last_used_at
      <4>1. CASE CommitRevoke(s)
        <5> DEFINE row == [tokens[t] EXCEPT !.revoked_at = ses[s].clock]
        <5>1. tokens[t] \in TokenRow /\ ses[s].clock \in Time
          BY <1>0, <3>4 DEF TypeInv, TypeOK, Session
        <5>2. row \in TokenRow /\ row.last_used_at = tokens[t].last_used_at
          BY <5>1 DEF TokenRow
        <5>3. tokens'[t] \in {tokens[t], row}
          BY <4>1 DEF CommitRevoke, TypeInv, TypeOK
        <5> HIDE DEF row
        <5> QED
          BY <3>4, <5>2, <5>3, NoneApart
      <4>2. CASE ~CommitRevoke(s)
        BY <2>5, <3>4, <4>2 DEF DeleteOrganization, Receive, Rollback
      <4> QED
        BY <4>1, <4>2
    <3> QED
      BY <2>1, <3>1, <3>2, <3>3, <3>4, MarksKept
  <2> QED
    BY <1>3, <2>2, <2>3, <2>4, <2>5 DEF Proceeds
<1>4. ASSUME NEW t \in Tokens, NEW a \in Accounts, IssueToken(t, a)
      PROVE  MarkInv'
  <2>1. tokens[t] = None /\ tokens' = [tokens EXCEPT ![t] = NewToken(a)]
        /\ ses' = ses /\ tokenLock' = tokenLock /\ used' = used
    BY <1>4 DEF IssueToken, history
  <2>2. \A u \in Tokens : tokens[u] # None => tokens'[u] = tokens[u]
    BY <2>1 DEF TypeInv, TypeOK
  <2>3. \A z \in Sessions : ses[z].at \in Marking =>
          /\ tokens'[ses[z].token] = tokens[ses[z].token]
          /\ MarkDue(ses[z].token, ses[z].clock)' <=> MarkDue(ses[z].token, ses[z].clock)
    BY <2>1, <2>2 DEF Marking, TypeInv, CopiesOK, GoodCopy, RowsStay, MarkDue
  <2>4. MarkerInv' /\ OthersInv'
    BY <2>1, <2>3 DEF MarkInv, MarkerInv, OthersInv
  <2>5. UsedInv' /\ MarksFollowUse'
    BY <2>1, <2>2 DEF MarkInv, UsedInv, MarksFollowUse
  <2> QED
    BY <2>4, <2>5 DEF MarkInv
<1>5. CASE Restart
  <2>1. /\ \A z \in Sessions : ses'[z].at \notin Marking
        /\ tokens' = tokens /\ used' = used
    BY <1>5, ClosedType DEF Restart, Marking, history
  <2> QED
    BY <2>1 DEF MarkInv, MarkerInv, OthersInv, UsedInv, MarksFollowUse
<1>6. CASE Tick \/ UNCHANGED vars
  <2>1. ses' = ses /\ tokens' = tokens /\ tokenLock' = tokenLock /\ used' = used
    BY <1>6 DEF Tick, vars, rows, history
  <2> QED
    BY <2>1 DEF MarkInv, MarkerInv, OthersInv, UsedInv, MarksFollowUse, MarkDue
<1> QED
  BY <1>1, <1>2, <1>3, <1>4, <1>5, <1>6, MarkTakes, InvoiceMarks, StepKinds

\* The customer may go by the mark: _mark_token_used looks and writes under
\* the lock of the row, so no request is answered unmarked for longer than
\* the throttle, and none moves the mark back.
THEOREM MarksCorrect == Spec => []MarksFollowUse
<1>1. Init => MarkInv
  BY ClosedType DEF Init, MarkInv, MarkerInv, OthersInv, UsedInv, MarksFollowUse, Marking
<1>2. TypeInv /\ MarkInv /\ [Next]_vars => MarkInv'
  BY MarkStep
<1>3. MarkInv => MarksFollowUse
  BY DEF MarkInv
<1> QED
  BY <1>1, <1>2, <1>3, Types, PTL DEF Spec

---------------------------------------------------------------------------
(* Logos and answers *)

\* A step of one session that keeps the rows and the bucket.
LEMMA LogosKept ==
  ASSUME TypeInv, LogoInv, NEW s \in Sessions,
         \A z \in Sessions \ {s} : SameBut(ses[z], ses'[z]),
         ses'[s].row # None => ses'[s].row.logo_key \in files' \cup {None},
         ses'[s].logo \in files' \cup {None},
         \A o \in Orgs : orgs'[o] # None => orgs'[o].logo_key \in files \cup {None},
         files \subseteq files', GoodCache(cache')
  PROVE  LogoInv'
<1>1. RowLogos'
  BY DEF RowLogos, Exists
<1>2. LogosInHand'
  BY DEF LogoInv, LogosInHand, SameBut
<1>3. GoodCache(cache)'
  BY DEF GoodCache
<1> QED
  BY <1>1, <1>2, <1>3 DEF LogoInv

LEMMA SaveLogos ==
  ASSUME TypeInv, LogoInv, NEW s \in Sessions, CommitSave(s)
  PROVE  LogoInv'
<1> DEFINE me == ses[s]
           o == me.org
<1>1. /\ me \in Session /\ GoodCopy(me) /\ me.at = "save" /\ o \in Orgs
      /\ Saved(me) \in OrgRow
      /\ orgs'[o] = IF me.row = None THEN Saved(me)
                    ELSE IF Exists(o) THEN Flushed(orgs[o], me.row, Saved(me)) ELSE None
      /\ \A p \in Orgs : p # o => orgs'[p] =
           IF p \in me.cleared /\ Exists(p)
           THEN [orgs[p] EXCEPT !.is_default = FALSE] ELSE orgs[p]
  BY SaveRows
<1>2. Saved(me).logo_key \in files \cup {None}
  <2>1. Saved(me).logo_key = IF me.logo # None THEN me.logo
                             ELSE IF me.row = None THEN None ELSE me.row.logo_key
    BY <1>1, SavedFields
  <2> QED
    BY <2>1 DEF LogoInv, LogosInHand
<1>3. ASSUME NEW p \in Orgs, orgs'[p] # None
      PROVE  orgs'[p].logo_key \in files \cup {None}
  <2>1. CASE p # o
    <3>1. Exists(p) => orgs[p] \in OrgRow /\ orgs[p].logo_key \in files \cup {None}
      BY ExistingRow DEF TypeInv, LogoInv, RowLogos
    <3>2. CASE p \in me.cleared /\ Exists(p)
      BY <1>1, <2>1, <3>1, <3>2, RowFields
    <3>3. CASE ~(p \in me.cleared /\ Exists(p))
      BY <1>1, <1>3, <2>1, <3>1, <3>3 DEF Exists
    <3> QED
      BY <3>2, <3>3
  <2>2. CASE p = o /\ me.row = None
    BY <1>1, <1>2, <2>2
  <2>3. CASE p = o /\ me.row # None
    <3>1. Exists(o) /\ orgs'[o] = Flushed(orgs[o], me.row, Saved(me))
      BY <1>1, <1>3, <2>3
    <3>2. orgs[o] \in OrgRow /\ me.row \in OrgRow /\ orgs[o].logo_key \in files \cup {None}
      BY <1>1, <2>3, <3>1, ExistingRow DEF GoodCopy, TypeInv, LogoInv, RowLogos
    <3> QED
      BY <1>1, <1>2, <2>3, <3>1, <3>2, FlushedFields
  <2> QED
    BY <2>1, <2>2, <2>3
<1>4. /\ \A z \in Sessions \ {s} : SameBut(ses[z], ses'[z])
      /\ ses'[s].row = None /\ ses'[s].logo = None
      /\ files' = files /\ cache' = cache
  BY SaveSessions, ClosedType
<1> QED
  BY <1>3, <1>4, LogosKept DEF LogoInv

LEMMA AttachLogos ==
  ASSUME TypeInv, LogoInv, NEW s \in Sessions, AttachLogo(s)
  PROVE  LogoInv'
<1>1. ses \in [Sessions -> Session] /\ ses[s] \in Session
  BY DEF TypeInv, TypeOK
<1>2. \A z \in Sessions \ {s} : SameBut(ses[z], ses'[z])
  <2>1. ~CommitSave(s)
    BY DEF AttachLogo, CommitSave
  <2> QED
    BY <2>1, OthersSame DEF Proceeds
<1>3. \A o \in Orgs : orgs'[o] # None => orgs'[o].logo_key \in files \cup {None}
  BY DEF AttachLogo, rows, LogoInv, RowLogos, Exists
<1>4. CASE ~ses[s].form.upload
  <2>1. ses'[s].row = ses[s].row /\ ses'[s].logo = ses[s].logo
        /\ files' = files /\ cache' = cache
    BY <1>1, <1>4 DEF AttachLogo, Session
  <2> QED
    BY <1>2, <1>3, <2>1, LogosKept DEF LogoInv, LogosInHand
<1>5. CASE ses[s].form.upload
  <2>1. PICK key \in Files :
          /\ StoreLogo(key)
          /\ ses' = [ses EXCEPT ![s].at = "save", ![s].logo = key]
          /\ \E previous : cache' = cache \/ cache' = Invalidate(previous)
    BY <1>5 DEF AttachLogo
  <2>2. ses'[s].row = ses[s].row /\ ses'[s].logo = key
    BY <1>1, <2>1 DEF Session
  <2>3. files' = files \cup {key}
    BY <2>1 DEF StoreLogo
  <2>4. GoodCache(cache')
    BY <2>1, InvalidateGood DEF LogoInv
  <2> QED
    BY <1>2, <1>3, <2>2, <2>3, <2>4, LogosKept DEF LogoInv, LogosInHand
<1> QED
  BY <1>4, <1>5

\* The cache after a request went through it.
LEMMA CacheStep ==
  ASSUME TypeInv, LogoInv, NEW s \in Sessions,
         CacheHit(s) \/ CacheMiss(s) \/ StorageAnswers(s)
  PROVE  GoodCache(cache')
<1> DEFINE me == ses[s]
           key == me.row.logo_key
<1>1. GoodCache(cache) /\ cache \in Seq(Entry) /\ DOMAIN cache = 1..Len(cache)
  BY LenProperties DEF LogoInv, GoodCache
<1>2. CASE CacheHit(s)
  <2>1. PICK i \in DOMAIN cache :
          cache[i].key = key /\ cache' = Append(Invalidate(key), cache[i])
    BY <1>2 DEF CacheHit
  <2> DEFINE rest == Invalidate(key)
             entry == cache[i]
  <2>2. entry \in Entry /\ entry.data = entry.key /\ entry.key \in files
    BY <1>1, <2>1, ElementOfSeq DEF GoodCache
  <2>3. /\ GoodCache(rest) /\ \A j \in 1..Len(rest) : rest[j].key # entry.key
        /\ Len(rest) = Len(cache) - 1
    BY <1>1, <2>1, InvalidateGood
  <2>4. Len(cache) \in Nat /\ Len(cache) <= CacheSize
    BY <1>1, LenProperties DEF GoodCache
  <2> HIDE DEF rest, entry
  <2> DEFINE longer == Append(rest, entry)
  <2>5. /\ longer \in Seq(Entry) /\ Len(longer) = Len(rest) + 1
        /\ \A j \in 1..Len(longer) : longer[j].data = longer[j].key /\ longer[j].key \in files
        /\ \A j, k \in 1..Len(longer) : longer[j].key = longer[k].key => j = k
    BY <2>2, <2>3, AppendGood
  <2>6. cache' = longer
    BY <2>1 DEF rest, entry
  <2>7. Len(longer) <= CacheSize
    BY <2>3, <2>4, <2>5, OrganizationsAssumption
  <2> HIDE DEF longer
  <2> QED
    BY <2>5, <2>6, <2>7 DEF GoodCache
<1>3. CASE CacheMiss(s)
  BY <1>1, <1>3, InvalidateGood DEF CacheMiss
<1>4. CASE StorageAnswers(s)
  <2> DEFINE entry == [key |-> key, expires |-> me.clock + CacheTtl, data |-> StorageGet(key)]
  <2>1. me \in Session /\ GoodCopy(me) /\ me.at = "fetch" /\ cache' = CachePut(entry)
    BY <1>4 DEF StorageAnswers, TypeInv, TypeOK, CopiesOK
  <2>2. me.row \in OrgRow /\ key # None
    BY <2>1 DEF GoodCopy, Drawing
  <2>3. key \in files /\ key \in Files
    BY <2>2, NoneApart DEF LogoInv, LogosInHand, TypeInv, TypeOK
  <2>4. StorageGet(key) = key
    BY <2>3 DEF StorageGet
  <2>5. me.clock + CacheTtl \in Nat
    BY <2>1, OrganizationsAssumption DEF Session, Time
  <2> HIDE DEF key
  <2>6. entry \in Entry /\ entry.data = entry.key /\ entry.key \in files
    BY <2>3, <2>4, <2>5 DEF Entry
  <2> HIDE DEF entry
  <2> QED
    BY <1>1, <2>1, <2>6, CachePutGood
<1> QED
  BY <1>2, <1>3, <1>4

LEMMA LogoStep ==
  ASSUME TypeInv, LogoInv, [Next]_vars
  PROVE  LogoInv'
<1>0. /\ ses \in [Sessions -> Session] /\ \A z \in Sessions : ses[z] \in Session
      /\ \A z \in Sessions : ses[z].row # None => ses[z].row.logo_key \in files \cup {None}
      /\ \A z \in Sessions : ses[z].logo \in files \cup {None}
      /\ \A o \in Orgs : orgs[o] # None => orgs[o].logo_key \in files \cup {None}
      /\ GoodCache(cache)
  BY DEF TypeInv, TypeOK, LogoInv, LogosInHand, RowLogos, Exists
<1>1. ASSUME NEW s \in Sessions, Started(s)
      PROVE  LogoInv'
  <2>1. PICK x : GoodEntry(x) /\ Open(s, x)
    BY <1>1 DEF Started
  <2>2. /\ ses'[s] = x /\ x.logo = None
        /\ x.row # None => x.org \in Orgs /\ orgs[x.org] # None /\ x.row = orgs[x.org]
        /\ orgs' = orgs /\ files' = files /\ cache' = cache
    BY <1>0, <2>1 DEF GoodEntry, Open, rows, Exists
  <2>3. \A z \in Sessions \ {s} : SameBut(ses[z], ses'[z])
    BY <1>1, OthersSame
  <2> QED
    BY <1>0, <2>2, <2>3, LogosKept
<1>2. ASSUME NEW s \in Sessions, Proceeds(s), ~CommitSave(s), ~AttachLogo(s)
      PROVE  LogoInv'
  <2>1. \A z \in Sessions \ {s} : SameBut(ses[z], ses'[z])
    BY <1>2, OthersSame
  <2>2. CASE \E alias \in Aliases \cup {None} : ResolveOrganization(s, alias)
    <3>1. PICK alias \in Aliases \cup {None} : ResolveOrganization(s, alias)
      BY <2>2
    <3>2. PICK o \in Candidates(ses[s].account, alias) :
            ses' = [ses EXCEPT ![s].at = "invoice", ![s].org = o, ![s].row = orgs[o],
                               ![s].window = {ImageOf(orgs[o])}]
      BY <3>1 DEF ResolveOrganization
    <3>3. o \in Orgs /\ orgs[o] # None
      BY <3>2 DEF Candidates, DefaultsOf, Of, Exists
    <3>4. ses'[s].row = orgs[o] /\ ses'[s].logo = ses[s].logo
      BY <1>0, <3>2 DEF Session
    <3>5. orgs' = orgs /\ files' = files /\ cache' = cache
      BY <3>1 DEF ResolveOrganization, rows
    <3> QED
      BY <1>0, <2>1, <3>3, <3>4, <3>5, LogosKept
  <2>3. CASE UpdateOrganization(s) \/ MarkTokenUsed(s) \/ ResolveInvoice(s) \/ NotModified(s)
             \/ DrawPlain(s)
    <3>1. ses'[s].row = ses[s].row /\ ses'[s].logo = ses[s].logo
      BY <1>0, <2>3 DEF UpdateOrganization, MarkTokenUsed, ResolveInvoice, NotModified,
         DrawPlain, Send, Session
    <3>2. orgs' = orgs /\ files' = files /\ cache' = cache
      BY <2>3 DEF UpdateOrganization, MarkTokenUsed, ResolveInvoice, NotModified,
         DrawPlain, rows
    <3> QED
      BY <1>0, <2>1, <3>1, <3>2, LogosKept
  <2>4. CASE CacheHit(s) \/ CacheMiss(s) \/ StorageAnswers(s)
    <3>1. ses'[s].row = ses[s].row /\ ses'[s].logo = ses[s].logo
      BY <1>0, <2>4 DEF CacheHit, CacheMiss, StorageAnswers, Send, Session
    <3>2. orgs' = orgs /\ files' = files
      BY <2>4 DEF CacheHit, CacheMiss, StorageAnswers, rows
    <3>3. GoodCache(cache')
      BY <2>4, CacheStep
    <3> QED
      BY <1>0, <2>1, <3>1, <3>2, <3>3, LogosKept
  <2>5. CASE DeleteOrganization(s) \/ CommitRevoke(s) \/ Receive(s) \/ Rollback(s)
    <3>1. Close(s) /\ files' = files /\ cache' = cache
      BY <2>5 DEF DeleteOrganization, CommitRevoke, Receive, Rollback
    <3>2. ses'[s].row = None /\ ses'[s].logo = None
      BY <3>1, SessionCloses, ClosedType
    <3>3. \A o \in Orgs : orgs'[o] # None => orgs'[o] = orgs[o]
      BY <2>5 DEF DeleteOrganization, CommitRevoke, Receive, Rollback, TypeInv, TypeOK
    <3> QED
      BY <1>0, <2>1, <3>1, <3>2, <3>3, LogosKept
  <2> QED
    BY <1>2, <2>2, <2>3, <2>4, <2>5 DEF Proceeds
<1>3. CASE Restart
  <2>1. /\ \A z \in Sessions : ses'[z].row = None /\ ses'[z].logo = None
        /\ orgs' = orgs /\ files' = files /\ cache' = <<>>
    BY <1>3, ClosedType DEF Restart
  <2>2. GoodCache(<<>>)
    BY EmptySeq, OrganizationsAssumption DEF GoodCache
  <2> QED
    BY <1>0, <2>1, <2>2 DEF LogoInv, LogosInHand, RowLogos, Exists, GoodCache
<1>4. ASSUME \/ \E t \in Tokens, a \in Accounts : IssueToken(t, a)
             \/ Tick \/ UNCHANGED vars
      PROVE  LogoInv'
  <2>1. ses' = ses /\ orgs' = orgs /\ files' = files /\ cache' = cache
    BY <1>4 DEF IssueToken, Tick, vars, rows
  <2> QED
    BY <2>1 DEF LogoInv, LogosInHand, RowLogos, Exists, GoodCache
<1> QED
  BY <1>1, <1>2, <1>3, <1>4, SaveLogos, AttachLogos, StepKinds

LEMMA LogoInit ==
  ASSUME Init
  PROVE  LogoInv
<1>1. ASSUME NEW o \in Orgs, orgs[o] # None
      PROVE  orgs[o].logo_key \in files \cup {None}
  BY <1>1 DEF Init
<1>2. \A s \in Sessions : ses[s].row = None /\ ses[s].logo = None
  BY ClosedType DEF Init
<1>3. GoodCache(cache)
  BY EmptySeq, OrganizationsAssumption DEF Init, GoodCache
<1> QED
  BY <1>1, <1>2, <1>3 DEF LogoInv, RowLogos, LogosInHand, Exists

LEMMA Logos == Spec => []LogoInv
  BY LogoInit, LogoStep, Types, PTL DEF Spec

\* A payment picture never lacks the logo its organisation has: store_logo
\* stores before the row can name the key, nothing in the bucket is deleted,
\* and the cache holds only what the bucket does, each key once.
THEOREM LogosCorrect == Spec => []LogosAtHand
<1>1. TypeInv /\ LogoInv => LogosAtHand
  <2> SUFFICES ASSUME TypeInv, LogoInv PROVE LogosAtHand
    OBVIOUS
  <2>1. DOMAIN cache = 1..Len(cache)
    BY LenProperties DEF TypeInv, TypeOK
  <2> QED
    BY <2>1 DEF LogoInv, RowLogos, GoodCache, LogosAtHand
<1> QED
  BY <1>1, Logos, Types, PTL

\* An image is sent from one copy of the row.
LEMMA SentImage ==
  ASSUME TypeInv, LogoInv, NEW s \in Sessions,
         DrawPlain(s) \/ CacheHit(s) \/ StorageAnswers(s)
  PROVE  ses'[s].shown \in ses'[s].window
<1> DEFINE me == ses[s]
           key == me.row.logo_key
<1>1. me \in Session /\ me.row \in OrgRow /\ ImageOf(me.row) \in me.window
  BY DEF DrawPlain, CacheHit, StorageAnswers, Draws, TypeInv, TypeOK, CopiesOK, GoodCopy, Drawing
<1>2. Send(s, key)
  <2>1. CASE DrawPlain(s)
    BY <2>1 DEF DrawPlain
  <2>2. CASE CacheHit(s)
    <3>1. \A i \in DOMAIN cache : cache[i].data = cache[i].key
      BY LenProperties DEF LogoInv, GoodCache
    <3> QED
      BY <2>2, <3>1 DEF CacheHit
  <2>3. CASE StorageAnswers(s)
    <3>1. me.at = "fetch" /\ Send(s, StorageGet(key))
      BY <2>3 DEF StorageAnswers
    <3>2. key # None /\ me.row # None
      BY <1>1, <3>1, NoneApart DEF TypeInv, CopiesOK, GoodCopy
    <3>3. key \in files
      BY <3>2 DEF LogoInv, LogosInHand
    <3> QED
      BY <3>1, <3>3 DEF StorageGet
  <2> QED
    BY <2>1, <2>2, <2>3
<1>3. /\ ses'[s].shown = [requisites |-> me.row.requisites, logo |-> key]
      /\ ses'[s].window = me.window
  BY <1>1, <1>2 DEF Send, TypeInv, TypeOK, Session
<1> QED
  BY <1>1, <1>3 DEF ImageOf

LEMMA AnswerStep ==
  ASSUME TypeInv, LogoInv, AnswerShowsRow, [Next]_vars
  PROVE  AnswerShowsRow'
<1> DEFINE Shows(z) == z.at = "sent" /\ z.fresh => z.shown \in z.window
<1>0. /\ ses \in [Sessions -> Session] /\ \A z \in Sessions : ses[z] \in Session
      /\ \A z \in Sessions : Shows(ses[z])
  BY DEF TypeInv, TypeOK, AnswerShowsRow
<1>1. ASSUME NEW s \in Sessions, \A z \in Sessions \ {s} : SameBut(ses[z], ses'[z]),
             Shows(ses'[s])
      PROVE  AnswerShowsRow'
  <2>1. \A z \in Sessions \ {s} : Shows(ses'[z])
    BY <1>0, <1>1 DEF SameBut
  <2> QED
    BY <1>1, <2>1 DEF AnswerShowsRow
<1>2. ASSUME NEW s \in Sessions, Started(s)
      PROVE  AnswerShowsRow'
  <2>1. PICK x : GoodEntry(x) /\ Open(s, x)
    BY <1>2 DEF Started
  <2>2. ses'[s].at # "sent"
    BY <1>0, <2>1 DEF GoodEntry, Open
  <2> QED
    BY <1>1, <1>2, <2>2, OthersSame
<1>3. ASSUME NEW s \in Sessions, CommitSave(s)
      PROVE  AnswerShowsRow'
  BY <1>1, <1>3, SaveSessions, ClosedType
<1>4. ASSUME NEW s \in Sessions, Proceeds(s), ~CommitSave(s)
      PROVE  AnswerShowsRow'
  <2>1. CASE DrawPlain(s) \/ CacheHit(s) \/ StorageAnswers(s)
    BY <1>1, <1>4, <2>1, SentImage, OthersSame
  <2>2. CASE NotModified(s)
    <3>1. ~ses'[s].fresh
      BY <1>0, <2>2 DEF NotModified, Session
    <3> QED
      BY <1>1, <1>4, <3>1, OthersSame
  <2>3. CASE \/ UpdateOrganization(s) \/ AttachLogo(s) \/ MarkTokenUsed(s)
             \/ ResolveInvoice(s) \/ CacheMiss(s)
             \/ \E alias \in Aliases \cup {None} : ResolveOrganization(s, alias)
    <3>1. CASE AttachLogo(s)
      <4>1. ses'[s].at = "save"
        BY <1>0, <3>1 DEF AttachLogo, Session
      <4> QED
        BY <1>1, <1>4, <4>1, OthersSame
    <3>2. CASE ~AttachLogo(s)
      <4>1. UpdateOrganization(s) => ses'[s].at = "store"
        BY <1>0 DEF UpdateOrganization, Session
      <4>2. MarkTokenUsed(s) => ses'[s].at = "resolve"
        BY <1>0 DEF MarkTokenUsed, Session
      <4>3. ResolveInvoice(s) => ses'[s].at = "draw"
        BY <1>0 DEF ResolveInvoice, Session
      <4>4. CacheMiss(s) => ses'[s].at = "fetch"
        BY <1>0 DEF CacheMiss, Session
      <4>5. \A alias : ResolveOrganization(s, alias) => ses'[s].at = "invoice"
        BY <1>0 DEF ResolveOrganization, Session
      <4>6. ses'[s].at # "sent"
        BY <2>3, <3>2, <4>1, <4>2, <4>3, <4>4, <4>5
      <4> QED
        BY <1>1, <1>4, <4>6, OthersSame
    <3> QED
      BY <3>1, <3>2
  <2>4. CASE DeleteOrganization(s) \/ CommitRevoke(s) \/ Receive(s) \/ Rollback(s)
    <3>1. ses'[s].at = "idle"
      BY <2>4, SessionCloses, ClosedType DEF DeleteOrganization, CommitRevoke, Receive, Rollback
    <3> QED
      BY <1>1, <1>4, <3>1, OthersSame
  <2> QED
    BY <1>4, <2>1, <2>2, <2>3, <2>4 DEF Proceeds
<1>5. CASE Restart
  BY <1>5, ClosedType DEF Restart, AnswerShowsRow
<1>6. ASSUME \/ \E t \in Tokens, a \in Accounts : IssueToken(t, a)
             \/ Tick \/ UNCHANGED vars
      PROVE  AnswerShowsRow'
  BY <1>6 DEF IssueToken, Tick, vars, AnswerShowsRow
<1> QED
  BY <1>2, <1>3, <1>4, <1>5, <1>6, StepKinds

\* A picture never mixes two states of an organisation: payload and logo
\* come from the one copy of the row, and the logo's key is never reused.
THEOREM AnswerCorrect == Spec => []AnswerShowsRow
<1>1. Init => AnswerShowsRow
  BY ClosedType DEF Init, AnswerShowsRow
<1> QED
  BY <1>1, AnswerStep, Logos, Types, PTL DEF Spec

---------------------------------------------------------------------------
(* The default organisation *)

\* A step of one session that writes no default and makes no row.
LEMMA DefaultsKept ==
  ASSUME TypeInv, DefaultInv, NEW s \in Sessions,
         \A z \in Sessions \ {s} : ses'[z] = ses[z],
         ses'[s].at \in Saving =>
           /\ ses[s].at \in Saving /\ ses'[s].org = ses[s].org
           /\ ses'[s].account = ses[s].account /\ ses'[s].row = ses[s].row,
         SetsDefault(ses'[s]) /\ ~ses'[s].overtaken =>
           DefaultsOf(ses'[s].account) \subseteq ses'[s].cleared \cup {ses'[s].org},
         \A o \in Orgs : orgs'[o] # None => orgs'[o] = orgs[o],
         raced' = raced
  PROVE  DefaultInv'
<1>1. \A z \in Sessions : ses'[z].at \in Saving =>
        /\ ses[z].at \in Saving /\ ses'[z].org = ses[z].org /\ ses[z].org \in Orgs
        /\ ses'[z].account = ses[z].account /\ ses'[z].row = ses[z].row
  BY DEF Saving, TypeInv, CopiesOK, GoodCopy
<1>2. OwnRows'
  BY <1>1 DEF DefaultInv, OwnRows, Exists
<1>3. \A a : DefaultsOf(a)' \subseteq DefaultsOf(a)
  BY DEF DefaultsOf, Of, Exists
<1>4. ASSUME NEW z \in Sessions, SetsDefault(ses'[z]), ~ses'[z].overtaken
      PROVE  DefaultsOf(ses'[z].account) \subseteq ses'[z].cleared \cup {ses'[z].org}
  BY <1>4 DEF DefaultInv, ClearedInv
<1>5. ClearedInv'
  <2>1. ASSUME NEW z \in Sessions, SetsDefault(ses'[z]), ~ses'[z].overtaken
        PROVE  \A a : a = ses'[z].account =>
                 DefaultsOf(a)' \subseteq ses'[z].cleared \cup {ses'[z].org}
    BY <1>3, <1>4, <2>1
  <2>2. \A z \in Sessions : SetsDefault(ses[z])' <=> SetsDefault(ses'[z])
    BY DEF SetsDefault, Marks
  <2>3. \A z \in Sessions : DefaultsOf(ses[z].account)' =
          {o \in Orgs : /\ orgs'[o] # None /\ orgs'[o].account = ses'[z].account
                        /\ orgs'[o].is_default}
    BY DEF DefaultsOf, Of, Exists
  <2>4. \A a : DefaultsOf(a)' = {o \in Orgs : /\ orgs'[o] # None /\ orgs'[o].account = a
                                              /\ orgs'[o].is_default}
    BY DEF DefaultsOf, Of, Exists
  <2> QED
    BY <2>1, <2>2, <2>3, <2>4 DEF ClearedInv
<1>6. OneDefault'
  BY <1>3 DEF DefaultInv, OneDefault
<1> QED
  BY <1>2, <1>5, <1>6 DEF DefaultInv

LEMMA StartDefaults ==
  ASSUME TypeInv, DefaultInv, NEW s \in Sessions, Started(s)
  PROVE  DefaultInv'
<1>1. PICK x : GoodEntry(x) /\ Open(s, x)
  BY DEF Started
<1>2. ses'[s] = x /\ orgs' = orgs /\ raced' = raced
  BY <1>1 DEF Open, rows, history, TypeInv, TypeOK
<1>3. \A z \in Sessions \ {s} : ses'[z] = ses[z]
  BY OthersSame
<1>4. \A z \in Sessions : ses[z].at \in Saving => ses[z].org \in Orgs
  BY DEF Saving, TypeInv, CopiesOK, GoodCopy
<1>5. x.at \in Saving => x.at \in {"check", "store"} /\ x.org \in Orgs
  BY <1>1 DEF GoodEntry, GoodCopy, Saving
<1>6. x.at = "store" => x.row = None /\ ~Exists(x.org) /\ \A y \in Sessions : ses[y].org # x.org
  BY <1>1 DEF GoodEntry
<1>7. x.at = "check" => /\ x.row # None /\ x.row.account = x.account
                        /\ Exists(x.org) /\ x.row = orgs[x.org]
  BY <1>1 DEF GoodEntry, GoodCopy
<1>8. ASSUME NEW z \in Sessions, ses'[z].at \in Saving
      PROVE  /\ orgs'[ses'[z].org] # None =>
                  ses'[z].row # None /\ orgs'[ses'[z].org].account = ses'[z].account
             /\ ses'[z].row = None => \A y \in Sessions \ {z} :
                  ses'[y].at \in Saving => ses'[y].org # ses'[z].org
  <2>1. CASE z = s
    <3>1. orgs'[x.org] # None => x.row # None /\ orgs'[x.org].account = x.account
      BY <1>2, <1>5, <1>6, <1>7, <1>8, <2>1 DEF Exists
    <3>2. x.row = None => \A y \in Sessions \ {s} : ses'[y].org # x.org
      BY <1>2, <1>3, <1>5, <1>6, <1>7, <1>8, <2>1
    <3> QED
      BY <1>2, <2>1, <3>1, <3>2
  <2>2. CASE z # s
    <3>1. ses'[z] = ses[z] /\ ses[z].at \in Saving
      BY <1>3, <1>8, <2>2
    <3>2. Exists(ses[z].org) => ses[z].row # None /\ orgs[ses[z].org].account = ses[z].account
      BY <3>1 DEF DefaultInv, OwnRows
    <3>3. ses[z].row = None => \A y \in Sessions \ {z} :
            ses[y].at \in Saving => ses[y].org # ses[z].org
      BY <3>1 DEF DefaultInv, OwnRows
    <3>4. ses[z].row = None /\ x.at \in Saving => x.org # ses[z].org
      BY <1>5, <1>6, <1>7, <3>2
    <3> QED
      BY <1>2, <1>3, <3>1, <3>2, <3>3, <3>4 DEF Exists
  <2> QED
    BY <2>1, <2>2
<1>9. OwnRows'
  BY <1>8 DEF OwnRows, Exists
<1>10. \A a : DefaultsOf(a)' = DefaultsOf(a)
  BY <1>2 DEF DefaultsOf, Of, Exists
<1>11. SetsDefault(x) => DefaultsOf(x.account) \subseteq x.cleared \cup {x.org}
  BY <1>1 DEF GoodEntry, SetsDefault, Marks
<1>12. ClearedInv'
  <2>1. \A z \in Sessions : SetsDefault(ses'[z]) /\ ~ses'[z].overtaken =>
          DefaultsOf(ses'[z].account) \subseteq ses'[z].cleared \cup {ses'[z].org}
    BY <1>2, <1>3, <1>11 DEF DefaultInv, ClearedInv
  <2>2. \A z \in Sessions : DefaultsOf(ses[z].account)' = DefaultsOf(ses'[z].account)
    BY <1>2 DEF DefaultsOf, Of, Exists
  <2>3. \A z \in Sessions : SetsDefault(ses[z])' <=> SetsDefault(ses'[z])
    BY DEF SetsDefault, Marks
  <2> QED
    BY <2>1, <2>2, <2>3 DEF ClearedInv
<1>13. OneDefault'
  BY <1>2, <1>10 DEF DefaultInv, OneDefault
<1> QED
  BY <1>9, <1>12, <1>13 DEF DefaultInv

\* What a save does to the marks of the default.
LEMMA SaveMarks ==
  ASSUME TypeInv, DefaultInv, NEW s \in Sessions, CommitSave(s)
  PROVE  LET me == ses[s] IN
         /\ me.at = "save" /\ me.account \in Accounts /\ me.org \in Orgs
         /\ \A p \in Orgs \ {me.org} :
              /\ orgs'[p] # None => orgs[p] # None /\ orgs'[p].account = orgs[p].account
              /\ orgs'[p] # None /\ orgs'[p].is_default =>
                   orgs[p].is_default /\ p \notin me.cleared
         /\ orgs'[me.org] # None => orgs'[me.org].account = me.account
         /\ me.row # None /\ orgs'[me.org] # None => Exists(me.org)
         /\ orgs'[me.org] # None /\ orgs'[me.org].is_default /\ ~Marks(me) =>
              Exists(me.org) /\ orgs[me.org].is_default
<1> DEFINE me == ses[s]
           o == me.org
<1>1. /\ me \in Session /\ GoodCopy(me) /\ me.at = "save" /\ o \in Orgs
      /\ Saved(me) \in OrgRow
      /\ orgs'[o] = IF me.row = None THEN Saved(me)
                    ELSE IF Exists(o) THEN Flushed(orgs[o], me.row, Saved(me)) ELSE None
      /\ \A p \in Orgs : p # o => orgs'[p] =
           IF p \in me.cleared /\ Exists(p)
           THEN [orgs[p] EXCEPT !.is_default = FALSE] ELSE orgs[p]
  BY SaveRows
<1>2. /\ me.account \in Accounts /\ me.form \in Form
      /\ me.row # None => me.row \in OrgRow /\ me.row.account = me.account
      /\ Saved(me).account = me.account /\ Saved(me).is_default = me.form.is_default
  BY <1>1, SavedFields DEF GoodCopy
<1>3. ASSUME NEW p \in Orgs \ {o}, orgs'[p] # None
      PROVE  /\ orgs[p] # None /\ orgs'[p].account = orgs[p].account
             /\ orgs'[p].is_default => orgs[p].is_default /\ p \notin me.cleared
  <2>1. CASE p \in me.cleared /\ Exists(p)
    <3>1. orgs[p] \in OrgRow /\ orgs[p] # None
      BY <2>1, ExistingRow DEF TypeInv
    <3>2. orgs'[p] = [orgs[p] EXCEPT !.is_default = FALSE]
      BY <1>1, <2>1
    <3> QED
      BY <3>1, <3>2, RowFields
  <2>2. CASE ~(p \in me.cleared /\ Exists(p))
    BY <1>1, <1>3, <2>2 DEF Exists
  <2> QED
    BY <2>1, <2>2
<1>4. /\ orgs'[o] # None => orgs'[o].account = me.account
      /\ me.row # None /\ orgs'[o] # None => Exists(o)
      /\ orgs'[o] # None /\ orgs'[o].is_default /\ ~Marks(me) =>
           Exists(o) /\ orgs[o].is_default
  <2>1. CASE me.row = None
    BY <1>1, <1>2, <2>1 DEF Marks
  <2>2. CASE me.row # None /\ Exists(o)
    <3>1. orgs[o] \in OrgRow /\ orgs[o].account = me.account
      BY <1>1, <2>2, ExistingRow DEF TypeInv, DefaultInv, OwnRows, Saving
    <3>2. orgs'[o] = Flushed(orgs[o], me.row, Saved(me))
      BY <1>1, <2>2
    <3>3. /\ orgs'[o].account = IF Saved(me).account = me.row.account
                                THEN orgs[o].account ELSE Saved(me).account
          /\ orgs'[o].is_default = IF Saved(me).is_default = me.row.is_default
                                   THEN orgs[o].is_default ELSE Saved(me).is_default
      BY <1>1, <1>2, <2>2, <3>1, <3>2, FlushedFields
    <3>4. orgs'[o].account = me.account
      BY <1>2, <2>2, <3>1, <3>3
    <3>5. me.form.is_default \in BOOLEAN /\ me.row.is_default \in BOOLEAN
      BY <1>2, <2>2 DEF Form, OrgRow
    <3>6. orgs'[o].is_default /\ ~Marks(me) => orgs[o].is_default
      BY <1>2, <2>2, <3>3, <3>5 DEF Marks
    <3> QED
      BY <2>2, <3>4, <3>6
  <2>3. CASE me.row # None /\ ~Exists(o)
    BY <1>1, <2>3
  <2> QED
    BY <2>1, <2>2, <2>3
<1> QED
  BY <1>1, <1>2, <1>3, <1>4

LEMMA SaveDefaults ==
  ASSUME TypeInv, DefaultInv, NEW s \in Sessions, CommitSave(s)
  PROVE  DefaultInv'
<1> DEFINE me == ses[s]
           o == me.org
           marked(a) == {p \in Orgs : /\ orgs'[p] # None /\ orgs'[p].account = a
                                      /\ orgs'[p].is_default}
<1>1. /\ me.at = "save" /\ me.account \in Accounts /\ o \in Orgs
      /\ \A p \in Orgs \ {o} :
           /\ orgs'[p] # None => orgs[p] # None /\ orgs'[p].account = orgs[p].account
           /\ orgs'[p] # None /\ orgs'[p].is_default =>
                orgs[p].is_default /\ p \notin me.cleared
      /\ orgs'[o] # None => orgs'[o].account = me.account
      /\ me.row # None /\ orgs'[o] # None => Exists(o)
      /\ orgs'[o] # None /\ orgs'[o].is_default /\ ~Marks(me) =>
           Exists(o) /\ orgs[o].is_default
  BY SaveMarks
<1>2. /\ ses'[s].at = "idle"
      /\ \A x \in Sessions \ {s} :
           /\ SameBut(ses[x], ses'[x])
           /\ Marks(me) /\ ses[x].account = me.account /\ ses[x].at \in {"store", "save"}
                => ses'[x].overtaken
      /\ raced' = IF Marks(me) /\ me.overtaken THEN raced \cup {me.account} ELSE raced
  BY SaveSessions, ClosedType
<1>3. Exists(o) => orgs[o].account = me.account
  BY <1>1 DEF DefaultInv, OwnRows, Saving
<1>4. OwnRows'
  <2>1. ASSUME NEW x \in Sessions, ses'[x].at \in Saving
        PROVE  /\ orgs'[ses'[x].org] # None =>
                    ses'[x].row # None /\ orgs'[ses'[x].org].account = ses'[x].account
               /\ ses'[x].row = None => \A y \in Sessions \ {x} :
                    ses'[y].at \in Saving => ses'[y].org # ses'[x].org
    <3>1. /\ x # s /\ ses[x].at \in Saving /\ ses'[x].org = ses[x].org
          /\ ses'[x].row = ses[x].row /\ ses'[x].account = ses[x].account
      BY <1>2, <2>1 DEF Saving, SameBut
    <3>2. ses[x].org \in Orgs
      BY <3>1 DEF Saving, TypeInv, CopiesOK, GoodCopy
    <3>3. Exists(ses[x].org) => ses[x].row # None /\ orgs[ses[x].org].account = ses[x].account
      BY <3>1 DEF DefaultInv, OwnRows
    <3>4. me.row = None => ses[x].org # o
      BY <1>1, <3>1 DEF DefaultInv, OwnRows, Saving
    <3>5. orgs'[ses[x].org] # None =>
            Exists(ses[x].org) /\ orgs'[ses[x].org].account = orgs[ses[x].org].account
      BY <1>1, <1>3, <3>2, <3>4 DEF Exists
    <3>6. ses[x].row = None => \A y \in Sessions \ {x} :
            ses'[y].at \in Saving => ses'[y].org # ses[x].org
      <4>1. \A y \in Sessions : ses'[y].at \in Saving =>
              ses[y].at \in Saving /\ ses'[y].org = ses[y].org
        BY <1>2 DEF Saving, SameBut
      <4> QED
        BY <3>1, <4>1 DEF DefaultInv, OwnRows
    <3> QED
      BY <3>1, <3>3, <3>5, <3>6
  <2> QED
    BY <2>1 DEF OwnRows, Exists
<1>5. ASSUME NEW a, ~Marks(me) \/ a # me.account
      PROVE  marked(a) \subseteq DefaultsOf(a)
  <2>1. ASSUME NEW p \in marked(a)
        PROVE  p \in DefaultsOf(a)
    <3>1. CASE p = o
      BY <1>1, <1>3, <1>5, <2>1, <3>1 DEF DefaultsOf, Of
    <3>2. CASE p # o
      BY <1>1, <2>1, <3>2 DEF DefaultsOf, Of, Exists
    <3> QED
      BY <3>1, <3>2
  <2> QED
    BY <2>1
<1>6. \A a : DefaultsOf(a)' = marked(a)
  BY DEF DefaultsOf, Of, Exists
<1>7. ASSUME Marks(me), ~me.overtaken
      PROVE  marked(me.account) \subseteq {o}
  <2>1. DefaultsOf(me.account) \subseteq me.cleared \cup {o}
    BY <1>1, <1>7 DEF DefaultInv, ClearedInv, SetsDefault
  <2>2. ASSUME NEW p \in marked(me.account), p # o
        PROVE  FALSE
    <3>1. p \in DefaultsOf(me.account) /\ p \notin me.cleared
      BY <1>1, <2>2 DEF DefaultsOf, Of, Exists
    <3> QED
      BY <2>1, <2>2, <3>1
  <2> QED
    BY <2>2
<1>8. ClearedInv'
  <2>1. ASSUME NEW x \in Sessions, SetsDefault(ses'[x]), ~ses'[x].overtaken
        PROVE  marked(ses'[x].account) \subseteq ses'[x].cleared \cup {ses'[x].org}
    <3>1. x # s /\ SameBut(ses[x], ses'[x])
      BY <1>2, <2>1 DEF SetsDefault
    <3>2. SetsDefault(ses[x]) /\ ~ses[x].overtaken
      BY <2>1, <3>1 DEF SetsDefault, Marks, SameBut
    <3>3. DefaultsOf(ses[x].account) \subseteq ses[x].cleared \cup {ses[x].org}
      BY <3>2 DEF DefaultInv, ClearedInv
    <3>4. ~Marks(me) \/ ses[x].account # me.account
      BY <1>2, <2>1, <3>1, <3>2 DEF SetsDefault
    <3>5. marked(ses[x].account) \subseteq DefaultsOf(ses[x].account)
      BY <1>5, <3>4
    <3> HIDE DEF marked
    <3> QED
      BY <3>1, <3>3, <3>5 DEF SameBut
  <2>2. \A x \in Sessions : SetsDefault(ses[x])' <=> SetsDefault(ses'[x])
    BY DEF SetsDefault, Marks
  <2>3. \A x \in Sessions : DefaultsOf(ses[x].account)' = marked(ses'[x].account)
    BY DEF DefaultsOf, Of, Exists
  <2> HIDE DEF marked
  <2> QED
    BY <2>1, <2>2, <2>3 DEF ClearedInv
<1>9. OneDefault'
  <2>1. ASSUME NEW a \in Accounts, a \notin raced'
        PROVE  \A p, q \in marked(a) : p = q
    <3>1. a \notin raced /\ (Marks(me) /\ a = me.account => ~me.overtaken)
      BY <1>2, <2>1
    <3>2. CASE Marks(me) /\ a = me.account
      BY <1>7, <3>1, <3>2
    <3>3. CASE ~(Marks(me) /\ a = me.account)
      <4>1. marked(a) \subseteq DefaultsOf(a)
        BY <1>5, <3>3
      <4> HIDE DEF marked
      <4> QED
        BY <3>1, <4>1 DEF DefaultInv, OneDefault
    <3> QED
      BY <3>2, <3>3
  <2> HIDE DEF marked
  <2> QED
    BY <1>6, <2>1 DEF OneDefault
<1> QED
  BY <1>4, <1>8, <1>9 DEF DefaultInv

LEMMA UpdateDefaults ==
  ASSUME TypeInv, DefaultInv, NEW s \in Sessions, UpdateOrganization(s)
  PROVE  DefaultInv'
<1> DEFINE me == ses[s]
           gone == IF me.form.is_default /\ ~me.row.is_default
                   THEN ClearDefault(me.account, me.org) ELSE {}
           y == [me EXCEPT !.at = "store", !.cleared = gone]
<1>1. me \in Session /\ GoodCopy(me) /\ me.at = "check" /\ me.row # None
  BY DEF UpdateOrganization, TypeInv, TypeOK, CopiesOK, GoodCopy
<1>2. ses' = [ses EXCEPT ![s] = y]
  BY DEF UpdateOrganization, TypeInv, TypeOK, Session
<1>3. /\ y.at = "store" /\ y.cleared = gone /\ y.org = me.org /\ y.account = me.account
      /\ y.row = me.row /\ y.form = me.form
  BY <1>1 DEF Session
<1>4. ses'[s] = y /\ \A z \in Sessions \ {s} : ses'[z] = ses[z]
  BY <1>2 DEF TypeInv, TypeOK
<1> HIDE DEF y
<1>5. SetsDefault(y) => DefaultsOf(y.account) \subseteq y.cleared \cup {y.org}
  <2>1. SetsDefault(y) => gone = DefaultsOf(me.account) \ {me.org}
    BY <1>1, <1>3 DEF SetsDefault, Marks, ClearDefault
  <2> HIDE DEF gone
  <2> QED
    BY <1>3, <2>1
<1>6. orgs' = orgs /\ raced' = raced
  BY DEF UpdateOrganization, rows, history
<1> QED
  BY <1>1, <1>3, <1>4, <1>5, <1>6, DefaultsKept DEF Saving

LEMMA AttachDefaults ==
  ASSUME TypeInv, DefaultInv, NEW s \in Sessions, AttachLogo(s)
  PROVE  DefaultInv'
<1>1. ses \in [Sessions -> Session] /\ ses[s] \in Session /\ ses[s].at = "store"
  BY DEF AttachLogo, TypeInv, TypeOK
<1>2. \E key : ses' \in {[ses EXCEPT ![s].at = "save"],
                         [ses EXCEPT ![s].at = "save", ![s].logo = key]}
  BY DEF AttachLogo
<1>3. /\ ses'[s].at = "save" /\ ses'[s].org = ses[s].org /\ ses'[s].account = ses[s].account
      /\ ses'[s].row = ses[s].row /\ ses'[s].form = ses[s].form
      /\ ses'[s].cleared = ses[s].cleared /\ ses'[s].overtaken = ses[s].overtaken
      /\ \A z \in Sessions \ {s} : ses'[z] = ses[z]
  BY <1>1, <1>2 DEF Session
<1>4. SetsDefault(ses'[s]) /\ ~ses'[s].overtaken =>
        DefaultsOf(ses'[s].account) \subseteq ses'[s].cleared \cup {ses'[s].org}
  BY <1>1, <1>3 DEF SetsDefault, Marks, DefaultInv, ClearedInv
<1>5. orgs' = orgs /\ raced' = raced
  BY DEF AttachLogo, rows, history
<1> QED
  BY <1>1, <1>3, <1>4, <1>5, DefaultsKept DEF Saving

LEMMA DefaultStep ==
  ASSUME TypeInv, DefaultInv, [Next]_vars
  PROVE  DefaultInv'
<1>0. ses \in [Sessions -> Session] /\ \A z \in Sessions : ses[z] \in Session
  BY DEF TypeInv, TypeOK
<1>1. ASSUME NEW s \in Sessions, Proceeds(s), ~CommitSave(s), ~UpdateOrganization(s),
             ~AttachLogo(s)
      PROVE  DefaultInv'
  <2>1. \A z \in Sessions \ {s} : ses'[z] = ses[z]
    BY <1>1, OthersSame
  <2>2. ses'[s].at \notin Saving
    <3>1. /\ MarkTokenUsed(s) => ses'[s].at = "resolve"
          /\ ResolveInvoice(s) => ses'[s].at = "draw"
          /\ NotModified(s) => ses'[s].at = "sent"
          /\ CacheMiss(s) => ses'[s].at = "fetch"
      BY <1>0 DEF MarkTokenUsed, ResolveInvoice, NotModified, CacheMiss, Session
    <3>2. \A alias : ResolveOrganization(s, alias) => ses'[s].at = "invoice"
      BY <1>0 DEF ResolveOrganization, Session
    <3>3. DrawPlain(s) \/ CacheHit(s) \/ StorageAnswers(s) => ses'[s].at = "sent"
      BY <1>0 DEF DrawPlain, CacheHit, StorageAnswers, Send, Session
    <3>4. DeleteOrganization(s) \/ CommitRevoke(s) \/ Receive(s) \/ Rollback(s) =>
            ses'[s].at = "idle"
      BY SessionCloses, ClosedType DEF DeleteOrganization, CommitRevoke, Receive, Rollback
    <3> QED
      BY <1>1, <3>1, <3>2, <3>3, <3>4 DEF Proceeds, Saving
  <2>3. raced' = raced
    BY <1>1 DEF Proceeds, MarkTokenUsed, ResolveInvoice, NotModified, CacheMiss,
       ResolveOrganization, DrawPlain, CacheHit, StorageAnswers, DeleteOrganization,
       CommitRevoke, Receive, Rollback, history
  <2>4. \A o \in Orgs : orgs'[o] # None => orgs'[o] = orgs[o]
    <3>1. CASE DeleteOrganization(s)
      BY <3>1 DEF DeleteOrganization, TypeInv, TypeOK
    <3>2. CASE ~DeleteOrganization(s)
      BY <1>1, <3>2 DEF Proceeds, MarkTokenUsed, ResolveInvoice, NotModified, CacheMiss,
         ResolveOrganization, DrawPlain, CacheHit, StorageAnswers,
         CommitRevoke, Receive, Rollback, rows
    <3> QED
      BY <3>1, <3>2
  <2> QED
    BY <2>1, <2>2, <2>3, <2>4, DefaultsKept DEF Saving, SetsDefault
<1>2. CASE Restart
  <2>1. \A z \in Sessions : ses'[z].at \notin Saving
    BY <1>2, ClosedType DEF Restart, Saving
  <2>2. orgs' = orgs /\ raced' = raced
    BY <1>2 DEF Restart, history
  <2>3. OwnRows' /\ ClearedInv'
    BY <2>1 DEF OwnRows, ClearedInv, SetsDefault, Saving
  <2>4. OneDefault'
    BY <2>2 DEF DefaultInv, OneDefault, DefaultsOf, Of, Exists
  <2> QED
    BY <2>3, <2>4 DEF DefaultInv
<1>3. ASSUME \/ \E t \in Tokens, a \in Accounts : IssueToken(t, a)
             \/ Tick \/ UNCHANGED vars
      PROVE  DefaultInv'
  <2>1. ses' = ses /\ orgs' = orgs /\ raced' = raced
    BY <1>3 DEF IssueToken, Tick, vars, rows, history
  <2> QED
    BY <2>1 DEF DefaultInv, OwnRows, ClearedInv, OneDefault, SetsDefault, Marks,
       DefaultsOf, Of, Exists
<1> QED
  BY <1>1, <1>2, <1>3, StartDefaults, SaveDefaults, UpdateDefaults, AttachDefaults, StepKinds

LEMMA DefaultInit ==
  ASSUME Init
  PROVE  DefaultInv
<1>1. \A z \in Sessions : ses[z].at \notin Saving
  BY ClosedType DEF Init, Saving
<1>2. OwnRows /\ ClearedInv
  BY <1>1 DEF OwnRows, ClearedInv, SetsDefault, Saving
<1>3. OneDefault
  <2>1. ASSUME NEW a \in Accounts, NEW o \in DefaultsOf(a), NEW p \in DefaultsOf(a)
        PROVE  o = p
    BY <2>1 DEF Init, DefaultsOf, Of
  <2> QED
    BY <2>1 DEF OneDefault
<1> QED
  BY <1>2, <1>3 DEF DefaultInv

\* A payment without an alias has one receiver: an account gets a second
\* default organisation only when two saves that set it overlapped, the later
\* one having looked for the old default before the earlier one's commit.
THEOREM DefaultsCorrect == Spec => []DefaultsNeedRace
<1>1. DefaultInv => DefaultsNeedRace
  <2> SUFFICES ASSUME DefaultInv, NEW a \in Accounts \ raced
               PROVE  Cardinality(DefaultsOf(a)) <= 1
    BY DEF DefaultsNeedRace
  <2>1. CASE DefaultsOf(a) = {}
    BY <2>1, FS_EmptySet
  <2>2. CASE DefaultsOf(a) # {}
    <3>1. PICK o : o \in DefaultsOf(a)
      BY <2>2
    <3>2. DefaultsOf(a) = {o}
      BY <3>1 DEF DefaultInv, OneDefault
    <3>3. Cardinality({o}) = 1
      BY FS_Singleton, Zenon
    <3> QED
      BY <3>2, <3>3
  <2> QED
    BY <2>1, <2>2
<1> QED
  BY <1>1, DefaultInit, DefaultStep, Types, PTL DEF Spec
=============================================================================
