--------------------------- MODULE RowLocksProofs ---------------------------
(***************************************************************************)
(* Why only the named transactions of RowLocks can wait in a circle, for   *)
(* any number of transactions and any rows.                                *)
(*                                                                         *)
(* Whoever keeps somebody waiting in a circle waits as well, so the        *)
(* members that keep others waiting are a circle too: from the members of  *)
(* a circle one may take away those that are in nobody's way, again and    *)
(* again.  That removes renames, new organisations, pages and logins.      *)
(* Every lock of the rest gets a rank such that a transaction in the way   *)
(* of a waiting one waits for a lock of a higher rank: a circle has no     *)
(* highest rank.                                                           *)
(***************************************************************************)
EXTENDS RowLocks, FiniteSetTheorems, SequenceTheorems, WellFoundedInduction, TLAPS

---------------------------------------------------------------------------
(* Ranks *)

\* More than any place.
Span == Cardinality(Sortable) + 1

\* Keys come first.  The account comes before the links when it is written
\* and after the organisations when it is referred to, an organisation that
\* a new invoice refers to comes after that, then the invoices and last the
\* sessions of the cabinet.
Rank(l) ==
  IF l.row \in Tokens THEN Place[l.row]
  ELSE IF l.row = Account THEN IF l.mode = "KeyShare" THEN 3 * Span ELSE Span
  ELSE IF l.row \in Invites THEN Span + Place[l.row]
  ELSE IF l.row \in Orgs
       THEN IF l.mode = "KeyShare" THEN 3 * Span + 1 ELSE 2 * Span + Place[l.row]
  ELSE IF l.row \in Invoices THEN IF l.mode = "Update" THEN 3 * Span + 3 ELSE 3 * Span + 2
  ELSE IF l.row \in Cookies THEN 3 * Span + 4 + Place[l.row] ELSE 0

\* A lock in the way of another one.
Collide(a, w) == a.row = w.row /\ Conflict(a.mode, w.mode)

\* The invoices of a deleted organisation are locked in no order, but under
\* the lock of their organisation.
Goes(l) == l.row \in Invoices /\ l.mode = "Update"
OrgGone(l) == [row |-> OrgOf[l.row], mode |-> "Update"]

\* Whoever waits for a lock that collides with the first waits on a lower
\* rank than the second.
Upward(a, b) == \A w \in Lock : Collide(a, w) /\ ~(Goes(w) /\ Goes(a)) => Rank(w) < Rank(b)

\* The transactions that take their locks along the ranks.
Ordered == {"request", "panel", "edit", "close_all"}

\* What may follow a lock: a request takes an organisation last, a new
\* organisation and a login the account, and a page has one lock.
Follows(k, a, b) ==
  /\ k \in Ordered => Upward(a, b)
  /\ k = "request" => a.row \notin Orgs
  /\ k \in {"create", "login"} => a.row # Account
  /\ k # "page"

\* Who takes which locks: organisations and aliases, sessions of the cabinet.
MayTake(k, l) ==
  /\ l.row \in Orgs \cup Names =>
       \/ k \in {"edit", "create", "rename", "delete_account"}
       \/ k = "request" /\ l.row \in Orgs /\ l.mode = "KeyShare"
  /\ l.row \in Cookies => k \in {"page", "close_all", "login", "delete_account"}
  /\ k = "create" => l.row \in Orgs \cup Names \cup {Account} /\ l.mode # "Update"
  /\ k = "rename" => l.row \in Orgs \cup Names
  /\ k = "login" => l.row \in Cookies \cup {Account}

---------------------------------------------------------------------------
(* The inductive invariant *)

\* What a session holds and what it still takes are in order.
InOrder(s) ==
  kind[s] \in Kinds =>
    /\ \A i, j \in DOMAIN todo[s] : i < j => Follows(kind[s], todo[s][i], todo[s][j])
    /\ \A h \in held[s] : \A j \in DOMAIN todo[s] : Follows(kind[s], h, todo[s][j])

\* It takes what its kind takes.
OfItsKind(s) ==
  kind[s] \in Kinds =>
    /\ \A h \in held[s] : MayTake(kind[s], h)
    /\ \A j \in DOMAIN todo[s] : MayTake(kind[s], todo[s][j])

\* An invoice goes after its organisation.
UnderOrg(s) ==
  kind[s] \in Ordered =>
    /\ \A h \in held[s] : Goes(h) => OrgGone(h) \in held[s]
    /\ \A j \in DOMAIN todo[s] : Goes(todo[s][j]) =>
         \/ OrgGone(todo[s][j]) \in held[s]
         \/ \E i \in DOMAIN todo[s] : i < j /\ todo[s][i] = OrgGone(todo[s][j])

\* Two locks of a row, or two entries of an alias, that conflict.
Exclude(a, b) == (a.mode = "Entry" <=> b.mode = "Entry") /\ Collide(a, b)

\* Two sessions never hold a row in modes that conflict, nor the same entry.
Exclusion ==
  \A r, s \in Sessions : r # s => \A a \in held[r], b \in held[s] : ~Exclude(a, b)

\* Whoever has not begun holds nothing.
SessionOK(s) == InOrder(s) /\ OfItsKind(s) /\ UnderOrg(s) /\ (kind[s] = "none" => held[s] = {})

LockInv ==
  /\ TypeOK
  /\ Exclusion
  /\ \A s \in Sessions : SessionOK(s)

---------------------------------------------------------------------------
(* Numbers *)

LEMMA LeastNat ==
  ASSUME NEW T, T \subseteq Nat, T # {}
  PROVE  \E x \in T : \A y \in T : x <= y
<1> DEFINE R == OpToRel(<, Nat)
<1>1. IsWellFoundedOn(R, Nat)
  BY NatLessThanWellFounded
<1>2. \A x, y \in Nat : x < y => <<x, y>> \in R
  BY DEF OpToRel
<1> HIDE DEF R
<1>3. PICK x \in T : \A y \in T : ~(<<y, x>> \in R)
  BY <1>1, WFMin
<1>4. ASSUME NEW y \in T PROVE x <= y
  <2>1. x \in Nat /\ y \in Nat
    OBVIOUS
  <2>2. ~(y < x)
    BY <1>2, <1>3, <2>1
  <2> QED
    BY <2>1, <2>2
<1> QED
  BY <1>4

LEMMA GreatestNat ==
  ASSUME NEW T, T \subseteq Nat, T # {}, NEW bound \in Nat, \A x \in T : x <= bound
  PROVE  \E x \in T : \A y \in T : y <= x
<1> DEFINE U == {bound - x : x \in T}
<1>1. U \subseteq Nat /\ U # {}
  <2>1. \A x \in T : bound - x \in Nat
    <3> SUFFICES ASSUME NEW x \in T PROVE bound - x \in Nat
      OBVIOUS
    <3>1. x \in Nat /\ x <= bound
      OBVIOUS
    <3> QED
      BY <3>1
  <2> QED
    BY <2>1
<1>2. PICK u \in U : \A v \in U : u <= v
  <2> HIDE DEF U
  <2> QED
    BY <1>1, LeastNat
<1>3. PICK x \in T : u = bound - x
  OBVIOUS
<1>4. ASSUME NEW y \in T PROVE y <= x
  <2>1. bound - x <= bound - y
    BY <1>2, <1>3
  <2>2. x \in Nat /\ y \in Nat
    OBVIOUS
  <2> QED
    BY <2>1, <2>2
<1> QED
  BY <1>4

\* Places are smaller than the span.
LEMMA PlaceRange ==
  /\ Span \in Nat /\ Span > 0
  /\ \A x \in Sortable : Place[x] \in Nat /\ 0 < Place[x] /\ Place[x] < Span
<1>1. Cardinality(Sortable) \in Nat
  <2>1. Sortable \subseteq Sortable \cup Invoices
    OBVIOUS
  <2> QED
    BY <2>1, RowsAssumption, FS_Subset, FS_CardinalityType
<1>2. \A x \in Sortable : Place[x] \in 1..Cardinality(Sortable)
  BY RowsAssumption
<1> QED
  BY <1>1, <1>2 DEF Span

\* The ranks, one kind of lock after the other.
LEMMA RankTable ==
  ASSUME NEW l \in Lock
  PROVE  /\ l.row \in Tokens => Rank(l) = Place[l.row]
         /\ l.row = Account /\ l.mode # "KeyShare" => Rank(l) = Span
         /\ l.row \in Invites => Rank(l) = Span + Place[l.row]
         /\ l.row \in Orgs /\ l.mode # "KeyShare" => Rank(l) = 2 * Span + Place[l.row]
         /\ l.row = Account /\ l.mode = "KeyShare" => Rank(l) = 3 * Span
         /\ l.row \in Orgs /\ l.mode = "KeyShare" => Rank(l) = 3 * Span + 1
         /\ l.row \in Invoices /\ l.mode # "Update" => Rank(l) = 3 * Span + 2
         /\ l.row \in Invoices /\ l.mode = "Update" => Rank(l) = 3 * Span + 3
         /\ l.row \in Cookies => Rank(l) = 3 * Span + 4 + Place[l.row]
         /\ l.row \in Names => Rank(l) = 0
  BY RowsAssumption DEF Rank, Sortable

LEMMA LockParts ==
  ASSUME NEW l \in Lock
  PROVE  /\ l.mode \in Modes
         /\ \/ l.row = Account \/ l.row \in Tokens \/ l.row \in Orgs \/ l.row \in Invites
            \/ l.row \in Invoices \/ l.row \in Cookies \/ l.row \in Names
  BY DEF Lock, Rows, Sortable

LEMMA RankRange == ASSUME NEW l \in Lock PROVE Rank(l) \in Nat /\ Rank(l) <= 4 * Span + 4
<1>1. l.row \in Sortable => Place[l.row] \in Nat /\ 0 < Place[l.row] /\ Place[l.row] < Span
  BY PlaceRange
<1> QED
  BY <1>1, PlaceRange, LockParts, RankTable DEF Sortable, Modes

---------------------------------------------------------------------------
(* What may follow what *)

At(x, mode) == [row |-> x, mode |-> mode]

LEMMA AtLock ==
  ASSUME NEW x \in Rows, NEW mode \in Modes
  PROVE  At(x, mode) \in Lock /\ At(x, mode).row = x /\ At(x, mode).mode = mode
  BY DEF At, Lock

\* The locks a waiting session may be kept from, by kind of the lock held.
LEMMA Reach ==
  ASSUME NEW a \in Lock, NEW w \in Lock, Collide(a, w), ~(Goes(w) /\ Goes(a))
  PROVE  /\ a.row \in Tokens => Rank(w) = Place[a.row]
         /\ a.row = Account => Rank(w) <= 3 * Span
         /\ a.row = Account /\ a.mode = "NoKeyUpdate" => Rank(w) = Span
         /\ a.row \in Invites => Rank(w) = Span + Place[a.row]
         /\ a.row \in Orgs /\ a.mode = "NoKeyUpdate" => Rank(w) = 2 * Span + Place[a.row]
         /\ a.row \in Orgs => Rank(w) <= 3 * Span + 1
         /\ a.row \in Invoices /\ a.mode = "Update" => Rank(w) = 3 * Span + 2
         /\ a.row \in Cookies => Rank(w) = 3 * Span + 4 + Place[a.row]
<1>1. w.row = a.row /\ Conflict(a.mode, w.mode) /\ w.mode \in Modes /\ a.mode \in Modes
  BY LockParts DEF Collide
<1>2. w.row \in Sortable => Place[w.row] \in Nat /\ 0 < Place[w.row] /\ Place[w.row] < Span
  BY PlaceRange
<1>3. a.mode = "NoKeyUpdate" => w.mode # "KeyShare"
  BY <1>1 DEF Conflict
<1>4. a.row \in Invoices /\ a.mode = "Update" => w.mode # "Update"
  BY <1>1 DEF Goes
<1>5. Span \in Nat /\ Span > 0
  BY PlaceRange
<1>6. a.row \in Tokens => Rank(w) = Place[a.row]
  BY <1>1, RankTable
<1>7. /\ a.row = Account => Rank(w) <= 3 * Span
      /\ a.row = Account /\ a.mode = "NoKeyUpdate" => Rank(w) = Span
  BY <1>1, <1>3, <1>5, RankTable DEF Modes
<1>8. a.row \in Invites => Rank(w) = Span + Place[a.row]
  BY <1>1, RankTable
<1>9. /\ a.row \in Orgs /\ a.mode = "NoKeyUpdate" => Rank(w) = 2 * Span + Place[a.row]
      /\ a.row \in Orgs => Rank(w) <= 3 * Span + 1
  BY <1>1, <1>2, <1>3, <1>5, RankTable DEF Modes, Sortable
<1>10. a.row \in Invoices /\ a.mode = "Update" => Rank(w) = 3 * Span + 2
  BY <1>1, <1>4, RankTable
<1>11. a.row \in Cookies => Rank(w) = 3 * Span + 4 + Place[a.row]
  BY <1>1, RankTable
<1> QED
  BY <1>6, <1>7, <1>8, <1>9, <1>10, <1>11

\* Every pair of locks that an ordered transaction takes in this order.
LEMMA UpwardTable ==
  ASSUME NEW a \in Lock, NEW b \in Lock,
         \/ a.row \in Tokens /\ b.row \in Tokens /\ Place[a.row] < Place[b.row]
         \/ a.row \in Tokens /\ b.row \in {Account} \cup Orgs \cup Invoices
         \/ a.row = Account /\ b.row \in Orgs /\ b.mode = "KeyShare"
         \/ a.row = Account /\ b.row \in Invoices
         \/ /\ a.row \in Orgs /\ a.mode = "NoKeyUpdate" /\ b.row \in Orgs
            /\ Place[a.row] < Place[b.row]
         \/ a.row \in Invites /\ b.row \in Invites /\ Place[a.row] < Place[b.row]
         \/ a.row \in Invites /\ b.row = Account /\ b.mode = "KeyShare"
         \/ a.row = Account /\ a.mode = "NoKeyUpdate" /\ b.row \in Invites
         \/ a.row \in Orgs /\ b.row \in Invoices /\ b.mode = "Update"
         \/ Goes(a) /\ Goes(b)
         \/ a.row \in Cookies /\ b.row \in Cookies /\ Place[a.row] < Place[b.row]
         \/ a.row \in {Account} \cup Invites /\ b.row \in Cookies
  PROVE  Upward(a, b)
<1> SUFFICES ASSUME NEW w \in Lock, Collide(a, w), ~(Goes(w) /\ Goes(a))
             PROVE  Rank(w) < Rank(b)
  BY DEF Upward
<1>1. /\ a.row \in Sortable => Place[a.row] \in Nat /\ 0 < Place[a.row] /\ Place[a.row] < Span
      /\ b.row \in Sortable => Place[b.row] \in Nat /\ 0 < Place[b.row] /\ Place[b.row] < Span
      /\ Span \in Nat /\ Span > 0
  BY PlaceRange
<1>2. Rank(w) \in Nat /\ Rank(b) \in Nat
  BY RankRange
<1>3. a.mode \in Modes /\ b.mode \in Modes
  BY LockParts
<1>4. CASE a.row \in Tokens /\ b.row \in Tokens /\ Place[a.row] < Place[b.row]
  BY <1>4, Reach, RankTable
<1>5. CASE a.row \in Tokens /\ b.row \in {Account} \cup Orgs \cup Invoices
  <2>1. Rank(w) < Span
    BY <1>1, <1>5, Reach DEF Sortable
  <2>2. Span <= Rank(b)
    BY <1>1, <1>5, RankTable DEF Sortable
  <2> QED
    BY <1>1, <1>2, <2>1, <2>2
<1>6. CASE a.row = Account /\ ((b.row \in Orgs /\ b.mode = "KeyShare") \/ b.row \in Invoices)
  <2>1. Rank(w) <= 3 * Span
    BY <1>6, Reach
  <2>2. 3 * Span < Rank(b)
    BY <1>1, <1>6, RankTable
  <2> QED
    BY <1>1, <1>2, <2>1, <2>2
<1>7. CASE /\ a.row \in Orgs /\ a.mode = "NoKeyUpdate" /\ b.row \in Orgs
           /\ Place[a.row] < Place[b.row]
  <2>1. Rank(w) = 2 * Span + Place[a.row]
    BY <1>7, Reach
  <2>2. Rank(b) \in {2 * Span + Place[b.row], 3 * Span + 1}
    BY <1>7, RankTable
  <2> QED
    BY <1>1, <1>7, <2>1, <2>2 DEF Sortable
<1>8. CASE a.row \in Invites /\ b.row \in Invites /\ Place[a.row] < Place[b.row]
  <2>1. Rank(w) = Span + Place[a.row] /\ Rank(b) = Span + Place[b.row]
    BY <1>8, Reach, RankTable
  <2> QED
    BY <1>1, <1>8, <2>1 DEF Sortable
<1>9. CASE a.row \in Invites /\ b.row = Account /\ b.mode = "KeyShare"
  <2>1. Rank(w) = Span + Place[a.row] /\ Rank(b) = 3 * Span
    BY <1>9, Reach, RankTable
  <2> QED
    BY <1>1, <1>9, <2>1 DEF Sortable
<1>10. CASE a.row = Account /\ a.mode = "NoKeyUpdate" /\ b.row \in Invites
  <2>1. Rank(w) = Span /\ Rank(b) = Span + Place[b.row]
    BY <1>10, Reach, RankTable
  <2> QED
    BY <1>1, <1>10, <2>1 DEF Sortable
<1>11. CASE a.row \in Orgs /\ b.row \in Invoices /\ b.mode = "Update"
  <2>1. Rank(w) <= 3 * Span + 1 /\ Rank(b) = 3 * Span + 3
    BY <1>11, Reach, RankTable
  <2> QED
    BY <1>1, <1>2, <2>1
<1>12. CASE Goes(a) /\ Goes(b)
  <2>1. Rank(w) = 3 * Span + 2 /\ Rank(b) = 3 * Span + 3
    BY <1>12, Reach, RankTable DEF Goes
  <2> QED
    BY <1>1, <2>1
<1>13. CASE a.row \in Cookies /\ b.row \in Cookies /\ Place[a.row] < Place[b.row]
  <2>1. Rank(w) = 3 * Span + 4 + Place[a.row] /\ Rank(b) = 3 * Span + 4 + Place[b.row]
    BY <1>13, Reach, RankTable
  <2> QED
    BY <1>1, <1>13, <2>1 DEF Sortable
<1>14. CASE a.row \in {Account} \cup Invites /\ b.row \in Cookies
  <2>1. Rank(w) <= 3 * Span
    BY <1>1, <1>14, Reach DEF Sortable
  <2>2. 3 * Span < Rank(b)
    BY <1>1, <1>14, RankTable DEF Sortable
  <2> QED
    BY <1>1, <1>2, <2>1, <2>2
<1> QED
  BY <1>4, <1>5, <1>6, <1>7, <1>8, <1>9, <1>10, <1>11, <1>12, <1>13, <1>14

\* The transactions of which only the ranks are asked.
Plain == {"panel", "edit", "close_all"}

LEMMA UpwardFollows ==
  ASSUME NEW k, NEW a, NEW b,
         k \in Plain \/ (k = "request" /\ a.row \notin Orgs), Upward(a, b)
  PROVE  Follows(k, a, b)
  BY DEF Follows, Plain

\* Who takes what, kind by kind.
LEMMA TakeTable ==
  ASSUME NEW k, NEW l \in Lock,
         \/ /\ k \in Plain \cup {"request"}
            /\ l.row \in {Account} \cup Tokens \cup Invites \cup Invoices
         \/ k = "request" /\ l.row \in Orgs /\ l.mode = "KeyShare"
         \/ k = "edit" /\ l.row \in Orgs
         \/ k = "rename" /\ l.row \in Orgs \cup Names
         \/ k = "create" /\ l.row \in Orgs \cup Names \cup {Account} /\ l.mode # "Update"
         \/ k \in {"page", "close_all", "login"} /\ l.row \in Cookies
         \/ k = "login" /\ l.row = Account
         \/ k = "delete_account"
  PROVE  MayTake(k, l)
  BY RowsAssumption DEF MayTake, Plain, Sortable

---------------------------------------------------------------------------
(* Programs *)

\* A sequence of locks in order.
Sorted(k, p) ==
  /\ p \in Seq(Lock)
  /\ \A i, j \in DOMAIN p : i < j => Follows(k, p[i], p[j])

Uses(p, locks) == \A j \in DOMAIN p : p[j] \in locks

\* All programs of a set, and the locks they take.
AllSorted(k, programs, locks) == \A p \in programs : Sorted(k, p) /\ Uses(p, locks)

LEMMA OneSorted ==
  ASSUME NEW k, NEW x \in Rows, NEW mode \in Modes
  PROVE  AllSorted(k, One(x, mode), {At(x, mode)})
<1>1. At(x, mode) \in Lock
  BY AtLock
<1>2. One(x, mode) = {<<At(x, mode)>>}
  BY DEF One, At
<1> DEFINE lock == At(x, mode)
<1> HIDE DEF lock
<1>3. /\ <<lock>> \in Seq({lock}) /\ DOMAIN <<lock>> = {1} /\ <<lock>>[1] = lock
  OBVIOUS
<1>4. <<lock>> \in Seq(Lock)
  BY <1>1 DEF lock
<1>5. Sorted(k, <<lock>>) /\ Uses(<<lock>>, {lock})
  BY <1>3, <1>4 DEF Sorted, Uses
<1> QED
  BY <1>2, <1>5 DEF AllSorted, lock

LEMMA ThenParts ==
  ASSUME NEW first, NEW second, NEW p \in Then(first, second)
  PROVE  \E a \in first, b \in second : p = a \o b
  BY DEF Then

\* One program after another: what the second takes may follow what the
\* first takes.
LEMMA ThenSorted ==
  ASSUME NEW k, NEW first, NEW second, NEW A, NEW B,
         AllSorted(k, first, A), AllSorted(k, second, B),
         \A a \in A, b \in B : Follows(k, a, b)
  PROVE  AllSorted(k, Then(first, second), A \cup B)
<1> SUFFICES ASSUME NEW p \in Then(first, second) PROVE Sorted(k, p) /\ Uses(p, A \cup B)
  BY DEF AllSorted
<1>0. PICK a \in first, b \in second : p = a \o b
  BY ThenParts
<1>1. /\ Sorted(k, a) /\ Uses(a, A) /\ Sorted(k, b) /\ Uses(b, B)
      /\ a \in Seq(Lock) /\ b \in Seq(Lock)
  BY DEF AllSorted, Sorted
<1>2. /\ p \in Seq(Lock) /\ Len(p) = Len(a) + Len(b)
      /\ \A i \in 1..(Len(a) + Len(b)) : p[i] = IF i <= Len(a) THEN a[i] ELSE b[i - Len(a)]
  BY <1>0, <1>1, ConcatProperties
<1>3. /\ Len(a) \in Nat /\ Len(b) \in Nat
      /\ DOMAIN a = 1..Len(a) /\ DOMAIN b = 1..Len(b) /\ DOMAIN p = 1..(Len(a) + Len(b))
  BY <1>1, <1>2, LenProperties
<1>4. ASSUME NEW i \in DOMAIN p
      PROVE  \/ i \in DOMAIN a /\ p[i] = a[i] /\ p[i] \in A
             \/ i > Len(a) /\ i - Len(a) \in DOMAIN b /\ p[i] = b[i - Len(a)] /\ p[i] \in B
  <2>1. CASE i <= Len(a)
    <3>1. i \in DOMAIN a /\ p[i] = a[i]
      BY <1>2, <1>3, <2>1
    <3> QED
      BY <1>1, <3>1 DEF Uses
  <2>2. CASE ~(i <= Len(a))
    <3>1. i > Len(a) /\ i - Len(a) \in DOMAIN b /\ p[i] = b[i - Len(a)]
      BY <1>2, <1>3, <2>2
    <3> QED
      BY <1>1, <3>1 DEF Uses
  <2> QED
    BY <2>1, <2>2
<1>5. ASSUME NEW i \in DOMAIN p, NEW j \in DOMAIN p, i < j PROVE Follows(k, p[i], p[j])
  <2>0. i \in Nat /\ j \in Nat
    BY <1>3
  <2>1. CASE i \in DOMAIN a /\ p[i] = a[i] /\ j \in DOMAIN a /\ p[j] = a[j]
    BY <1>1, <1>5, <2>1 DEF Sorted
  <2>2. CASE p[i] \in A /\ p[j] \in B
    BY <2>2
  <2>3. CASE /\ i - Len(a) \in DOMAIN b /\ p[i] = b[i - Len(a)]
             /\ j - Len(a) \in DOMAIN b /\ p[j] = b[j - Len(a)]
    <3>1. i - Len(a) < j - Len(a)
      BY <1>3, <1>5, <2>0
    <3> QED
      BY <1>1, <2>3, <3>1 DEF Sorted
  <2>4. ~(i > Len(a) /\ j \in DOMAIN a)
    BY <1>3, <1>5, <2>0
  <2> QED
    BY <1>4, <2>1, <2>2, <2>3, <2>4
<1> QED
  BY <1>2, <1>4, <1>5 DEF Sorted, Uses

\* The rows of one table in the order of their primary keys.
LEMMA EachSorted ==
  ASSUME NEW k, NEW set \in SUBSET Sortable, NEW mode \in [set -> Modes],
         \A x, y \in set :
           Place[x] < Place[y] => Follows(k, At(x, mode[x]), At(y, mode[y]))
  PROVE  AllSorted(k, Each(set, mode), {At(x, mode[x]) : x \in set})
<1> SUFFICES ASSUME NEW q \in [1..Cardinality(set) -> set],
                    \A i, j \in DOMAIN q : i < j => Place[q[i]] < Place[q[j]]
             PROVE  LET p == [i \in DOMAIN q |-> At(q[i], mode[q[i]])]
                    IN  Sorted(k, p) /\ Uses(p, {At(x, mode[x]) : x \in set})
  BY DEF AllSorted, Each, At
<1> DEFINE n == Cardinality(set)
           p == [i \in DOMAIN q |-> At(q[i], mode[q[i]])]
<1>1. n \in Nat
  <2>1. set \subseteq Sortable \cup Invoices
    OBVIOUS
  <2> QED
    BY <2>1, RowsAssumption, FS_Subset, FS_CardinalityType
<1> HIDE DEF n
<1>2. DOMAIN q = 1..n /\ \A i \in 1..n : q[i] \in set
  BY DEF n
<1>3. /\ DOMAIN p = 1..n
      /\ \A i \in 1..n : p[i] = At(q[i], mode[q[i]]) /\ p[i] \in Lock
  <2> SUFFICES ASSUME NEW i \in 1..n PROVE At(q[i], mode[q[i]]) \in Lock
    BY <1>2
  <2>1. q[i] \in Rows /\ mode[q[i]] \in Modes
    BY <1>2 DEF Rows
  <2> QED
    BY <2>1, AtLock
<1> HIDE DEF p
<1>4. p \in [1..n -> Lock]
  <2>1. p = [i \in 1..n |-> p[i]]
    BY <1>2 DEF p
  <2> QED
    BY <1>3, <2>1
<1>5. p \in Seq(Lock)
  BY <1>1, <1>4, SeqDef
<1>6. ASSUME NEW i \in DOMAIN p, NEW j \in DOMAIN p, i < j PROVE Follows(k, p[i], p[j])
  <2>1. q[i] \in set /\ q[j] \in set /\ Place[q[i]] < Place[q[j]]
    BY <1>2, <1>3, <1>6
  <2>2. Follows(k, At(q[i], mode[q[i]]), At(q[j], mode[q[j]]))
    BY <2>1
  <2> QED
    BY <1>3, <2>2
<1>7. Uses(p, {At(x, mode[x]) : x \in set})
  BY <1>2, <1>3 DEF Uses
<1> QED
  BY <1>5, <1>6, <1>7 DEF Sorted, p

\* Rows deleted in any order.
LEMMA AnyOrderSorted ==
  ASSUME NEW k, NEW set \in SUBSET (Sortable \cup Invoices),
         \A x, y \in set : Follows(k, At(x, "Update"), At(y, "Update"))
  PROVE  AllSorted(k, AnyOrder(set), {At(x, "Update") : x \in set})
<1> DEFINE n == Cardinality(set)
<1> SUFFICES ASSUME NEW q \in [1..n -> set]
             PROVE  LET p == [i \in DOMAIN q |-> At(q[i], "Update")]
                    IN  Sorted(k, p) /\ Uses(p, {At(x, "Update") : x \in set})
  BY DEF AllSorted, AnyOrder, At
<1> DEFINE p == [i \in DOMAIN q |-> At(q[i], "Update")]
<1>1. n \in Nat
  BY RowsAssumption, FS_Subset, FS_CardinalityType
<1> HIDE DEF n
<1>2. DOMAIN p = 1..n /\ \A i \in 1..n : q[i] \in set /\ p[i] = At(q[i], "Update")
  OBVIOUS
<1>3. \A x \in set : At(x, "Update") \in Lock
  BY AtLock DEF Rows, Modes
<1>4. p \in [1..n -> Lock]
  BY <1>3
<1> HIDE DEF p
<1>5. p \in Seq(Lock)
  BY <1>1, <1>4, SeqDef
<1>6. \A i, j \in DOMAIN p : Follows(k, p[i], p[j])
  BY <1>2
<1> QED
  BY <1>2, <1>5, <1>6 DEF Sorted, Uses, p

\* UPDATEs of some rows of one table.
LEMMA WritesSorted ==
  ASSUME NEW k, k \in Plain \cup {"create", "rename"},
         NEW set, \/ set \subseteq Tokens \/ set \subseteq Orgs
                  \/ set \subseteq Invites \/ set \subseteq Cookies
  PROVE  AllSorted(k, Writes(set), {At(x, "NoKeyUpdate") : x \in set})
<1> DEFINE mode == [x \in set |-> "NoKeyUpdate"]
<1>1. set \in SUBSET Sortable /\ mode \in [set -> Modes]
  BY DEF Sortable, Modes
<1>2. \A x \in set : mode[x] = "NoKeyUpdate"
  OBVIOUS
<1>3. ASSUME NEW x \in set, NEW y \in set, Place[x] < Place[y]
      PROVE  Follows(k, At(x, mode[x]), At(y, mode[y]))
  <2>1. /\ At(x, mode[x]) \in Lock /\ At(x, mode[x]).row = x
        /\ At(x, mode[x]).mode = "NoKeyUpdate"
        /\ At(y, mode[y]) \in Lock /\ At(y, mode[y]).row = y
    BY <1>1, <1>2, AtLock DEF Rows
  <2>2. Upward(At(x, mode[x]), At(y, mode[y]))
    BY <1>3, <2>1, UpwardTable
  <2>3. x # Account
    BY <1>1, RowsAssumption
  <2> QED
    BY <2>1, <2>2, <2>3 DEF Follows, Plain, Ordered
<1>4. AllSorted(k, Each(set, mode), {At(x, mode[x]) : x \in set})
  <2> HIDE DEF mode
  <2> QED
    BY <1>1, <1>3, EachSorted
<1>5. {At(x, mode[x]) : x \in set} = {At(x, "NoKeyUpdate") : x \in set}
  BY <1>2
<1> QED
  BY <1>4, <1>5 DEF Writes

---------------------------------------------------------------------------
(* The programs *)

\* The locks of a kind of transaction, but those of invoices that go.
Locks(k) == {l \in Lock : MayTake(k, l) /\ ~Goes(l)}

LEMMA Widen ==
  ASSUME NEW k, NEW programs, NEW A, NEW B, AllSorted(k, programs, A), A \subseteq B
  PROVE  AllSorted(k, programs, B)
  BY DEF AllSorted, Uses

LEMMA RowKinds ==
  /\ Account \in Rows /\ Tokens \subseteq Rows /\ Orgs \subseteq Rows
  /\ Invites \subseteq Rows /\ Invoices \subseteq Rows /\ Cookies \subseteq Rows
  /\ Names \subseteq Rows
  /\ Account \notin Invoices
  /\ \A x \in Tokens \cup Orgs \cup Invites \cup Cookies \cup Names :
       x \notin Invoices /\ x # Account
  /\ {"KeyShare", "NoKeyUpdate", "Update", "Entry"} = Modes
  BY RowsAssumption DEF Rows, Sortable, Modes

\* One lock that a kind of transaction takes, with its row and mode.
LEMMA AtOwn ==
  ASSUME NEW k, NEW x \in Rows, NEW mode \in Modes, x \notin Invoices \/ mode # "Update",
         \/ /\ k \in Plain \cup {"request"}
            /\ x \in {Account} \cup Tokens \cup Invites \cup Invoices
         \/ k = "request" /\ x \in Orgs /\ mode = "KeyShare"
         \/ k = "edit" /\ x \in Orgs
         \/ k = "rename" /\ x \in Orgs \cup Names
         \/ k = "create" /\ x \in Orgs \cup Names \cup {Account} /\ mode # "Update"
         \/ k \in {"page", "close_all", "login"} /\ x \in Cookies
         \/ k = "login" /\ x = Account
  PROVE  /\ At(x, mode) \in Locks(k) /\ At(x, mode) \in Lock
         /\ At(x, mode).row = x /\ At(x, mode).mode = mode
<1>1. At(x, mode) \in Lock /\ At(x, mode).row = x /\ At(x, mode).mode = mode
  BY AtLock
<1>2. MayTake(k, At(x, mode))
  BY <1>1, TakeTable
<1> QED
  BY <1>1, <1>2 DEF Locks, Goes

\* One lock is a program of its kind.
LEMMA SingleSorted ==
  ASSUME NEW k, NEW x \in Rows, NEW mode \in Modes, At(x, mode) \in Locks(k)
  PROVE  AllSorted(k, One(x, mode), Locks(k))
<1>1. AllSorted(k, One(x, mode), {At(x, mode)})
  BY OneSorted
<1>2. {At(x, mode)} \subseteq Locks(k)
  OBVIOUS
<1> QED
  BY <1>1, <1>2, Widen

\* UPDATEs of rows that a kind of transaction takes.
LEMMA WritesOwn ==
  ASSUME NEW k, NEW set,
         \/ k \in Plain /\ (set \subseteq Tokens \/ set \subseteq Invites)
         \/ k \in {"edit", "create", "rename"} /\ set \subseteq Orgs
         \/ k = "close_all" /\ set \subseteq Cookies
  PROVE  /\ AllSorted(k, Writes(set), {At(x, "NoKeyUpdate") : x \in set})
         /\ AllSorted(k, Writes(set), Locks(k))
         /\ \A a \in {At(x, "NoKeyUpdate") : x \in set} :
              a \in Locks(k) /\ a \in Lock /\ a.row \in set /\ a.mode = "NoKeyUpdate"
<1>1. k \in Plain \cup {"create", "rename"}
  BY DEF Plain
<1>2. AllSorted(k, Writes(set), {At(x, "NoKeyUpdate") : x \in set})
  BY <1>1, WritesSorted
<1>3. ASSUME NEW x \in set
      PROVE  /\ At(x, "NoKeyUpdate") \in Locks(k) /\ At(x, "NoKeyUpdate") \in Lock
             /\ At(x, "NoKeyUpdate").row = x /\ At(x, "NoKeyUpdate").mode = "NoKeyUpdate"
  <2>1. x \in Rows /\ x \notin Invoices /\ "NoKeyUpdate" \in Modes
    BY RowKinds
  <2>2. \/ k \in Plain \cup {"request"} /\ x \in {Account} \cup Tokens \cup Invites \cup Invoices
        \/ k = "edit" /\ x \in Orgs
        \/ k = "rename" /\ x \in Orgs \cup Names
        \/ k = "create" /\ x \in Orgs \cup Names \cup {Account}
        \/ k \in {"page", "close_all", "login"} /\ x \in Cookies
    OBVIOUS
  <2> QED
    BY <2>1, <2>2, AtOwn
<1>4. {At(x, "NoKeyUpdate") : x \in set} \subseteq Locks(k)
  BY <1>3
<1> QED
  BY <1>2, <1>3, <1>4, Widen

\* The mark of the key comes first.
LEMMA RequestSorted ==
  ASSUME NEW body, NEW B \in SUBSET Locks("request"), AllSorted("request", body, B),
         \A b \in B : b.row \in {Account} \cup Orgs \cup Invoices
  PROVE  AllSorted("request", Request(body), Locks("request"))
<1>1. AllSorted("request", body, Locks("request"))
  BY Widen
<1>2. ASSUME NEW t \in Tokens
      PROVE  AllSorted("request", Then(One(t, "NoKeyUpdate"), body), Locks("request"))
  <2> DEFINE mark == At(t, "NoKeyUpdate")
  <2>1. mark \in Locks("request") /\ mark \in Lock /\ mark.row = t /\ t \notin Orgs
    <3>1. t \notin Orgs
      BY RowsAssumption
    <3> QED
      BY <3>1, RowKinds, AtOwn
  <2>2. AllSorted("request", One(t, "NoKeyUpdate"), {mark})
    BY RowKinds, OneSorted
  <2> HIDE DEF mark
  <2>3. \A a \in {mark}, b \in B : Follows("request", a, b)
    BY <2>1, UpwardTable, UpwardFollows DEF Locks
  <2>4. AllSorted("request", Then(One(t, "NoKeyUpdate"), body), {mark} \cup B)
    BY <2>2, <2>3, ThenSorted
  <2>5. {mark} \cup B \subseteq Locks("request")
    BY <2>1
  <2> QED
    BY <2>4, <2>5, Widen
<1> QED
  BY <1>1, <1>2 DEF Request, AllSorted

LEMMA HitSorted == AllSorted("request", Hit, Locks("request"))
<1>1. ASSUME NEW i \in Invoices
      PROVE  AllSorted("request", Request(One(i, "NoKeyUpdate")), Locks("request"))
  <2>1. At(i, "NoKeyUpdate") \in Locks("request") /\ At(i, "NoKeyUpdate").row = i
    BY RowKinds, AtOwn
  <2>2. AllSorted("request", One(i, "NoKeyUpdate"), {At(i, "NoKeyUpdate")})
    BY RowKinds, OneSorted
  <2> QED
    BY <2>1, <2>2, RequestSorted
<1> QED
  BY <1>1 DEF Hit, AllSorted

\* The account in Update, then one row that a request may need after it.
LEMMA AfterAccount ==
  ASSUME NEW x, NEW mode,
         \/ x \in Orgs /\ mode = "KeyShare"
         \/ x \in Invoices /\ mode = "NoKeyUpdate"
  PROVE  AllSorted("request", Request(Then(One(Account, "Update"), One(x, mode))),
                   Locks("request"))
<1> DEFINE a == At(Account, "Update")
           b == At(x, mode)
<1>1. /\ a \in Locks("request") /\ a \in Lock /\ a.row = Account
      /\ b \in Locks("request") /\ b \in Lock /\ b.row = x /\ b.mode = mode
      /\ Account \notin Orgs
  BY RowKinds, AtOwn
<1>2. AllSorted("request", One(Account, "Update"), {a}) /\ AllSorted("request", One(x, mode), {b})
  BY RowKinds, OneSorted
<1> HIDE DEF a, b
<1>3. Follows("request", a, b)
  BY <1>1, UpwardTable, UpwardFollows
<1>4. AllSorted("request", Then(One(Account, "Update"), One(x, mode)), {a} \cup {b})
  BY <1>2, <1>3, ThenSorted
<1>5. /\ {a} \cup {b} \subseteq Locks("request")
      /\ \A c \in {a} \cup {b} : c.row \in {Account} \cup Orgs \cup Invoices
  BY <1>1
<1> QED
  BY <1>4, <1>5, RequestSorted

LEMMA InvoiceSorted ==
  /\ AllSorted("request", NewInvoice, Locks("request"))
  /\ AllSorted("request", RenewInvoice, Locks("request"))
  BY AfterAccount DEF NewInvoice, RenewInvoice, AllSorted

\* The account in one mode.
LEMMA AccountSorted ==
  ASSUME NEW k \in Plain, NEW mode \in Modes
  PROVE  AllSorted(k, One(Account, mode), Locks(k))
  BY RowKinds, AtOwn, SingleSorted

\* Links and then a reference to the account.
LEMMA IssueSorted == AllSorted("panel", IssueInvite, Locks("panel"))
<1> SUFFICES ASSUME NEW set \in SUBSET Invites
             PROVE  AllSorted("panel", Then(Writes(set), One(Account, "KeyShare")), Locks("panel"))
  BY DEF IssueInvite, AllSorted
<1> DEFINE b == At(Account, "KeyShare")
           A == {At(x, "NoKeyUpdate") : x \in set}
<1>0. "panel" \in Plain
  BY DEF Plain
<1>1. b \in Locks("panel") /\ b \in Lock /\ b.row = Account /\ b.mode = "KeyShare"
  BY <1>0, RowKinds, AtOwn
<1>2. AllSorted("panel", Writes(set), A) /\ \A a \in A : a \in Locks("panel") /\ a \in Lock /\ a.row \in set
  BY <1>0, WritesOwn
<1>3. AllSorted("panel", One(Account, "KeyShare"), {b})
  BY RowKinds, OneSorted
<1> HIDE DEF b, A
<1>4. \A a \in A, c \in {b} : Follows("panel", a, c)
  BY <1>0, <1>1, <1>2, UpwardTable, UpwardFollows
<1>5. AllSorted("panel", Then(Writes(set), One(Account, "KeyShare")), A \cup {b})
  BY <1>2, <1>3, <1>4, ThenSorted
<1>6. A \cup {b} \subseteq Locks("panel")
  BY <1>1, <1>2
<1> QED
  BY <1>5, <1>6, Widen

\* The locks of one link, and the account with it.
LinkLocks == {At(l, "NoKeyUpdate") : l \in Invites}
WithLink == {At(Account, "NoKeyUpdate")} \cup LinkLocks

LEMMA LinkParts ==
  ASSUME NEW k \in Plain
  PROVE  /\ \A a \in WithLink : a \in Locks(k) /\ a \in Lock /\ a.row \in {Account} \cup Invites
         /\ AllSorted(k, MarkInvite, LinkLocks)
         /\ AllSorted(k, Then(One(Account, "NoKeyUpdate"), MarkInvite), WithLink)
<1> DEFINE a == At(Account, "NoKeyUpdate")
<1>1. a \in Locks(k) /\ a \in Lock /\ a.row = Account /\ a.mode = "NoKeyUpdate"
  BY RowKinds, AtOwn
<1>2. \A l \in Invites : /\ At(l, "NoKeyUpdate") \in Locks(k) /\ At(l, "NoKeyUpdate") \in Lock
                         /\ At(l, "NoKeyUpdate").row = l
  BY RowKinds, AtOwn
<1>3. AllSorted(k, One(Account, "NoKeyUpdate"), {a})
  BY RowKinds, OneSorted
<1>4. AllSorted(k, MarkInvite, LinkLocks)
  <2>1. \A l \in Invites : AllSorted(k, One(l, "NoKeyUpdate"), {At(l, "NoKeyUpdate")})
    BY RowKinds, OneSorted
  <2>2. \A l \in Invites : AllSorted(k, One(l, "NoKeyUpdate"), LinkLocks)
    <3>1. \A l \in Invites : {At(l, "NoKeyUpdate")} \subseteq LinkLocks
      BY DEF LinkLocks
    <3> QED
      BY <2>1, <3>1, Widen, Zenon
  <2> QED
    BY <2>2 DEF MarkInvite, AllSorted
<1>5. WithLink = {a} \cup LinkLocks
  BY DEF WithLink
<1>6. \A b \in LinkLocks : b \in Locks(k) /\ b \in Lock /\ b.row \in Invites
  BY <1>2 DEF LinkLocks
<1> HIDE DEF a
<1>7. \A c \in {a}, b \in LinkLocks : Follows(k, c, b)
  BY <1>1, <1>6, UpwardTable, UpwardFollows
<1> QED
  BY <1>1, <1>3, <1>4, <1>5, <1>6, <1>7, ThenSorted

LEMMA PanelSorted ==
  ASSUME NEW p \in Programs["panel"]
  PROVE  Sorted("panel", p) /\ Uses(p, Locks("panel"))
<1>0. "panel" \in Plain
  BY DEF Plain
<1>1. /\ AllSorted("panel", BalanceCommand, Locks("panel"))
      /\ AllSorted("panel", SaveAccount, Locks("panel"))
      /\ AllSorted("panel", IssueToken, Locks("panel"))
  BY <1>0, RowKinds, AccountSorted DEF BalanceCommand, SaveAccount, IssueToken
<1>2. AllSorted("panel", RevokeToken, Locks("panel"))
  BY <1>0, WritesOwn DEF RevokeToken, AllSorted
<1>3. AllSorted("panel", ConfirmEmail, Locks("panel"))
  <2>1. /\ AllSorted("panel", MarkInvite, LinkLocks)
        /\ AllSorted("panel", Then(One(Account, "NoKeyUpdate"), MarkInvite), WithLink)
        /\ LinkLocks \subseteq Locks("panel") /\ WithLink \subseteq Locks("panel")
    BY <1>0, LinkParts DEF WithLink
  <2>2. /\ AllSorted("panel", MarkInvite, Locks("panel"))
        /\ AllSorted("panel", Then(One(Account, "NoKeyUpdate"), MarkInvite), Locks("panel"))
    BY <2>1, Widen
  <2> QED
    BY <2>2 DEF ConfirmEmail, AllSorted
<1>4. p \in BalanceCommand \cup SaveAccount \cup IssueToken \cup RevokeToken
             \cup IssueInvite \cup ConfirmEmail
  BY DEF Programs
<1> QED
  BY <1>1, <1>2, <1>3, <1>4, IssueSorted DEF AllSorted

\* All sessions of the cabinet, alone or after the account and its link.
LEMMA CloseSorted ==
  ASSUME NEW p \in Programs["close_all"]
  PROVE  Sorted("close_all", p) /\ Uses(p, Locks("close_all"))
<1>0. "close_all" \in Plain
  BY DEF Plain
<1> DEFINE ends(set) == {At(c, "NoKeyUpdate") : c \in set}
           all == ends(Cookies)
<1>1. /\ \A set \in SUBSET Cookies : AllSorted("close_all", Writes(set), ends(set))
      /\ \A a \in all : a \in Locks("close_all") /\ a \in Lock /\ a.row \in Cookies
  BY WritesOwn
<1>2. \A set \in SUBSET Cookies : ends(set) \subseteq all
  OBVIOUS
<1> HIDE DEF ends
<1>3. \A set \in SUBSET Cookies : AllSorted("close_all", Writes(set), all)
  BY <1>1, <1>2, Widen
<1>4. AllSorted("close_all", CloseAll, all)
  BY <1>3 DEF CloseAll, AllSorted
<1> HIDE DEF all
<1>5. /\ AllSorted("close_all", Then(One(Account, "NoKeyUpdate"), MarkInvite), WithLink)
      /\ \A a \in WithLink : a \in Locks("close_all") /\ a \in Lock /\ a.row \in {Account} \cup Invites
  BY <1>0, LinkParts
<1>6. \A a \in WithLink, b \in all : Follows("close_all", a, b)
  BY <1>0, <1>1, <1>5, UpwardTable, UpwardFollows
<1>7. AllSorted("close_all", SetPassword, WithLink \cup all)
  BY <1>4, <1>5, <1>6, ThenSorted DEF SetPassword
<1>8. WithLink \cup all \subseteq Locks("close_all") /\ all \subseteq Locks("close_all")
  BY <1>1, <1>5
<1>9. AllSorted("close_all", SetPassword, Locks("close_all")) /\ AllSorted("close_all", CloseAll, Locks("close_all"))
  BY <1>4, <1>7, <1>8, Widen
<1>10. p \in CloseAll \cup SetPassword
  BY DEF Programs
<1> QED
  BY <1>9, <1>10 DEF AllSorted

---------------------------------------------------------------------------
(* The deletion of an organisation *)

\* An invoice goes after its organisation in a program.
UnderFirst(p) ==
  \A j \in DOMAIN p : Goes(p[j]) =>
    \E i \in DOMAIN p : i < j /\ p[i] = OrgGone(p[j])

LEMMA OwnUnder ==
  ASSUME NEW k, NEW p, Uses(p, Locks(k))
  PROVE  UnderFirst(p) /\ \A j \in DOMAIN p : MayTake(k, p[j])
  BY DEF Uses, Locks, UnderFirst

\* The invoices of one organisation.
GoneOf(o) == {At(i, "Update") : i \in {j \in Invoices : OrgOf[j] \in {o}}}

LEMMA GoneParts ==
  ASSUME NEW o \in Orgs, NEW l \in GoneOf(o)
  PROVE  l \in Lock /\ Goes(l) /\ OrgGone(l) = At(o, "Update") /\ MayTake("edit", l)
<1>1. PICK i \in Invoices : OrgOf[i] = o /\ l = At(i, "Update")
  BY DEF GoneOf
<1>2. l \in Lock /\ l.row = i /\ l.mode = "Update"
  BY <1>1, RowKinds, AtLock
<1>3. MayTake("edit", l)
  BY <1>2, TakeTable DEF Plain
<1> QED
  BY <1>1, <1>2, <1>3 DEF Goes, OrgGone, At

LEMMA GoneSorted ==
  ASSUME NEW o \in Orgs
  PROVE  AllSorted("edit", InvoicesGone({o}), GoneOf(o))
<1> DEFINE gone == {i \in Invoices : OrgOf[i] \in {o}}
<1>1. gone \in SUBSET (Sortable \cup Invoices)
  OBVIOUS
<1>2. ASSUME NEW x \in gone, NEW y \in gone
      PROVE  Follows("edit", At(x, "Update"), At(y, "Update"))
  <2>1. At(x, "Update") \in GoneOf(o) /\ At(y, "Update") \in GoneOf(o)
    BY DEF GoneOf
  <2>2. Upward(At(x, "Update"), At(y, "Update"))
    BY <2>1, GoneParts, UpwardTable
  <2> QED
    BY <2>2, UpwardFollows DEF Plain
<1>3. InvoicesGone({o}) = AnyOrder(gone) /\ GoneOf(o) = {At(x, "Update") : x \in gone}
  BY DEF InvoicesGone, GoneOf
<1> HIDE DEF gone
<1> QED
  BY <1>1, <1>2, <1>3, AnyOrderSorted

LEMMA DeleteSorted ==
  ASSUME NEW p \in DeleteOrganization
  PROVE  Sorted("edit", p) /\ UnderFirst(p) /\ \A j \in DOMAIN p : MayTake("edit", p[j])
<1> PICK o \in Orgs : p \in Then(One(o, "Update"), InvoicesGone({o}))
  BY DEF DeleteOrganization
<1> DEFINE a == At(o, "Update")
<1>1. a \in Lock /\ a.row = o /\ ~Goes(a) /\ MayTake("edit", a)
  BY RowKinds, AtOwn DEF Goes, Locks
<1>2. AllSorted("edit", One(o, "Update"), {a}) /\ AllSorted("edit", InvoicesGone({o}), GoneOf(o))
  BY RowKinds, OneSorted, GoneSorted
<1> HIDE DEF a
<1>3. \A c \in {a}, b \in GoneOf(o) : Follows("edit", c, b)
  <2> SUFFICES ASSUME NEW b \in GoneOf(o) PROVE Follows("edit", a, b)
    OBVIOUS
  <2>1. Upward(a, b)
    BY <1>1, GoneParts, UpwardTable DEF Goes
  <2> QED
    BY <2>1, UpwardFollows DEF Plain
<1>4. Sorted("edit", p) /\ Uses(p, {a} \cup GoneOf(o))
  BY <1>2, <1>3, ThenSorted DEF AllSorted
<1>5. PICK q \in InvoicesGone({o}) : p = <<a>> \o q
  <2>1. One(o, "Update") = {<<a>>}
    BY DEF One, a, At
  <2>2. PICK first \in One(o, "Update"), q \in InvoicesGone({o}) : p = first \o q
    BY ThenParts
  <2> QED
    BY <2>1, <2>2
<1>6. q \in Seq(Lock) /\ <<a>> \in Seq(Lock)
  <2>1. q \in Seq(Lock)
    BY <1>2 DEF AllSorted, Sorted
  <2>2. <<a>> \in Seq(Lock)
    BY <1>1
  <2> QED
    BY <2>1, <2>2
<1>7. /\ p \in Seq(Lock) /\ Len(p) = 1 + Len(q) /\ Len(q) \in Nat
      /\ p[1] = a
  BY <1>5, <1>6, ConcatProperties, LenProperties
<1>8. DOMAIN p = 1..(1 + Len(q)) /\ 1 \in DOMAIN p
  BY <1>7, LenProperties
<1>9. UnderFirst(p)
  <2> SUFFICES ASSUME NEW j \in DOMAIN p, Goes(p[j])
               PROVE  \E i \in DOMAIN p : i < j /\ p[i] = OrgGone(p[j])
    BY DEF UnderFirst
  <2>1. p[j] \in GoneOf(o)
    BY <1>1, <1>4 DEF Uses
  <2>2. OrgGone(p[j]) = a
    BY <2>1, GoneParts DEF a
  <2>3. j # 1
    BY <1>1, <1>7
  <2>4. 1 < j
    BY <1>7, <1>8, <2>3
  <2> QED
    BY <1>7, <1>8, <2>2, <2>4
<1>10. \A j \in DOMAIN p : MayTake("edit", p[j])
  BY <1>1, <1>4, GoneParts DEF Uses
<1> QED
  BY <1>4, <1>9, <1>10

LEMMA EditSorted ==
  ASSUME NEW p \in EditOrganization
  PROVE  Sorted("edit", p) /\ Uses(p, Locks("edit"))
<1> DEFINE edit(o, cleared) == Writes({o} \cup cleared)
<1>0. EditOrganization = UNION {edit(o, cleared) : o \in Orgs, cleared \in SUBSET Orgs}
  BY DEF EditOrganization
<1> HIDE DEF edit
<1>1. PICK o \in Orgs, cleared \in SUBSET Orgs : p \in edit(o, cleared)
  BY <1>0
<1>2. {o} \cup cleared \subseteq Orgs
  OBVIOUS
<1>3. AllSorted("edit", edit(o, cleared), Locks("edit"))
  BY <1>2, WritesOwn DEF edit
<1> QED
  BY <1>1, <1>3 DEF AllSorted

---------------------------------------------------------------------------
(* Aliases, sessions of the cabinet and the deletion of an account *)

\* A set of programs with locks that a kind takes, one after another of it.
LEMMA OwnThen ==
  ASSUME NEW k, NEW first, NEW second, NEW A \in SUBSET Locks(k),
         AllSorted(k, first, A), AllSorted(k, second, Locks(k)),
         \/ k = "rename"
         \/ k \in {"create", "login"} /\ \A a \in A : a.row # Account
  PROVE  AllSorted(k, Then(first, second), Locks(k))
<1>1. \A a \in A, b \in Locks(k) : Follows(k, a, b)
  BY DEF Follows, Ordered
<1>2. AllSorted(k, Then(first, second), A \cup Locks(k))
  BY <1>1, ThenSorted
<1> QED
  BY <1>2, Widen

LEMMA EntrySorted ==
  ASSUME NEW k \in {"create", "rename"}, NEW orgs \in SUBSET Orgs
  PROVE  AllSorted(k, TakeName(orgs), {l \in Locks(k) : l.row # Account})
<1> DEFINE A == {l \in Locks(k) : l.row # Account}
<1>1. ASSUME NEW x \in Names \cup orgs PROVE AllSorted(k, One(x, "Entry"), A)
  <2>1. At(x, "Entry") \in Locks(k) /\ At(x, "Entry").row = x /\ x # Account
    BY RowKinds, AtOwn
  <2>2. AllSorted(k, One(x, "Entry"), {At(x, "Entry")})
    BY RowKinds, OneSorted
  <2>3. {At(x, "Entry")} \subseteq A
    BY <2>1
  <2> HIDE DEF A
  <2> QED
    BY <2>2, <2>3, Widen
<1> HIDE DEF A
<1>2. AllSorted(k, TakeName(orgs), A)
  BY <1>1 DEF TakeName, AllSorted
<1> QED
  BY <1>2 DEF A

LEMMA CreateSorted ==
  ASSUME NEW p \in CreateOrganization
  PROVE  Sorted("create", p) /\ Uses(p, Locks("create"))
<1> PICK cleared \in SUBSET Orgs :
      p \in Then(Writes(cleared), Then(TakeName(Orgs), One(Account, "KeyShare")))
  BY DEF CreateOrganization
<1>1. AllSorted("create", One(Account, "KeyShare"), Locks("create"))
  BY RowKinds, AtOwn, SingleSorted
<1>2. AllSorted("create", Then(TakeName(Orgs), One(Account, "KeyShare")), Locks("create"))
  <2> DEFINE A == {l \in Locks("create") : l.row # Account}
  <2>1. A \in SUBSET Locks("create") /\ \A a \in A : a.row # Account
    OBVIOUS
  <2>2. AllSorted("create", TakeName(Orgs), A)
    BY EntrySorted
  <2> HIDE DEF A
  <2> QED
    BY <1>1, <2>1, <2>2, OwnThen
<1>3. AllSorted("create", Then(Writes(cleared), Then(TakeName(Orgs), One(Account, "KeyShare"))),
                Locks("create"))
  <2> DEFINE A == {At(x, "NoKeyUpdate") : x \in cleared}
  <2>1. AllSorted("create", Writes(cleared), A) /\ \A a \in A : a \in Locks("create") /\ a.row \in cleared
    BY WritesOwn
  <2> HIDE DEF A
  <2>2. \A a \in A : a.row # Account
    BY <2>1, RowKinds
  <2> QED
    BY <1>2, <2>1, <2>2, OwnThen
<1> QED
  BY <1>3 DEF AllSorted

LEMMA RenameSorted ==
  ASSUME NEW p \in RenameOrganization
  PROVE  Sorted("rename", p) /\ Uses(p, Locks("rename"))
<1> PICK o \in Orgs, cleared \in SUBSET Orgs : p \in RenameFlush(o, cleared)
  BY DEF RenameOrganization
<1> DEFINE before == Writes({q \in cleared : Place[q] < Place[o]})
           after == Writes({q \in cleared : Place[q] > Place[o]})
           row == One(o, "Update")
           entry == TakeName(Orgs \ {o})
<1>1. AllSorted("rename", before, Locks("rename")) /\ AllSorted("rename", after, Locks("rename"))
  BY WritesOwn
<1>2. AllSorted("rename", row, Locks("rename"))
  BY RowKinds, AtOwn, SingleSorted
<1>3. AllSorted("rename", entry, Locks("rename"))
  <2>1. AllSorted("rename", entry, {l \in Locks("rename") : l.row # Account})
    BY EntrySorted
  <2> HIDE DEF entry
  <2> QED
    BY <2>1, Widen
<1>4. p \in Then(before, Then(Then(row, entry), after))
  BY DEF RenameFlush
<1> HIDE DEF before, after, row, entry
<1>5. AllSorted("rename", Then(row, entry), Locks("rename"))
  BY <1>2, <1>3, OwnThen
<1>6. AllSorted("rename", Then(Then(row, entry), after), Locks("rename"))
  BY <1>1, <1>5, OwnThen
<1>7. AllSorted("rename", Then(before, Then(Then(row, entry), after)), Locks("rename"))
  BY <1>1, <1>6, OwnThen
<1> QED
  BY <1>4, <1>7 DEF AllSorted

LEMMA PageSorted ==
  ASSUME NEW p \in Programs["page"]
  PROVE  Sorted("page", p) /\ Uses(p, Locks("page"))
<1>1. \A c \in Cookies : AllSorted("page", One(c, "NoKeyUpdate"), Locks("page"))
  BY RowKinds, AtOwn, SingleSorted
<1> QED
  BY <1>1 DEF Programs, MarkSession, AllSorted

LEMMA LoginSorted ==
  ASSUME NEW p \in Programs["login"]
  PROVE  Sorted("login", p) /\ Uses(p, Locks("login"))
<1> DEFINE mark == One(Account, "NoKeyUpdate") \cup One(Account, "KeyShare")
<1> PICK set \in SUBSET Cookies : p \in Then(AnyOrder(set), mark)
  BY DEF Programs, OpenSession
<1>1. AllSorted("login", mark, Locks("login"))
  <2>1. /\ AllSorted("login", One(Account, "NoKeyUpdate"), Locks("login"))
        /\ AllSorted("login", One(Account, "KeyShare"), Locks("login"))
    BY RowKinds, AtOwn, SingleSorted
  <2> QED
    BY <2>1 DEF AllSorted
<1> HIDE DEF mark
<1> DEFINE A == {At(x, "Update") : x \in set}
<1>2. \A x \in set : /\ At(x, "Update") \in Locks("login") /\ At(x, "Update").row = x
                     /\ x # Account
  BY RowKinds, AtOwn
<1>3. AllSorted("login", AnyOrder(set), A)
  <2>1. set \in SUBSET (Sortable \cup Invoices)
    BY DEF Sortable
  <2>2. \A x, y \in set : Follows("login", At(x, "Update"), At(y, "Update"))
    BY <1>2 DEF Follows, Ordered
  <2> QED
    BY <2>1, <2>2, AnyOrderSorted
<1>4. A \in SUBSET Locks("login") /\ \A a \in A : a.row # Account
  BY <1>2
<1> HIDE DEF A
<1>5. AllSorted("login", Then(AnyOrder(set), mark), Locks("login"))
  BY <1>1, <1>3, <1>4, OwnThen
<1> QED
  BY <1>5 DEF AllSorted

\* Of the deletion of an account only the types matter.
LEMMA Anything == \A a, b : Follows("delete_account", a, b)
  BY DEF Follows, Ordered

LEMMA GoingSorted ==
  ASSUME NEW set \in SUBSET (Sortable \cup Invoices)
  PROVE  AllSorted("delete_account", AnyOrder(set), Lock)
<1>1. AllSorted("delete_account", AnyOrder(set), {At(x, "Update") : x \in set})
  BY Anything, AnyOrderSorted
<1>2. {At(x, "Update") : x \in set} \subseteq Lock
  BY AtLock DEF Rows, Modes
<1> QED
  BY <1>1, <1>2, Widen

LEMMA DeletesTyped ==
  ASSUME NEW set \in SUBSET Sortable
  PROVE  AllSorted("delete_account", Deletes(set), Lock)
<1> DEFINE mode == [x \in set |-> "Update"]
<1>1. mode \in [set -> Modes]
  BY DEF Modes
<1> HIDE DEF mode
<1>2. \A x \in set : At(x, mode[x]) \in Lock
  BY <1>1, AtLock DEF Rows
<1>3. AllSorted("delete_account", Each(set, mode), {At(x, mode[x]) : x \in set})
  BY <1>1, Anything, EachSorted
<1>4. {At(x, mode[x]) : x \in set} \subseteq Lock
  BY <1>2
<1>5. AllSorted("delete_account", Each(set, mode), Lock)
  BY <1>3, <1>4, Widen
<1> QED
  BY <1>5 DEF Deletes, mode

LEMMA ThenTyped ==
  ASSUME NEW first, NEW second, AllSorted("delete_account", first, Lock),
         AllSorted("delete_account", second, Lock)
  PROVE  AllSorted("delete_account", Then(first, second), Lock)
<1>1. \A a \in Lock, b \in Lock : Follows("delete_account", a, b)
  BY Anything
<1>2. AllSorted("delete_account", Then(first, second), Lock \cup Lock)
  BY <1>1, ThenSorted
<1> QED
  BY <1>2, Widen

LEMMA AccountGoneSorted ==
  ASSUME NEW p \in Programs["delete_account"]
  PROVE  Sorted("delete_account", p)
<1> DEFINE All(programs) == AllSorted("delete_account", programs, Lock)
           links == AnyOrder(Invites)
           cookies == AnyOrder(Cookies)
           keys == Deletes(Tokens)
<1>1. All(keys) /\ All(Deletes(Orgs))
  BY DeletesTyped DEF Sortable
<1>2. All(links) /\ All(cookies) /\ All(InvoicesGone(Orgs))
  BY GoingSorted DEF Sortable, InvoicesGone
<1>3. All(One(Account, "Update"))
  <2>1. At(Account, "Update") \in Lock /\ "Update" \in Modes
    BY RowKinds, AtLock
  <2>2. AllSorted("delete_account", One(Account, "Update"), {At(Account, "Update")})
    BY RowKinds, OneSorted
  <2> QED
    BY <2>1, <2>2, Widen
<1> HIDE DEF links, cookies, keys
<1>4. All(OrgsGone)
  BY <1>1, <1>2, ThenTyped DEF OrgsGone
<1>5. All(Then(keys, OrgsGone)) /\ All(Then(OrgsGone, keys))
  BY <1>1, <1>4, ThenTyped
<1>6. All(Then(links, cookies)) /\ All(Then(cookies, links))
  BY <1>2, ThenTyped
<1> DEFINE first == Then(keys, OrgsGone) \cup Then(OrgsGone, keys)
           rest == Then(links, cookies) \cup Then(cookies, links)
<1>7. All(first) /\ All(rest)
  BY <1>5, <1>6 DEF AllSorted
<1>8. DeleteAccount = Then(first, Then(One(Account, "Update"), rest))
  BY DEF DeleteAccount, links, cookies, keys
<1> HIDE DEF first, rest
<1>9. All(DeleteAccount)
  BY <1>3, <1>7, <1>8, ThenTyped
<1> QED
  BY <1>9 DEF Programs, AllSorted

\* Every transaction takes what its kind takes, in the order of its kind.
LEMMA ProgramsInOrder ==
  ASSUME NEW k \in Kinds, NEW p \in Programs[k]
  PROVE  /\ Sorted(k, p)
         /\ k \in Ordered => UnderFirst(p)
         /\ \A j \in DOMAIN p : MayTake(k, p[j])
<1>1. CASE k = "request"
  <2>1. p \in Hit \cup NewInvoice \cup RenewInvoice
    BY <1>1 DEF Programs
  <2> QED
    BY <1>1, <2>1, HitSorted, InvoiceSorted, OwnUnder DEF AllSorted
<1>2. CASE k = "edit"
  <2>1. p \in EditOrganization \cup DeleteOrganization
    BY <1>2 DEF Programs
  <2> QED
    BY <1>2, <2>1, EditSorted, DeleteSorted, OwnUnder
<1>3. CASE k = "create"
  <2>1. p \in CreateOrganization
    BY <1>3 DEF Programs
  <2> QED
    BY <1>3, <2>1, CreateSorted, OwnUnder
<1>4. CASE k = "rename"
  <2>1. p \in RenameOrganization
    BY <1>4 DEF Programs
  <2> QED
    BY <1>4, <2>1, RenameSorted, OwnUnder
<1>5. CASE k = "delete_account"
  <2>1. \A l : MayTake(k, l)
    BY <1>5 DEF MayTake
  <2> QED
    BY <1>5, <2>1, AccountGoneSorted DEF Ordered
<1>6. CASE k \in {"panel", "close_all", "page", "login"}
  BY <1>6, PanelSorted, CloseSorted, PageSorted, LoginSorted, OwnUnder
<1> QED
  BY <1>1, <1>2, <1>3, <1>4, <1>5, <1>6 DEF Kinds

---------------------------------------------------------------------------
(* The steps *)

LEMMA Symmetric ==
  ASSUME NEW a \in Lock, NEW b \in Lock
  PROVE  Exclude(a, b) <=> Exclude(b, a)
  BY DEF Exclude, Collide, Conflict

LEMMA LockInit == Init => LockInv
<1> SUFFICES ASSUME Init PROVE LockInv
  OBVIOUS
<1>1. TypeOK /\ Exclusion
  BY DEF Init, TypeOK, Exclusion
<1>2. \A s \in Sessions : kind[s] = "none" /\ held[s] = {}
  BY DEF Init
<1> QED
  BY <1>1, <1>2 DEF LockInv, SessionOK, InOrder, OfItsKind, UnderOrg, Ordered, Kinds

\* A session that did not move.
LEMMA SessionStays ==
  ASSUME NEW s \in Sessions, SessionOK(s),
         kind'[s] = kind[s], todo'[s] = todo[s], held'[s] = held[s]
  PROVE  SessionOK(s)'
<1>1. InOrder(s)'
  BY DEF SessionOK, InOrder, Follows, Upward, Collide, Conflict, Goes, Rank, Span
<1>2. OfItsKind(s)' /\ (kind[s] = "none" => held[s] = {})'
  BY DEF SessionOK, OfItsKind, MayTake
<1>3. UnderOrg(s)'
  BY DEF SessionOK, UnderOrg, Goes, OrgGone
<1> QED
  BY <1>1, <1>2, <1>3 DEF SessionOK

LEMMA BeginStep ==
  ASSUME LockInv, NEW s \in Sessions, NEW k \in Kinds, Begin(s, k)
  PROVE  LockInv'
<1>1. PICK program \in Programs[k] :
        /\ kind[s] = "none" /\ kind' = [kind EXCEPT ![s] = k]
        /\ todo' = [todo EXCEPT ![s] = program] /\ held' = held
  BY DEF Begin
<1>2. TypeOK /\ program \in Seq(Lock)
  BY <1>1, ProgramsInOrder DEF LockInv, Sorted
<1>3. TypeOK' /\ kind'[s] = k /\ todo'[s] = program
  BY <1>1, <1>2 DEF TypeOK
<1>4. held[s] = {}
  BY <1>1 DEF LockInv, SessionOK
<1>5. Exclusion'
  BY <1>1 DEF LockInv, Exclusion, Exclude, Collide, Conflict
<1>6. SessionOK(s)'
  <2>1. /\ \A i, j \in DOMAIN program : i < j => Follows(k, program[i], program[j])
        /\ k \in Ordered => UnderFirst(program)
        /\ \A j \in DOMAIN program : MayTake(k, program[j])
    BY <1>1, ProgramsInOrder DEF Sorted
  <2>2. InOrder(s)'
    BY <1>1, <1>3, <1>4, <2>1
    DEF InOrder, Follows, Upward, Collide, Conflict, Goes, Rank, Span
  <2>3. OfItsKind(s)'
    BY <1>1, <1>3, <1>4, <2>1 DEF OfItsKind, MayTake
  <2>4. UnderOrg(s)'
    BY <1>1, <1>3, <1>4, <2>1 DEF UnderOrg, UnderFirst, Goes, OrgGone
  <2> QED
    BY <1>1, <1>3, <1>4, <2>2, <2>3, <2>4 DEF SessionOK, Kinds
<1>7. ASSUME NEW r \in Sessions, r # s PROVE SessionOK(r)'
  <2>1. kind'[r] = kind[r] /\ todo'[r] = todo[r] /\ held'[r] = held[r]
    BY <1>1, <1>2, <1>7 DEF TypeOK
  <2> QED
    BY <2>1, SessionStays DEF LockInv
<1> QED
  BY <1>3, <1>5, <1>6, <1>7 DEF LockInv

\* The lock taken was the first still to take; nobody holds the row in its
\* way.
LEMMA AcquireStep == ASSUME LockInv, NEW s \in Sessions, Acquire(s) PROVE LockInv'
<1> DEFINE first == Head(todo[s])
           rest == Tail(todo[s])
<1>1. /\ TypeOK /\ todo[s] \in Seq(Lock) /\ todo[s] # <<>>
      /\ held \in [Sessions -> SUBSET Lock]
  BY DEF LockInv, Acquire, TypeOK
<1>2. /\ held' = [held EXCEPT ![s] = @ \cup {first}]
      /\ todo' = [todo EXCEPT ![s] = rest]
      /\ kind' = kind /\ kind[s] \in Kinds /\ Blockers(s) = {}
  BY DEF Acquire, Running
<1>3. /\ first \in Lock /\ rest \in Seq(Lock) /\ first = todo[s][1]
      /\ Len(rest) = Len(todo[s]) - 1
      /\ \A i \in 1..Len(rest) : rest[i] = todo[s][i + 1]
  BY <1>1, HeadTailProperties
<1>4. /\ DOMAIN rest = 1..Len(rest) /\ DOMAIN todo[s] = 1..Len(todo[s])
      /\ Len(rest) \in Nat /\ Len(todo[s]) \in Nat /\ 1 \in DOMAIN todo[s]
  BY <1>1, <1>3, LenProperties, EmptySeq
<1> HIDE DEF first, rest
<1>5. /\ held'[s] = held[s] \cup {first} /\ todo'[s] = rest /\ kind'[s] = kind[s]
      /\ \A r \in Sessions : r # s => held'[r] = held[r] /\ todo'[r] = todo[r]
  BY <1>1, <1>2 DEF TypeOK
<1>6. TypeOK'
  BY <1>1, <1>2, <1>3 DEF TypeOK
<1>7. Exclusion'
  <2> SUFFICES ASSUME NEW r \in Sessions, NEW t \in Sessions, r # t,
                      NEW a \in held'[r], NEW b \in held'[t]
               PROVE  ~Exclude(a, b)
    BY DEF Exclusion, Exclude, Collide, Conflict
  <2>1. ASSUME NEW h \in Sessions, h # s, NEW c \in held[h]
        PROVE  ~Exclude(c, first)
    BY <1>1, <1>2, <2>1 DEF Blockers, Exclude, Collide, first
  <2>2. CASE r # s /\ t # s
    BY <1>5, <2>2 DEF LockInv, Exclusion
  <2>3. CASE r = s
    <3>1. b \in held[t] /\ t # s /\ (a \in held[s] \/ a = first)
      BY <1>5, <2>3
    <3>2. a \in Lock /\ b \in Lock
      BY <1>1, <1>3, <3>1
    <3> QED
      BY <2>1, <2>3, <3>1, <3>2, Symmetric DEF LockInv, Exclusion
  <2>4. CASE t = s
    <3>1. a \in held[r] /\ r # s /\ (b \in held[s] \/ b = first)
      BY <1>5, <2>4
    <3> QED
      BY <2>1, <2>4, <3>1 DEF LockInv, Exclusion
  <2> QED
    BY <2>2, <2>3, <2>4
<1>8. SessionOK(s)'
  <2>0. InOrder(s) /\ OfItsKind(s) /\ UnderOrg(s) /\ kind[s] # "none" /\ kind[s] \in Kinds
    BY <1>2 DEF LockInv, SessionOK, Kinds
  <2>1. /\ \A i, j \in DOMAIN rest : i < j => Follows(kind[s], rest[i], rest[j])
        /\ \A h \in held[s] \cup {first} : \A j \in DOMAIN rest : Follows(kind[s], h, rest[j])
    <3>1. /\ \A i, j \in DOMAIN todo[s] : i < j => Follows(kind[s], todo[s][i], todo[s][j])
          /\ \A h \in held[s] : \A j \in DOMAIN todo[s] : Follows(kind[s], h, todo[s][j])
      BY <2>0 DEF InOrder
    <3>2. ASSUME NEW j \in DOMAIN rest
          PROVE  /\ j \in Nat /\ j + 1 \in DOMAIN todo[s] /\ rest[j] = todo[s][j + 1] /\ 1 < j + 1
      BY <1>3, <1>4
    <3>3. ASSUME NEW i \in DOMAIN rest, NEW j \in DOMAIN rest, i < j
          PROVE  Follows(kind[s], rest[i], rest[j])
      <4>1. i + 1 < j + 1
        BY <3>2, <3>3
      <4> QED
        BY <3>1, <3>2, <4>1
    <3>4. ASSUME NEW j \in DOMAIN rest
          PROVE  Follows(kind[s], first, rest[j])
      BY <1>3, <1>4, <3>1, <3>2
    <3>5. ASSUME NEW h \in held[s], NEW j \in DOMAIN rest
          PROVE  Follows(kind[s], h, rest[j])
      BY <3>1, <3>2
    <3> QED
      BY <3>3, <3>4, <3>5
  <2>2. InOrder(s)'
    BY <1>5, <2>1
    DEF InOrder, Follows, Upward, Collide, Conflict, Goes, Rank, Span
  <2>3. OfItsKind(s)'
    <3>1. \A j \in DOMAIN rest : j + 1 \in DOMAIN todo[s] /\ rest[j] = todo[s][j + 1]
      BY <1>3, <1>4
    <3> QED
      BY <1>3, <1>4, <1>5, <2>0, <3>1 DEF OfItsKind, MayTake
  <2>4. UnderOrg(s)'
    <3>1. SUFFICES ASSUME kind[s] \in Ordered
                   PROVE  /\ \A h \in held[s] \cup {first} :
                               Goes(h) => OrgGone(h) \in held[s] \cup {first}
                          /\ \A j \in DOMAIN rest : Goes(rest[j]) =>
                               \/ OrgGone(rest[j]) \in held[s] \cup {first}
                               \/ \E i \in DOMAIN rest : i < j /\ rest[i] = OrgGone(rest[j])
      BY <1>5 DEF UnderOrg, Goes, OrgGone
    <3>2. /\ \A h \in held[s] : Goes(h) => OrgGone(h) \in held[s]
          /\ \A j \in DOMAIN todo[s] : Goes(todo[s][j]) =>
               \/ OrgGone(todo[s][j]) \in held[s]
               \/ \E i \in DOMAIN todo[s] : i < j /\ todo[s][i] = OrgGone(todo[s][j])
      BY <2>0, <3>1 DEF UnderOrg
    <3>3. Goes(first) => OrgGone(first) \in held[s]
      BY <1>3, <1>4, <3>2
    <3>4. ASSUME NEW j \in DOMAIN rest, Goes(rest[j]), OrgGone(rest[j]) \notin held[s] \cup {first}
          PROVE  \E i \in DOMAIN rest : i < j /\ rest[i] = OrgGone(rest[j])
      <4>1. j + 1 \in DOMAIN todo[s] /\ rest[j] = todo[s][j + 1] /\ j \in Nat
        BY <1>3, <1>4
      <4>2. PICK i \in DOMAIN todo[s] : i < j + 1 /\ todo[s][i] = OrgGone(rest[j])
        BY <3>2, <3>4, <4>1
      <4>3. i # 1
        BY <1>3, <3>4, <4>2
      <4>4. i - 1 \in DOMAIN rest /\ i - 1 < j /\ (i - 1) + 1 = i
        BY <1>3, <1>4, <4>1, <4>2, <4>3
      <4>5. rest[i - 1] = todo[s][i]
        BY <1>3, <1>4, <4>4
      <4> QED
        BY <4>2, <4>4, <4>5
    <3> QED
      BY <3>2, <3>3, <3>4
  <2> QED
    BY <1>5, <2>0, <2>2, <2>3, <2>4 DEF SessionOK
<1>9. ASSUME NEW r \in Sessions, r # s PROVE SessionOK(r)'
  BY <1>2, <1>5, <1>9, SessionStays DEF LockInv
<1> QED
  BY <1>6, <1>7, <1>8, <1>9 DEF LockInv

LEMMA EndStep == ASSUME LockInv, NEW s \in Sessions, End(s) PROVE LockInv'
<1>1. /\ TypeOK /\ kind' = [kind EXCEPT ![s] = "over"]
      /\ held' = [held EXCEPT ![s] = {}] /\ todo' = [todo EXCEPT ![s] = <<>>]
  BY DEF LockInv, End
<1>2. /\ kind'[s] = "over" /\ held'[s] = {}
      /\ \A r \in Sessions : r # s => /\ kind'[r] = kind[r] /\ held'[r] = held[r]
                                      /\ todo'[r] = todo[r]
  BY <1>1 DEF TypeOK
<1>3. TypeOK'
  BY <1>1 DEF TypeOK
<1>4. \A r \in Sessions : held'[r] \subseteq held[r]
  BY <1>2
<1>5. Exclusion'
  BY <1>4 DEF LockInv, Exclusion, Exclude, Collide, Conflict
<1>6. SessionOK(s)'
  BY <1>2 DEF SessionOK, InOrder, OfItsKind, UnderOrg, Ordered, Kinds
<1>7. ASSUME NEW r \in Sessions, r # s PROVE SessionOK(r)'
  BY <1>2, <1>7, SessionStays DEF LockInv
<1> QED
  BY <1>3, <1>5, <1>6, <1>7 DEF LockInv

LEMMA LockStep == LockInv /\ [Next]_vars => LockInv'
<1> SUFFICES ASSUME LockInv, [Next]_vars PROVE LockInv'
  OBVIOUS
<1>1. ASSUME NEW s \in Sessions, Commit(s) \/ Fail(s) \/ DeadlockDetected(s) PROVE LockInv'
  BY <1>1, EndStep DEF Commit, Fail, DeadlockDetected
<1>2. CASE UNCHANGED vars
  <2>1. kind' = kind /\ todo' = todo /\ held' = held
    BY <1>2 DEF vars
  <2>2. TypeOK'
    BY <2>1 DEF LockInv, TypeOK
  <2>3. Exclusion'
    BY <2>1 DEF LockInv, Exclusion, Exclude, Collide, Conflict
  <2>4. \A s \in Sessions : SessionOK(s)'
    BY <2>1, SessionStays DEF LockInv
  <2> QED
    BY <2>2, <2>3, <2>4 DEF LockInv
<1> QED
  BY <1>1, <1>2, BeginStep, AcquireStep DEF Next, Finished

---------------------------------------------------------------------------
(* Circles *)

\* What session s needs next.
Wanted(s) == todo[s][1]

\* Session b holds a lock that keeps s waiting.
WaitsFor(s, b) == b # s /\ \E a \in held[b] : Collide(a, Wanted(s))

LEMMA BlockedWaits ==
  ASSUME LockInv, NEW s \in Sessions, NEW b \in Blockers(s)
  PROVE  /\ b \in Sessions /\ 1 \in DOMAIN todo[s] /\ Wanted(s) \in Lock
         /\ WaitsFor(s, b)
<1>1. todo[s] \in Seq(Lock) /\ held[b] \in SUBSET Lock /\ b \in Sessions /\ b # s
  BY DEF LockInv, TypeOK, Blockers
<1>2. todo[s] # <<>>
  BY DEF Blockers
<1>3. PICK lock \in held[b] :
        lock.row = Head(todo[s]).row /\ Conflict(lock.mode, Head(todo[s]).mode)
  BY DEF Blockers
<1>4. 1 \in DOMAIN todo[s] /\ Head(todo[s]) = todo[s][1] /\ todo[s][1] \in Lock
  BY <1>1, <1>2
<1>5. Collide(lock, Wanted(s))
  BY <1>3, <1>4 DEF Collide, Wanted
<1> QED
  BY <1>1, <1>3, <1>4, <1>5 DEF Wanted, WaitsFor

\* Only one of two sessions deletes the invoices of an organisation.
LEMMA OneDeletes ==
  ASSUME LockInv, NEW s \in Sessions, NEW b \in Sessions, b # s,
         kind[s] \in Ordered, kind[b] \in Ordered, 1 \in DOMAIN todo[s],
         NEW a \in held[b], Collide(a, Wanted(s))
  PROVE  ~(Goes(Wanted(s)) /\ Goes(a))
<1> SUFFICES ASSUME Goes(Wanted(s)), Goes(a) PROVE FALSE
  OBVIOUS
<1>1. OrgGone(a) \in held[b]
  BY DEF LockInv, SessionOK, UnderOrg
<1>2. todo[s] \in Seq(Lock)
  BY DEF LockInv, TypeOK
<1>3. OrgGone(Wanted(s)) \in held[s]
  <2>1. ~\E i \in DOMAIN todo[s] : i < 1
    BY <1>2
  <2> QED
    BY <2>1 DEF LockInv, SessionOK, UnderOrg, Wanted
<1>4. OrgGone(Wanted(s)) = OrgGone(a)
  BY DEF Collide, OrgGone
<1>5. Exclude(OrgGone(a), OrgGone(a))
  BY DEF Exclude, Collide, Conflict, OrgGone
<1> QED
  BY <1>1, <1>3, <1>4, <1>5 DEF LockInv, Exclusion

\* Among the ordered ones, whoever waits for a waiting session waits lower down.
LEMMA WaitsUp ==
  ASSUME LockInv, NEW s \in Sessions, NEW b \in Sessions, WaitsFor(s, b),
         kind[s] \in Ordered, kind[b] \in Ordered,
         1 \in DOMAIN todo[s], Wanted(s) \in Lock, 1 \in DOMAIN todo[b]
  PROVE  Rank(Wanted(s)) < Rank(Wanted(b))
<1>1. PICK a \in held[b] : Collide(a, Wanted(s))
  BY DEF WaitsFor
<1>2. ~(Goes(Wanted(s)) /\ Goes(a))
  BY <1>1, OneDeletes DEF WaitsFor
<1>3. Upward(a, Wanted(b))
  BY DEF LockInv, SessionOK, InOrder, Wanted, Follows, Ordered, Kinds
<1> QED
  BY <1>1, <1>2, <1>3 DEF Upward

\* A circle of ordered sessions has none that waits on the highest rank.
LEMMA NoOrderedCircle ==
  ASSUME LockInv, NEW set \in SUBSET Running, Stuck(set),
         \A s \in set : kind[s] \in Ordered
  PROVE  FALSE
<1>1. \A s \in set : s \in Sessions
  BY DEF Running
<1>2. \A s \in set : \E b \in set : b \in Blockers(s)
  BY DEF Stuck
<1>3. \A s \in set : 1 \in DOMAIN todo[s] /\ Wanted(s) \in Lock
  BY <1>1, <1>2, BlockedWaits
<1> DEFINE RankOf(s) == Rank(Wanted(s))
           T == {RankOf(s) : s \in set}
<1>4. \A s \in set : RankOf(s) \in Nat /\ RankOf(s) <= 4 * Span + 4
  BY <1>3, RankRange
<1>5. \A s \in set : \E b \in set : RankOf(s) < RankOf(b)
  <2> SUFFICES ASSUME NEW s \in set PROVE \E b \in set : RankOf(s) < RankOf(b)
    OBVIOUS
  <2>1. PICK b \in set : b \in Blockers(s)
    BY <1>2
  <2>2. WaitsFor(s, b)
    BY <1>1, <2>1, BlockedWaits
  <2> QED
    BY <1>1, <1>3, <2>2, WaitsUp
<1>6. set # {}
  BY DEF Stuck
<1>7. 4 * Span + 4 \in Nat
  BY PlaceRange
<1> HIDE DEF RankOf
<1>8. T \subseteq Nat /\ T # {} /\ \A x \in T : x <= 4 * Span + 4
  BY <1>4, <1>6
<1>9. \E x \in T : \A y \in T : y <= x
  <2> HIDE DEF T
  <2> QED
    BY <1>7, <1>8, GreatestNat
<1>10. PICK s \in set : \A r \in set : RankOf(r) <= RankOf(s)
  BY <1>9
<1>11. PICK b \in set : RankOf(s) < RankOf(b)
  BY <1>5
<1> QED
  BY <1>4, <1>10, <1>11

\* The members of a set that keep another one waiting.
InTheWay(set) == {b \in set : \E s \in set : b \in Blockers(s)}

\* They are a circle if the set is one.
LEMMA WayStuck ==
  ASSUME NEW set, Stuck(set)
  PROVE  Stuck(InTheWay(set)) /\ InTheWay(set) \subseteq set
  BY DEF Stuck, InTheWay

\* The transactions that a circle without the named ones may consist of.
Unnamed(set) ==
  /\ \A s \in set : kind[s] \in Kinds \ {"delete_account"}
  /\ ~\E r, s \in set : /\ r # s /\ kind[s] \in {"create", "rename"}
                        /\ kind[r] \in {"create", "rename", "edit"}
  /\ ~\E r, s \in set : r # s /\ kind[s] = "login" /\ kind[r] \in {"login", "close_all"}

\* Session b keeps s waiting with lock a, and waits itself.
LEMMA WayParts ==
  ASSUME LockInv, NEW s \in Sessions, NEW b \in Sessions, WaitsFor(s, b),
         kind[s] \in Kinds, kind[b] \in Kinds,
         1 \in DOMAIN todo[s], 1 \in DOMAIN todo[b]
  PROVE  \E a \in held[b] :
           /\ a.row = Wanted(s).row /\ Conflict(a.mode, Wanted(s).mode)
           /\ MayTake(kind[b], a) /\ MayTake(kind[s], Wanted(s))
           /\ Follows(kind[b], a, Wanted(b))
<1>1. PICK a \in held[b] : Collide(a, Wanted(s))
  BY DEF WaitsFor
<1>2. MayTake(kind[b], a) /\ MayTake(kind[s], Wanted(s))
  BY DEF LockInv, SessionOK, OfItsKind, Wanted
<1>3. Follows(kind[b], a, Wanted(b))
  BY DEF LockInv, SessionOK, InOrder, Wanted
<1> QED
  BY <1>1, <1>2, <1>3 DEF Collide

\* In a circle without the named transactions no rename waits, nobody waits
\* for a new organisation or a page, and only pages wait for a login.
LEMMA WhoWaits ==
  ASSUME LockInv, NEW s \in Sessions, NEW b \in Sessions, WaitsFor(s, b),
         Unnamed({s, b}), 1 \in DOMAIN todo[s], 1 \in DOMAIN todo[b]
  PROVE  /\ kind[s] # "rename" /\ kind[b] # "page"
         /\ kind[b] = "create" => kind[s] = "rename"
         /\ kind[b] = "login" => kind[s] = "page"
<1>1. s # b
  BY DEF WaitsFor
<1>2. kind[s] \in Kinds \ {"delete_account"} /\ kind[b] \in Kinds \ {"delete_account"}
  BY DEF Unnamed
<1>3. PICK a \in held[b] :
        /\ a.row = Wanted(s).row /\ Conflict(a.mode, Wanted(s).mode)
        /\ MayTake(kind[b], a) /\ MayTake(kind[s], Wanted(s))
        /\ Follows(kind[b], a, Wanted(b))
  BY <1>2, WayParts
<1>4. kind[b] # "page"
  BY <1>3 DEF Follows
<1>5. kind[s] # "rename"
  <2> SUFFICES ASSUME kind[s] = "rename" PROVE FALSE
    OBVIOUS
  <2>1. a.row \in Orgs \cup Names
    BY <1>3 DEF MayTake
  <2>2. kind[b] \in {"edit", "create", "rename"} \/ (kind[b] = "request" /\ a.row \in Orgs)
    BY <1>2, <1>3, <2>1 DEF MayTake
  <2>3. kind[b] # "request"
    BY <1>3, <2>2 DEF Follows
  <2> QED
    BY <1>1, <2>2, <2>3 DEF Unnamed
<1>6. kind[b] # "create"
  <2> SUFFICES ASSUME kind[b] = "create" PROVE FALSE
    OBVIOUS
  <2>1. a.row \in Orgs \cup Names /\ a.mode # "Update"
    BY <1>3 DEF MayTake, Follows
  <2>2. kind[s] \in {"edit", "create", "rename"} \/ Wanted(s).mode = "KeyShare"
    BY <1>2, <1>3, <2>1 DEF MayTake
  <2>3. Wanted(s).mode # "KeyShare"
    BY <1>3, <2>1 DEF Conflict
  <2> QED
    BY <1>1, <2>2, <2>3 DEF Unnamed
<1>7. ASSUME kind[b] = "login" PROVE kind[s] = "page"
  <2>1. a.row \in Cookies
    BY <1>3, <1>7 DEF MayTake, Follows
  <2>2. kind[s] \in {"page", "close_all", "login"}
    BY <1>2, <1>3, <2>1 DEF MayTake
  <2> QED
    BY <1>1, <1>7, <2>2 DEF Unnamed
<1> QED
  BY <1>4, <1>5, <1>6, <1>7

LEMMA NamedCircles == LockInv => DeadlocksNamed
<1> SUFFICES ASSUME LockInv, NEW set \in SUBSET Running, Stuck(set),
                    \A s \in set : kind[s] # "delete_account",
                    ~\E r, s \in set : /\ r # s /\ kind[s] \in {"create", "rename"}
                                      /\ kind[r] \in {"create", "rename", "edit"},
                    ~\E r, s \in set : /\ r # s /\ kind[s] = "login"
                                      /\ kind[r] \in {"login", "close_all"}
             PROVE  FALSE
  BY DEF DeadlocksNamed
<1>1. \A s \in set : s \in Sessions /\ kind[s] \in Kinds
  BY DEF Running
<1>2. ASSUME NEW s \in set, NEW b \in set, b \in Blockers(s)
      PROVE  /\ kind[s] # "rename" /\ kind[b] \notin {"page", "create"}
             /\ kind[b] = "login" => kind[s] = "page"
  <2>1. WaitsFor(s, b) /\ 1 \in DOMAIN todo[s]
    BY <1>1, <1>2, BlockedWaits
  <2>2. 1 \in DOMAIN todo[b]
    <3>1. PICK c \in set : c \in Blockers(b)
      BY DEF Stuck
    <3> QED
      BY <1>1, <3>1, BlockedWaits
  <2>3. Unnamed({s, b})
    BY <1>1 DEF Unnamed
  <2> QED
    BY <1>1, <2>1, <2>2, <2>3, WhoWaits
<1>3. \A s \in set : kind[s] # "rename"
  BY <1>2 DEF Stuck
<1> DEFINE first == InTheWay(set)
           second == InTheWay(first)
<1>4. Stuck(first) /\ first \subseteq set
  BY WayStuck
<1>5. \A b \in first : kind[b] \notin {"page", "create", "rename"}
  BY <1>2, <1>3 DEF InTheWay
<1> HIDE DEF first
<1>6. Stuck(second) /\ second \subseteq first
  BY <1>4, WayStuck
<1>7. \A b \in second : kind[b] # "login"
  BY <1>2, <1>4, <1>5 DEF InTheWay
<1> HIDE DEF second
<1>8. \A b \in second : kind[b] \in Ordered
  BY <1>1, <1>4, <1>5, <1>6, <1>7 DEF Kinds, Ordered
<1>9. second \in SUBSET Running
  BY <1>4, <1>6
<1> QED
  BY <1>6, <1>8, <1>9, NoOrderedCircle

---------------------------------------------------------------------------
(* The theorems *)

\* What every session runs, still takes and holds stays what RowLocks
\* declares it to be.
THEOREM TypeCorrect == Spec => []TypeOK
<1>1. LockInv => TypeOK
  BY DEF LockInv
<1> QED
  BY <1>1, LockInit, LockStep, PTL DEF Spec

\* PostgreSQL's row locks do their work for all the handlers: two
\* transactions never hold a row in modes that conflict, nor put one alias
\* into the index, whatever fails and whichever deadlock is resolved in between.
THEOREM ExclusionCorrect == Spec => []Exclusion
<1>1. LockInv => Exclusion
  BY DEF LockInv
<1> QED
  BY <1>1, LockInit, LockStep, PTL DEF Spec

\* For any number of concurrent requests, panel, cabinet and command line
\* transactions and any rows of the account, a circle of waiting transactions
\* has a deletion of the account in it, or a new or renamed organisation with
\* another one or an edit, or a login with another one or the end of all
\* sessions: _mark_token_used, lock_account and the flush order of the ORM
\* take all other locks along one order.
THEOREM DeadlocksCorrect == Spec => []DeadlocksNamed
  BY LockInit, LockStep, NamedCircles, PTL DEF Spec
=============================================================================
