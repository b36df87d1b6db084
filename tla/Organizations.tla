--------------------------- MODULE Organizations ---------------------------
(***************************************************************************)
(* The receivers of payments, the API keys and the logos of an account, as *)
(* the panel, the cabinet and the command line edit them while QR requests *)
(* and payment pages read them.                                            *)
(*                                                                         *)
(* Every handler is a session that reads, works on its copy and commits    *)
(* later; an ORM flush writes the columns that differ from the copy.  A    *)
(* flush is merged with its commit: in between it only holds row locks.    *)
(* An IntegrityError or a StaleDataError (an UPDATE of one row that is     *)
(* gone; in a batch of several asyncpg gives no count and the loss passes) *)
(* is caught by nobody and ends the session: Rollback.  An organisation, a *)
(* key and a file are abstracted to model values or numbers; the digits of *)
(* the requisites are one value of Requisites (module PaymentDocument).    *)
(***************************************************************************)
EXTENDS Integers, FiniteSets, SequencesExt

CONSTANTS
  Sessions,    \* concurrent database sessions
  Accounts,
  Orgs,        \* identifiers of organisation rows
  Aliases,     \* short names a form may carry
  Requisites,  \* valid sets of bank requisites
  Forms,       \* the forms people submit
  Tokens,      \* identifiers of API keys
  Throttle,    \* token_last_used_throttle_seconds
  CacheTtl,    \* logo_cache_ttl_seconds
  CacheSize,   \* logo_cache_max_entries
  None,
  MaxTime,     \* bound: last tick of the clock
  MaxRuns,     \* bound: number of sessions ever opened
  MaxFiles     \* bound: number of logos ever uploaded

ASSUME OrganizationsAssumption ==
  /\ Throttle \in Nat
  /\ CacheTtl \in Nat
  /\ CacheSize \in Nat \ {0}
  /\ MaxTime \in Nat
  /\ MaxRuns \in Nat
  /\ MaxFiles \in Nat
  /\ Forms \subseteq [alias: Aliases, requisites: Requisites, is_default: BOOLEAN,
                     upload: BOOLEAN]
  /\ None \notin Sessions \cup Accounts \cup Orgs \cup Aliases \cup Requisites \cup Tokens
  /\ None \notin Nat
  /\ None \notin [account: Accounts, revoked_at: 0..MaxTime \cup {None},
                  last_used_at: 0..MaxTime \cup {None}]
  /\ None \notin [account: Accounts, alias: Aliases, is_default: BOOLEAN,
                  requisites: Requisites, logo_key: 1..MaxFiles \cup {None}]

VARIABLES
  orgs,       \* rows of organizations, None where there is none
  tokens,     \* rows of api_tokens, None where there is none
  tokenLock,  \* per key, the session whose UPDATE holds its row, or None
  invoices,   \* the organisations that have the invoice (one payment each)
  files,      \* the keys stored in the bucket; a key is written once
  cache,      \* LogoCache._entries of the server, least recently used first
  now,
  ses,        \* the sessions
  runs        \* sessions opened so far

VARIABLES     \* history, read by no action
  client,     \* per organisation, the image its reader holds under the ETag
  used,       \* per key, the time of the latest request answered with it
  raced       \* accounts where two saves that set the default overlapped

rows == <<orgs, tokens, tokenLock, invoices>>
history == <<client, used, raced>>
vars == <<rows, files, cache, now, ses, runs, history>>

Files == 1..MaxFiles
Time == 0..MaxTime
OrgRow == [account: Accounts, alias: Aliases, is_default: BOOLEAN,
           requisites: Requisites, logo_key: Files \cup {None}]
TokenRow == [account: Accounts, revoked_at: Time \cup {None},
             last_used_at: Time \cup {None}]
Entry == [key: Files, expires: Nat, data: Files \cup {None}]
\* What a QR image shows: whom to pay, and the logo drawn over it.
Image == [requisites: Requisites, logo: Files \cup {None}]
\* A submitted form; the browser always sends the file field, often empty.
Form == [alias: Aliases, requisites: Requisites, is_default: BOOLEAN, upload: BOOLEAN]

\* Where a session is, the row ids it works on, its copy of the row, the
\* form, the key of its uploaded logo, the organisations it unmarks, whether
\* another save of the default was committed since it looked, its clock,
\* whether its transaction has marked the key, the invoice (by organisation)
\* whose ETag the request carries, the images the organisation stood for since
\* the request read it, and the image its reader sees in the end.
Places == {"idle", "check", "store", "save", "delete", "revoke",
           "mark", "resolve", "invoice", "draw", "fetch", "sent"}
Session ==
  [at: Places, org: Orgs \cup {None}, token: Tokens \cup {None},
   account: Accounts \cup {None}, row: OrgRow \cup {None}, form: Form \cup {None},
   logo: Files \cup {None}, cleared: SUBSET Orgs, overtaken: BOOLEAN,
   clock: Time, marked: BOOLEAN, etag: Orgs \cup {None}, window: SUBSET Image,
   shown: Image \cup {None}, fresh: BOOLEAN]
Closed ==
  [at |-> "idle", org |-> None, token |-> None, account |-> None, row |-> None,
   form |-> None, logo |-> None, cleared |-> {}, overtaken |-> FALSE, clock |-> 0,
   marked |-> FALSE, etag |-> None, window |-> {}, shown |-> None, fresh |-> FALSE]

Exists(o) == orgs[o] # None
Of(a) == {o \in Orgs : Exists(o) /\ orgs[o].account = a}
DefaultsOf(a) == {o \in Of(a) : orgs[o].is_default}

TypeOK ==
  /\ orgs \in [Orgs -> OrgRow \cup {None}]
  /\ tokens \in [Tokens -> TokenRow \cup {None}]
  /\ tokenLock \in [Tokens -> Sessions \cup {None}]
  /\ invoices \in SUBSET Orgs
  /\ files \in SUBSET Files
  /\ cache \in Seq(Entry)
  /\ now \in Time
  /\ ses \in [Sessions -> Session]
  /\ runs \in 0..MaxRuns
  /\ client \in [Orgs -> Image \cup {None}]
  /\ used \in [Tokens -> Time \cup {None}]
  /\ raced \in SUBSET Accounts

\* Any organisations that the forms could have created one by one, and any
\* keys not used yet.
Init ==
  /\ files \in {1..n : n \in 0..MaxFiles}
  /\ orgs \in [Orgs -> {None} \cup {r \in OrgRow : \E form \in Forms :
                 /\ r.alias = form.alias /\ r.is_default = form.is_default
                 /\ r.requisites = form.requisites
                 /\ IF form.upload THEN r.logo_key \in files ELSE r.logo_key = None}]
  /\ \A o, p \in Orgs : o # p /\ Exists(o) /\ Exists(p) /\ orgs[o].account = orgs[p].account
       => /\ orgs[o].alias # orgs[p].alias
          /\ ~(orgs[o].is_default /\ orgs[p].is_default)
          /\ orgs[o].logo_key = orgs[p].logo_key => orgs[o].logo_key = None
  /\ tokens \in [Tokens -> {None} \cup {[account |-> a, revoked_at |-> None,
                                         last_used_at |-> None] : a \in Accounts}]
  /\ tokenLock = [t \in Tokens |-> None]
  /\ invoices = {}
  /\ cache = <<>>
  /\ now = 0
  /\ ses = [s \in Sessions |-> Closed]
  /\ runs = 0
  /\ client = [o \in Orgs |-> None]
  /\ used = [t \in Tokens |-> None]
  /\ raced = {}

---------------------------------------------------------------------------
(* Sessions *)

\* The session ends: its transaction is over and its row locks are released.
Close(s) ==
  /\ ses' = [ses EXCEPT ![s] = Closed]
  /\ tokenLock' = [t \in Tokens |-> IF tokenLock[t] = s THEN None ELSE tokenLock[t]]

\* A session starts with what its first statements read.
Open(s, opened) ==
  /\ ses[s].at = "idle"
  /\ runs < MaxRuns
  /\ runs' = runs + 1
  /\ ses' = [ses EXCEPT ![s] = opened]
  /\ UNCHANGED <<rows, files, cache, now, history>>

---------------------------------------------------------------------------
(* Saving an organisation: panel, cabinet and command line *)

\* The alias is not taken by another organisation of the account.
AliasFree(a, alias, self) == \A o \in Of(a) \ {self} : orgs[o].alias # alias

\* clear_default_organization: the rows it will unmark.
ClearDefault(a, self) == DefaultsOf(a) \ {self}

\* An identifier is a fresh UUID: no row has it and no session knows it.
NewId(o) ==
  ~Exists(o) /\ \A x \in Sessions : o \notin {ses[x].org, ses[x].etag} \cup ses[x].cleared

\* create_organization up to its flush: the fields are valid, the alias is
\* free, the previous default is loaded to be unmarked.
CreateOrganization(s, a, o, form) ==
  /\ NewId(o)
  /\ AliasFree(a, form.alias, o)
  /\ Open(s, [Closed EXCEPT !.at = "store", !.org = o, !.account = a, !.form = form,
                !.cleared = IF form.is_default THEN ClearDefault(a, o) ELSE {}])

\* The form of the panel, of the cabinet and the arguments of `nosbp org add`
\* reach the same code; the cabinet only adds to the viewer's own account.
PanelCreate(s, o, form) == \E a \in Accounts : CreateOrganization(s, a, o, form)
CabinetCreate(s, viewer, o, form) == CreateOrganization(s, viewer, o, form)
OrgAdd(s, o, form) == \E a \in Accounts : CreateOrganization(s, a, o, form)

\* An edit starts by loading the row.
Load(s, o, place, form) ==
  Open(s, [Closed EXCEPT !.at = place, !.org = o, !.account = orgs[o].account,
                         !.row = orgs[o], !.form = form])

PanelEdit(s, o, form) == Exists(o) /\ Load(s, o, "check", form)

\* _own: a row of another account is as good as none.
Own(viewer, o) == Exists(o) /\ orgs[o].account = viewer
CabinetEdit(s, viewer, o, form) == Own(viewer, o) /\ Load(s, o, "check", form)

\* Mutant: the previous default is not looked for.
UpdateOrganization_keeps_default(s) ==
  LET me == ses[s] IN
  /\ me.at = "check"
  /\ me.form.alias # me.row.alias => AliasFree(me.account, me.form.alias, me.org)
  /\ ses' = [ses EXCEPT ![s].at = "store"]
  /\ UNCHANGED <<rows, files, cache, now, runs, history>>

\* update_organization: another alias must be free, and the previous default
\* is loaded when the loaded row was not the default itself.
UpdateOrganization(s) ==
  LET me == ses[s] IN
  /\ me.at = "check"
  /\ me.form.alias # me.row.alias => AliasFree(me.account, me.form.alias, me.org)
  /\ ses' = [ses EXCEPT ![s].at = "store",
       ![s].cleared = IF me.form.is_default /\ ~me.row.is_default
                      THEN ClearDefault(me.account, me.org) ELSE {}]
  /\ UNCHANGED <<rows, files, cache, now, runs, history>>

\* Mutant: the key is handed out before the file is in the bucket.
StoreLogo_later(key) == key = Cardinality(files) + 1 /\ key \in Files /\ files' = files

\* store_logo: the file gets a key of its own and is in the bucket before
\* the row can name it.
StoreLogo(key) == key = Cardinality(files) + 1 /\ key \in Files /\ files' = files \cup {key}

\* The entries of the cache other than the key's: a dict holds a key once.
Invalidate(key) ==
  IF \E i \in DOMAIN cache : cache[i].key = key
  THEN RemoveAt(cache, CHOOSE i \in DOMAIN cache : cache[i].key = key)
  ELSE cache

\* attach_logo: a chosen file is stored, and the replaced logo leaves the
\* cache; an empty file field changes nothing.
AttachLogo(s) ==
  LET me == ses[s]
      previous == IF me.row = None THEN None ELSE me.row.logo_key
  IN
  /\ me.at = "store"
  /\ IF me.form.upload
     THEN \E key \in Files :
            /\ StoreLogo(key)
            /\ ses' = [ses EXCEPT ![s].at = "save", ![s].logo = key]
            /\ cache' = IF previous = None THEN cache ELSE Invalidate(previous)
     ELSE ses' = [ses EXCEPT ![s].at = "save"] /\ UNCHANGED <<files, cache>>
  /\ UNCHANGED <<rows, now, runs, history>>

\* Mutant: the empty file field becomes an empty key.
Saved_empty_key(me) ==
  [account |-> me.account, alias |-> me.form.alias, is_default |-> me.form.is_default,
   requisites |-> me.form.requisites, logo_key |-> IF me.logo # None THEN me.logo ELSE 0]

\* The row as the form and the upload leave the session's copy.
Saved(me) ==
  [account |-> me.account, alias |-> me.form.alias, is_default |-> me.form.is_default,
   requisites |-> me.form.requisites,
   logo_key |-> IF me.logo # None THEN me.logo
                ELSE IF me.row = None THEN None ELSE me.row.logo_key]

\* The UPDATE names the columns whose value differs from the loaded one.
Flushed(current, before, after) ==
  [column \in DOMAIN after |->
     IF before # None /\ after[column] = before[column] THEN current[column]
     ELSE after[column]]

ImageOf(row) == [requisites |-> row.requisites, logo |-> row.logo_key]

\* The flush and the commit of a create or an edit.  The row of a lone
\* UPDATE must still exist, and the alias must be unique in the account.
CommitSave(s) ==
  LET me == ses[s]
      o == me.org
      after == Saved(me)
      updated == me.cleared \cup (IF me.row \in {None, after} THEN {} ELSE {o})
      written == IF me.row = None THEN after
                 ELSE IF Exists(o) THEN Flushed(orgs[o], me.row, after) ELSE None
      marks == me.form.is_default /\ (me.row = None \/ ~me.row.is_default)
  IN
  /\ me.at = "save"
  /\ Cardinality(updated) = 1 => \A p \in updated : Exists(p)
  /\ written # None => AliasFree(me.account, written.alias, o)
  /\ orgs' = [p \in Orgs |->
       IF p = o THEN written
       ELSE IF p \in me.cleared /\ Exists(p) THEN [orgs[p] EXCEPT !.is_default = FALSE]
       ELSE orgs[p]]
  /\ ses' = [x \in Sessions |->
       IF x = s THEN Closed
       ELSE [ses[x] EXCEPT
         !.overtaken = @ \/ (marks /\ ses[x].account = me.account
                             /\ ses[x].at \in {"store", "save"}),
         !.window = IF ses[x].at \in {"invoice", "draw", "fetch"} /\ ses[x].org = o
                       /\ written # None
                    THEN @ \cup {ImageOf(written)} ELSE @]]
  /\ raced' = IF marks /\ me.overtaken THEN raced \cup {me.account} ELSE raced
  /\ UNCHANGED <<tokens, tokenLock, invoices, files, cache, now, runs, client, used>>

\* A deletion loads the row and deletes it with its invoices; deleting a row
\* that is gone already is a warning, not an error.
PanelDelete(s, o) == Exists(o) /\ Load(s, o, "delete", None)
CabinetDelete(s, viewer, o) == Own(viewer, o) /\ Load(s, o, "delete", None)

DeleteOrganization(s) ==
  LET o == ses[s].org IN
  /\ ses[s].at = "delete"
  /\ orgs' = [orgs EXCEPT ![o] = None]
  /\ invoices' = invoices \ {o}
  /\ client' = [client EXCEPT ![o] = None]
  /\ Close(s)
  /\ UNCHANGED <<tokens, files, cache, now, runs, used, raced>>

---------------------------------------------------------------------------
(* API keys *)

\* issue_token: a row of its own, so it meets nobody.
NewToken(a) == [account |-> a, revoked_at |-> None, last_used_at |-> None]
IssueToken(t, a) ==
  /\ tokens[t] = None
  /\ tokens' = [tokens EXCEPT ![t] = NewToken(a)]
  /\ UNCHANGED <<orgs, tokenLock, invoices, files, cache, now, ses, runs, history>>

\* The routes read the key and stamp it only when it is not revoked yet.
Stampable(t) == tokens[t] # None /\ tokens[t].revoked_at = None
PanelRevoke(s, t) ==
  /\ Stampable(t)
  /\ Open(s, [Closed EXCEPT !.at = "revoke", !.token = t, !.clock = now])
CabinetRevoke(s, viewer, t) ==
  /\ Stampable(t) /\ tokens[t].account = viewer
  /\ Open(s, [Closed EXCEPT !.at = "revoke", !.token = t, !.clock = now])
\* `nosbp token revoke` stamps every key with the prefix once more.
CommandRevoke(s, t) ==
  /\ tokens[t] # None
  /\ Open(s, [Closed EXCEPT !.at = "revoke", !.token = t, !.clock = now])

\* The UPDATE waits for a request that holds the row.
CommitRevoke(s) ==
  LET t == ses[s].token IN
  /\ ses[s].at = "revoke"
  /\ tokenLock[t] = None
  /\ tokens' = [tokens EXCEPT ![t].revoked_at = ses[s].clock]
  /\ Close(s)
  /\ UNCHANGED <<orgs, invoices, files, cache, now, runs, history>>

---------------------------------------------------------------------------
(* A QR request *)

\* authenticate: the key exists and is not revoked; its account is active
\* (module InvoiceFlow).  The time of the mark is captured here.  The reader
\* may send the ETag of an image it holds.
Authenticate(s, t, etag) ==
  /\ Stampable(t)
  /\ Open(s, [Closed EXCEPT !.at = "mark", !.token = t, !.account = tokens[t].account,
                !.clock = now, !.etag = etag,
                !.shown = IF etag = None THEN None ELSE client[etag]])

\* The WHERE of _mark_token_used: the last mark is older than the throttle.
MarkDue(t, clock) ==
  tokens[t].last_used_at = None \/ tokens[t].last_used_at < clock - Throttle

\* Mutant: the mark is an assignment without the condition of the WHERE.
MarkTokenUsed_always(s) ==
  LET t == ses[s].token IN
  /\ ses[s].at = "mark"
  /\ tokenLock[t] = None
  /\ tokenLock' = [tokenLock EXCEPT ![t] = s]
  /\ ses' = [ses EXCEPT ![s].at = "resolve", ![s].marked = TRUE]
  /\ UNCHANGED <<orgs, tokens, invoices, files, cache, now, runs, history>>

\* One UPDATE: when the mark is due it waits for the row, looks again, and
\* keeps the row locked to the end of the transaction; otherwise it neither
\* writes nor locks.
MarkTokenUsed(s) ==
  LET t == ses[s].token
      due == MarkDue(t, ses[s].clock)
  IN
  /\ ses[s].at = "mark"
  /\ due => tokenLock[t] = None
  /\ tokenLock' = IF due THEN [tokenLock EXCEPT ![t] = s] ELSE tokenLock
  /\ ses' = [ses EXCEPT ![s].at = "resolve", ![s].marked = due]
  /\ UNCHANGED <<orgs, tokens, invoices, files, cache, now, runs, history>>

\* The organisations resolve_organization may return: the one of the alias,
\* or the first of the default ones in no particular order.
Candidates(a, alias) ==
  IF alias = None THEN DefaultsOf(a) ELSE {o \in Of(a) : orgs[o].alias = alias}

\* The row is read once, and the payload and the colour are taken from it.
ResolveOrganization(s, alias) ==
  /\ ses[s].at = "resolve"
  /\ \E o \in Candidates(ses[s].account, alias) :
       ses' = [ses EXCEPT ![s].at = "invoice", ![s].org = o, ![s].row = orgs[o],
                          ![s].window = {ImageOf(orgs[o])}]
  /\ UNCHANGED <<rows, files, cache, now, runs, history>>

\* InvoiceService.resolve and the commit (module InvoiceFlow has the money):
\* the invoice refers to the organisation, so its row must still be there.
ResolveInvoice(s) ==
  LET t == ses[s].token IN
  /\ ses[s].at = "invoice"
  /\ Exists(ses[s].org)
  /\ invoices' = invoices \cup {ses[s].org}
  /\ tokens' = IF ses[s].marked
               THEN [tokens EXCEPT ![t].last_used_at = ses[s].clock] ELSE tokens
  /\ tokenLock' = [u \in Tokens |-> IF tokenLock[u] = s THEN None ELSE tokenLock[u]]
  /\ used' = [used EXCEPT ![t] = IF @ = None \/ @ < ses[s].clock THEN ses[s].clock ELSE @]
  /\ ses' = [ses EXCEPT ![s].at = "draw"]
  /\ UNCHANGED <<orgs, files, cache, now, runs, client, raced>>

\* The ETag sent is that of the invoice: 304, the reader keeps what it has.
NotModified(s) ==
  /\ ses[s].at = "draw"
  /\ ses[s].etag = ses[s].org
  /\ ses' = [ses EXCEPT ![s].at = "sent", ![s].fresh = FALSE]
  /\ UNCHANGED <<rows, files, cache, now, runs, history>>

---------------------------------------------------------------------------
(* The logo cache and the drawing *)

\* The image is sent with the data found for the logo of the row copy.
Send(s, logo) ==
  ses' = [ses EXCEPT ![s].at = "sent", ![s].fresh = TRUE,
                     ![s].shown = [requisites |-> ses[s].row.requisites, logo |-> logo]]

\* The image has to be drawn: the reader does not hold it.
Draws(s) == ses[s].at = "draw" /\ ses[s].etag # ses[s].org

\* LogoCache.get without a key: there is nothing to look for.
DrawPlain(s) ==
  /\ Draws(s)
  /\ ses[s].row.logo_key = None
  /\ Send(s, None)
  /\ UNCHANGED <<rows, files, cache, now, runs, history>>

\* LogoCache.get finds a live entry and makes it the most recent one.
CacheHit(s) ==
  LET key == ses[s].row.logo_key IN
  /\ Draws(s)
  /\ \E i \in DOMAIN cache :
       /\ cache[i].key = key /\ now < cache[i].expires
       /\ cache' = Append(Invalidate(key), cache[i])
       /\ Send(s, cache[i].data)
  /\ UNCHANGED <<rows, files, now, runs, history>>

\* LogoCache.get finds none or an outdated one: it goes to the bucket.
CacheMiss(s) ==
  LET key == ses[s].row.logo_key IN
  /\ Draws(s)
  /\ key # None
  /\ \A i \in DOMAIN cache : cache[i].key = key => ~(now < cache[i].expires)
  /\ cache' = Invalidate(key)
  /\ ses' = [ses EXCEPT ![s].at = "fetch", ![s].clock = now]
  /\ UNCHANGED <<rows, files, now, runs, history>>

\* The bytes of a stored file are named by its key; a missing file is None.
StorageGet(key) == IF key \in files THEN key ELSE None

\* _put: the newest entry goes last, the oldest beyond the limit goes away.
CachePut(entry) ==
  LET longer == Append(Invalidate(entry.key), entry) IN
  IF Len(longer) > CacheSize THEN Tail(longer) ELSE longer

\* Mutant: the logo is that of the row as it is now, not of the copy.
StorageAnswers_rereads(s) ==
  LET key == IF Exists(ses[s].org) THEN orgs[ses[s].org].logo_key ELSE ses[s].row.logo_key IN
  /\ ses[s].at = "fetch"
  /\ key # None
  /\ cache' = CachePut([key |-> key, expires |-> ses[s].clock + CacheTtl,
                        data |-> StorageGet(key)])
  /\ Send(s, StorageGet(key))
  /\ UNCHANGED <<rows, files, now, runs, history>>

\* The bucket answers, whatever happened to the cache meanwhile; the time to
\* live counts from before the question.
StorageAnswers(s) ==
  LET key == ses[s].row.logo_key IN
  /\ ses[s].at = "fetch"
  /\ cache' = CachePut([key |-> key, expires |-> ses[s].clock + CacheTtl,
                        data |-> StorageGet(key)])
  /\ Send(s, StorageGet(key))
  /\ UNCHANGED <<rows, files, now, runs, history>>

\* The image reaches the reader; an answer of /v1/qr carries the ETag and is
\* kept with it, a payment page is not kept.
Receive(s) ==
  LET o == ses[s].org IN
  /\ ses[s].at = "sent"
  /\ client' = IF ses[s].token # None /\ Exists(o)
               THEN [client EXCEPT ![o] = ses[s].shown] ELSE client
  /\ Close(s)
  /\ UNCHANGED <<orgs, tokens, invoices, files, cache, now, runs, used, raced>>

\* /pay/{token}/qr.png: the invoice and its organisation in one SELECT.
PaymentQr(s, o) ==
  /\ o \in invoices
  /\ Open(s, [Closed EXCEPT !.at = "draw", !.org = o, !.row = orgs[o],
                            !.window = {ImageOf(orgs[o])}])

---------------------------------------------------------------------------
(* The environment *)

\* A session ends without a commit: a refusal, an error, a lost connection.
Rollback(s) ==
  /\ ses[s].at \notin {"idle", "sent"}
  /\ Close(s)
  /\ UNCHANGED <<orgs, tokens, invoices, files, cache, now, runs, history>>

\* The server restarts: its cache and its sessions are gone.
Restart ==
  /\ cache # <<>>
  /\ cache' = <<>>
  /\ ses' = [s \in Sessions |-> Closed]
  /\ tokenLock' = [t \in Tokens |-> None]
  /\ UNCHANGED <<orgs, tokens, invoices, files, now, runs, history>>

Tick ==
  /\ now < MaxTime
  /\ now' = now + 1
  /\ UNCHANGED <<rows, files, cache, ses, runs, history>>

\* All bounds are used up and every session has ended.
Finished ==
  /\ \A s \in Sessions : ses[s].at = "idle"
  /\ runs = MaxRuns
  /\ now = MaxTime
  /\ UNCHANGED vars

Edit(s) ==
  \/ \E o \in Orgs, form \in Forms :
       \/ PanelCreate(s, o, form) \/ OrgAdd(s, o, form) \/ PanelEdit(s, o, form)
       \/ \E viewer \in Accounts :
            CabinetCreate(s, viewer, o, form) \/ CabinetEdit(s, viewer, o, form)
  \/ UpdateOrganization(s) \/ AttachLogo(s) \/ CommitSave(s)
  \/ \E o \in Orgs : PanelDelete(s, o) \/ \E viewer \in Accounts : CabinetDelete(s, viewer, o)
  \/ DeleteOrganization(s)

Keys(s) ==
  \/ \E t \in Tokens :
       PanelRevoke(s, t) \/ CommandRevoke(s, t)
       \/ \E viewer \in Accounts : CabinetRevoke(s, viewer, t)
  \/ CommitRevoke(s)

Request(s) ==
  \/ \E t \in Tokens, etag \in {None} \cup {o \in Orgs : client[o] # None} :
       Authenticate(s, t, etag)
  \/ MarkTokenUsed(s)
  \/ \E alias \in Aliases \cup {None} : ResolveOrganization(s, alias)
  \/ ResolveInvoice(s) \/ NotModified(s)
  \/ DrawPlain(s) \/ CacheHit(s) \/ CacheMiss(s) \/ StorageAnswers(s) \/ Receive(s)
  \/ \E o \in Orgs : PaymentQr(s, o)

Next ==
  \/ \E s \in Sessions : Edit(s) \/ Keys(s) \/ Request(s) \/ Rollback(s)
  \/ \E t \in Tokens, a \in Accounts : IssueToken(t, a)
  \/ Restart \/ Tick \/ Finished

Spec == Init /\ [][Next]_vars

---------------------------------------------------------------------------
(* Properties *)

\* Only one organisation of an account is the default one, whatever creates,
\* edits and deletions do, unless two saves that set the default overlapped:
\* clear_default_organization locks nothing, so both unmark the old default
\* and each keeps its own.
DefaultsNeedRace == \A a \in Accounts \ raced : Cardinality(DefaultsOf(a)) <= 1

\* A logo a row names is in the bucket, and a cached entry is what the bucket
\* holds: no answer misses its logo because of the order of upload, commit
\* and caching.  The cache keeps to its limit and holds a key once.
LogosAtHand ==
  /\ \A o \in Orgs : Exists(o) => orgs[o].logo_key \in files \cup {None}
  /\ Len(cache) <= CacheSize
  /\ \A i, j \in DOMAIN cache :
       /\ cache[i].data = cache[i].key
       /\ cache[i].key = cache[j].key => i = j

\* A drawn image shows the requisites and the logo of one and the same state
\* of the organisation, one it was in while the request was served.
AnswerShowsRow ==
  \A s \in Sessions : ses[s].at = "sent" /\ ses[s].fresh => ses[s].shown \in ses[s].window

\* The mark of a key lags behind the requests answered with it by no more
\* than the throttle, however their transactions overlap: by it the customer
\* decides which key to revoke.
MarksFollowUse ==
  \A t \in Tokens : used[t] # None =>
    /\ tokens[t].last_used_at # None
    /\ used[t] - Throttle <= tokens[t].last_used_at

\* _generate: the image of one invoice never changes, so that a reader who
\* holds it need not load it again.
SameInvoiceSameImage ==
  \A s \in Sessions : ses[s].at = "sent" => ses[s].shown \in ses[s].window
=============================================================================
