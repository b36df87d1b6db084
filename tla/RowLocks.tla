------------------------------ MODULE RowLocks ------------------------------
(***************************************************************************)
(* The row locks of one account.  Every handler is a transaction that takes *)
(* locks one after another and keeps them to its end; which rows, in which  *)
(* mode and in which order follows from its statements, from the order the  *)
(* ORM flushes tables and rows in (parents before children, deletions the   *)
(* other way round, rows of a table by primary key, its UPDATEs before its  *)
(* INSERTs), and from the foreign keys: an INSERT locks the rows it refers  *)
(* to, a DELETE cascades.  The modes are PostgreSQL's: an UPDATE is a No    *)
(* Key Update unless it changes a column with a unique index, here only the *)
(* alias of an organisation.  An alias is put into its index, which waits    *)
(* for whoever puts the same one in or writes the row that has it.          *)
(*                                                                          *)
(* Rows stay where they are: a transaction that finds a row gone fails      *)
(* (Fail) or goes on with fewer locks.                                      *)
(***************************************************************************)
EXTENDS Integers, FiniteSets, Sequences

CONSTANTS
  Sessions,  \* transactions; each runs once
  Account,   \* the row of the account
  Tokens, Orgs, Invites,  \* the keys, organisations and links of the account
  Cookies,   \* its sessions in the cabinet
  Invoices,  \* its invoices
  OrgOf,     \* their organisations
  Names,     \* aliases that no organisation has yet
  Place      \* the order of the primary keys of all but the invoices

Sortable == Tokens \cup Orgs \cup Invites \cup Cookies
Rows == {Account} \cup Sortable \cup Invoices \cup Names

ASSUME RowsAssumption ==
  /\ IsFiniteSet(Sessions) /\ IsFiniteSet(Sortable \cup Invoices)
  /\ Account \notin Sortable \cup Invoices \cup Names
  /\ Tokens \cap (Orgs \cup Invites \cup Cookies) = {}
  /\ Orgs \cap (Invites \cup Cookies) = {} /\ Invites \cap Cookies = {}
  /\ Invoices \cap Sortable = {} /\ Names \cap (Sortable \cup Invoices) = {}
  /\ OrgOf \in [Invoices -> Orgs]
  /\ Place \in [Sortable -> 1..Cardinality(Sortable)]
  /\ \A x, y \in Sortable : Place[x] = Place[y] => x = y

\* "Entry" is the entry of an alias in its index: of a name no row has yet, or
\* of the one that a row has.
Modes == {"KeyShare", "NoKeyUpdate", "Update", "Entry"}
Conflict(holds, wants) ==
  \/ {holds, wants} \subseteq {"NoKeyUpdate", "Update"}
  \/ {holds, wants} = {"KeyShare", "Update"}
  \/ wants = "Entry" /\ holds # "KeyShare"
Lock == [row: Rows, mode: Modes]

\* Programs are sets of sequences of locks: one lock, one after the other, and
\* the rows of one table in the order of their primary keys.
One(row, mode) == {<<[row |-> row, mode |-> mode]>>}
Then(first, second) == {a \o b : a \in first, b \in second}
Each(set, mode) ==
  {[i \in DOMAIN q |-> [row |-> q[i], mode |-> mode[q[i]]]] :
     q \in {p \in [1..Cardinality(set) -> set] :
              \A i, j \in DOMAIN p : i < j => Place[p[i]] < Place[p[j]]}}
Writes(set) == Each(set, [row \in set |-> "NoKeyUpdate"])
Deletes(set) == Each(set, [row \in set |-> "Update"])

\* Rows that a statement of the database deletes: nothing orders them.
AnyOrder(set) ==
  {[i \in DOMAIN q |-> [row |-> q[i], mode |-> "Update"]] :
     q \in {p \in [1..Cardinality(set) -> set] :
              \A i, j \in DOMAIN p : i # j => p[i] # p[j]}}

---------------------------------------------------------------------------
(* The transactions of a request *)

\* Mutant: the mark is a pending change, flushed when the ORM comes to it.
Request_mark_anywhere(body) ==
  body \cup UNION {Then(One(t, "NoKeyUpdate"), body) \cup Then(body, One(t, "NoKeyUpdate")) :
                     t \in Tokens}

\* authenticate marks the key at once, when the mark is due.
Request(body) == body \cup UNION {Then(One(t, "NoKeyUpdate"), body) : t \in Tokens}

\* The fast path counts a hit.
Hit == UNION {Request(One(i, "NoKeyUpdate")) : i \in Invoices}

\* The slow path locks the account; a new invoice refers to its organisation,
\* an old one is renewed.  The journal entry refers to rows held already.
NewInvoice ==
  UNION {Request(Then(One(Account, "Update"), One(o, "KeyShare"))) : o \in Orgs}
RenewInvoice ==
  UNION {Request(Then(One(Account, "Update"), One(i, "NoKeyUpdate"))) : i \in Invoices}

---------------------------------------------------------------------------
(* The panel, the cabinet and the command line *)

\* topup, refund, adjust; the account card and the cabinet's own columns.
BalanceCommand == One(Account, "Update")
SaveAccount == One(Account, "NoKeyUpdate")

\* The check for duplicates has seen the alias free; by now a row may have it.
TakeName(orgs) == UNION {One(x, "Entry") : x \in Names \cup orgs}

\* The former defaults are unmarked in the flush that adds the organisation,
\* which refers to its account.
CreateOrganization ==
  UNION {Then(Writes(cleared), Then(TakeName(Orgs), One(Account, "KeyShare"))) :
           cleared \in SUBSET Orgs}

\* An edit of one organisation may unmark others.
EditOrganization == UNION {Writes({o} \cup cleared) : o \in Orgs, cleared \in SUBSET Orgs}

\* A new alias is put into the index with its row.
RenameFlush(o, cleared) ==
  Then(Writes({p \in cleared : Place[p] < Place[o]}),
       Then(Then(One(o, "Update"), TakeName(Orgs \ {o})),
            Writes({p \in cleared : Place[p] > Place[o]})))
RenameOrganization == UNION {RenameFlush(o, cleared) : o \in Orgs, cleared \in SUBSET Orgs}

\* The invoices go by the foreign key.
InvoicesGone(os) == AnyOrder({i \in Invoices : OrgOf[i] \in os})
DeleteOrganization == UNION {Then(One(o, "Update"), InvoicesGone({o})) : o \in Orgs}

IssueToken == One(Account, "KeyShare")
RevokeToken == UNION {Writes(set) : set \in (SUBSET Tokens) \ {{}}}

\* issue: the pending links of a purpose are marked and a new one is added.
\* confirm marks a link, the first time together with the account.
IssueInvite == UNION {Then(Writes(set), One(Account, "KeyShare")) : set \in SUBSET Invites}
MarkInvite == UNION {One(l, "NoKeyUpdate") : l \in Invites}
ConfirmEmail == MarkInvite \cup Then(One(Account, "NoKeyUpdate"), MarkInvite)

\* A page of the cabinet, a logout: the mark or the end of one session.
MarkSession == UNION {One(c, "NoKeyUpdate") : c \in Cookies}

\* close_all after a change of the password, in a commit of its own, or in the
\* commit that sets the password by a link.
CloseAll == UNION {Writes(set) : set \in SUBSET Cookies}
SetPassword == Then(Then(One(Account, "NoKeyUpdate"), MarkInvite), CloseAll)

\* open: stale sessions are deleted before the flush, which marks the login
\* or, right after a registration or a link, only refers to the account.
OpenSession ==
  UNION {Then(AnyOrder(set), One(Account, "NoKeyUpdate") \cup One(Account, "KeyShare")) :
           set \in SUBSET Cookies}

\* delete_account: keys and organisations, in whichever order the ORM takes
\* them, and the account; the rest goes by the foreign keys.
OrgsGone == Then(Deletes(Orgs), InvoicesGone(Orgs))
DeleteAccount ==
  Then(Then(Deletes(Tokens), OrgsGone) \cup Then(OrgsGone, Deletes(Tokens)),
       Then(One(Account, "Update"),
            Then(AnyOrder(Invites), AnyOrder(Cookies))
              \cup Then(AnyOrder(Cookies), AnyOrder(Invites))))

Kinds == {"request", "panel", "edit", "create", "rename",
          "page", "close_all", "login", "delete_account"}
Programs ==
  [request |-> Hit \cup NewInvoice \cup RenewInvoice,
   panel |-> BalanceCommand \cup SaveAccount \cup IssueToken \cup RevokeToken
             \cup IssueInvite \cup ConfirmEmail,
   edit |-> EditOrganization \cup DeleteOrganization,
   create |-> CreateOrganization,
   rename |-> RenameOrganization,
   page |-> MarkSession,
   close_all |-> CloseAll \cup SetPassword,
   login |-> OpenSession,
   delete_account |-> DeleteAccount]

---------------------------------------------------------------------------
VARIABLES
  kind,  \* per session, what it runs, "none" before it starts, "over" at the end
  todo,  \* the locks it still has to take
  held   \* the locks it holds

vars == <<kind, todo, held>>

TypeOK ==
  /\ kind \in [Sessions -> Kinds \cup {"none", "over"}]
  /\ todo \in [Sessions -> Seq(Lock)]
  /\ held \in [Sessions -> SUBSET Lock]

Init ==
  /\ kind = [s \in Sessions |-> "none"]
  /\ todo = [s \in Sessions |-> <<>>]
  /\ held = [s \in Sessions |-> {}]

Running == {s \in Sessions : kind[s] \in Kinds}

Begin(s, k) ==
  /\ kind[s] = "none"
  /\ kind' = [kind EXCEPT ![s] = k]
  /\ \E program \in Programs[k] : todo' = [todo EXCEPT ![s] = program]
  /\ UNCHANGED held

\* The sessions that hold the row the session needs next in a mode that
\* conflicts with its own.
Blockers(s) ==
  {h \in Sessions \ {s} :
     todo[s] # <<>> /\ \E lock \in held[h] :
       lock.row = Head(todo[s]).row /\ Conflict(lock.mode, Head(todo[s]).mode)}

Acquire(s) ==
  /\ s \in Running /\ todo[s] # <<>>
  /\ Blockers(s) = {}
  /\ held' = [held EXCEPT ![s] = @ \cup {Head(todo[s])}]
  /\ todo' = [todo EXCEPT ![s] = Tail(@)]
  /\ UNCHANGED kind

\* The transaction is over and its locks are free.
End(s) ==
  /\ kind' = [kind EXCEPT ![s] = "over"]
  /\ held' = [held EXCEPT ![s] = {}]
  /\ todo' = [todo EXCEPT ![s] = <<>>]

Commit(s) == s \in Running /\ todo[s] = <<>> /\ End(s)

\* Mutant: a failed handler leaves its transaction open.
Fail_without_rollback(s) ==
  /\ s \in Running
  /\ kind' = [kind EXCEPT ![s] = "over"]
  /\ todo' = [todo EXCEPT ![s] = <<>>]
  /\ UNCHANGED held

\* get_db rolls back whatever ends a handler early.
Fail(s) == s \in Running /\ End(s)

\* Every session of the set waits for another one of it.
Stuck(set) == set # {} /\ \A s \in set : Blockers(s) \cap set # {}

\* PostgreSQL ends one of the transactions that wait for each other.
DeadlockDetected(s) ==
  /\ \E set \in SUBSET Running :
       s \in set /\ Stuck(set) /\ \A smaller \in SUBSET set : Stuck(smaller) => smaller = set
  /\ End(s)

Finished == (\A s \in Sessions : kind[s] = "over") /\ UNCHANGED vars

Next ==
  \/ \E s \in Sessions :
       \/ \E k \in Kinds : Begin(s, k)
       \/ Acquire(s) \/ Commit(s) \/ Fail(s) \/ DeadlockDetected(s)
  \/ Finished

\* The database grants what is free and looks for deadlocks, the server goes
\* on with what was granted; nobody has to start or to fail.
Proceed(s) == Acquire(s) \/ Commit(s)
Fairness ==
  /\ \A s \in Sessions : WF_vars(Proceed(s))
  /\ WF_vars(\E s \in Sessions : DeadlockDetected(s))
Spec == Init /\ [][Next]_vars /\ Fairness

---------------------------------------------------------------------------
(* Properties *)

\* Requests never wait for each other in a circle, and neither do they with
\* what the panel, the cabinet and the command line do: _mark_token_used relies
\* on one order of key, account and invoice.  The exceptions are a deletion of
\* the account; the alias of a new or renamed organisation, of which nobody
\* knows who else takes it until the flush, against another one or an edit;
\* and the stale sessions that a login deletes in no order and before its
\* account, against another login or the end of all sessions.
DeadlocksNamed ==
  \A set \in SUBSET Running : Stuck(set) =>
    \/ \E s \in set : kind[s] = "delete_account"
    \/ \E r, s \in set : /\ r # s /\ kind[s] \in {"create", "rename"}
                          /\ kind[r] \in {"create", "rename", "edit"}
    \/ \E r, s \in set : r # s /\ kind[s] = "login" /\ kind[r] \in {"login", "close_all"}

\* Every transaction ends, also when others fail or wait for each other: as
\* each runs once, there are times without any again and again.
EveryoneEnds == []<>(Running = {})
=============================================================================
