------------------------ MODULE CabinetAccessProofs ------------------------
(***************************************************************************)
(* What every interleaving of the handlers of CabinetAccess keeps, for any *)
(* number of handlers and for every limit and lifetime.                    *)
(***************************************************************************)
EXTENDS CabinetAccess, FiniteSetTheorems, TLAPS

---------------------------------------------------------------------------
(* The inductive invariant *)

\* The places of a handler that was opened with a link and has not used it.
LinkPlaces == {"link", "use", "confirm"}

\* A copy of the account was a row once, and a link that was read exists.
CopiesOK ==
  \A h \in Handlers :
    /\ hs[h].loaded.failed < MaxAttempts
    /\ hs[h].at \in LinkPlaces => hs[h].link \in DOMAIN links

TypeInv == TypeOK /\ CopiesOK

\* A confirmed address stays confirmed, so a copy may be trusted on it.
ConfirmedInv ==
  /\ \A h \in Handlers : hs[h].loaded.confirmed => account.confirmed
  /\ \A h \in Handlers : hs[h].at = "open" => account.confirmed
  /\ SessionsConfirmed

\* No login is on its way that read a lock in force.
LoginsUnlocked ==
  \A h \in Handlers : hs[h].at = "login" => hs[h].loaded.locked_until <= now

\* The handlers that were opened with a link and have not used it.
Holders(i) == {h \in Handlers : hs[h].at \in LinkPlaces /\ hs[h].link = i}

\* A link that may still be opened was never accepted, and its acceptances
\* with those on their way are no more than there are handlers.
LinkInv ==
  \A i \in DOMAIN links :
    /\ ~links[i].used => uses[i] = 0
    /\ uses[i] + Cardinality(Holders(i)) <= Cardinality(Handlers)

\* A handler about to close sessions has listed all but the late ones, and
\* between changes of password every other session has the last password.
ClosingInv ==
  /\ \A h \in Handlers :
       hs[h].at \in {"use", "close"} => live \ late \subseteq hs[h].closing
  /\ interrupted \/ MidChange \/ \A i \in live \ late : sessions[i] >= passwords
  /\ account.password.set <= passwords
  /\ \A h \in Handlers : hs[h].loaded.password.set <= passwords

---------------------------------------------------------------------------
(* The pieces of a step *)

LEMMA HandlerTypes ==
  ASSUME TypeOK, NEW h \in Handlers
  PROVE  /\ hs[h] \in Handler
         /\ hs[h].loaded \in AccountRow /\ hs[h].started \in Nat
         /\ hs[h].closing \in SUBSET Nat /\ hs[h].link \in Nat /\ hs[h].proof \in Nat
         /\ hs[h].ttl \in Nat /\ hs[h].purpose \in Purposes
<1>1. hs[h] \in Handler
  BY DEF TypeOK
<1> QED
  BY <1>1 DEF Handler

LEMMA NewAccountType ==
  ASSUME NEW set \in Nat, NEW outdated \in BOOLEAN, NEW confirmed \in BOOLEAN
  PROVE  /\ NewAccount(set, outdated, confirmed) \in AccountRow
         /\ NewAccount(set, outdated, confirmed).failed = 0
         /\ NewAccount(set, outdated, confirmed).locked_until = 0
         /\ NewAccount(set, outdated, confirmed).confirmed = confirmed
         /\ NewAccount(set, outdated, confirmed).password.set = set
  BY DEF NewAccount, AccountRow, Hash

LEMMA IdleType ==
  /\ Idle \in Handler /\ Idle.at = "idle" /\ ~Idle.form
  /\ Idle.loaded = NewAccount(0, FALSE, FALSE)
  /\ Idle.loaded.failed = 0 /\ ~Idle.loaded.confirmed /\ Idle.loaded.password.set = 0
<1>1. /\ NewAccount(0, FALSE, FALSE) \in AccountRow
      /\ NewAccount(0, FALSE, FALSE).failed = 0
      /\ ~NewAccount(0, FALSE, FALSE).confirmed
      /\ NewAccount(0, FALSE, FALSE).password.set = 0
  BY NewAccountType
<1> QED
  BY <1>1 DEF Idle, Handler, Places, Purposes

\* What a commit leaves in each column.
LEMMA WriteBackFields ==
  ASSUME account \in AccountRow, NEW before \in AccountRow, NEW after \in AccountRow
  PROVE  LET new == WriteBack(before, after) IN
         /\ new \in AccountRow
         /\ new.password \in {account.password, after.password}
         /\ new.failed \in {account.failed, after.failed}
         /\ new.locked_until = Flushed(account.locked_until, before.locked_until, after.locked_until)
         /\ new.confirmed = Flushed(account.confirmed, before.confirmed, after.confirmed)
  BY DEF WriteBack, Flushed, AccountRow

LEMMA FailedRowEffect ==
  ASSUME NEW row \in AccountRow, NEW time \in Nat
  PROVE  LET new == FailedRow(row, time) IN
         /\ new \in AccountRow
         /\ new.failed < MaxAttempts
         /\ new.confirmed = row.confirmed
         /\ new.password = row.password
<1> DEFINE full == [row EXCEPT !.failed = 0, !.locked_until = time + LockTime]
           counted == [row EXCEPT !.failed = row.failed + 1]
<1>1. FailedRow(row, time) = IF row.failed + 1 >= MaxAttempts THEN full ELSE counted
  BY DEF FailedRow
<1>2. /\ full \in AccountRow /\ full.failed = 0
      /\ full.confirmed = row.confirmed /\ full.password = row.password
  <2>1. time + LockTime \in Nat
    BY AccessAssumption
  <2> QED
    BY <2>1 DEF AccountRow
<1>3. /\ counted \in AccountRow /\ counted.failed = row.failed + 1
      /\ counted.confirmed = row.confirmed /\ counted.password = row.password
  BY DEF AccountRow
<1>4. row.failed \in Nat
  BY DEF AccountRow
<1> HIDE DEF full, counted
<1> QED
  BY <1>1, <1>2, <1>3, <1>4, AccessAssumption

LEMMA SignedInRowEffect ==
  ASSUME NEW row \in AccountRow
  PROVE  LET new == SignedInRow(row) IN
         /\ new \in AccountRow
         /\ new.failed = 0
         /\ new.locked_until = 0
         /\ new.confirmed = row.confirmed
         /\ new.password.set = row.password.set
  BY DEF SignedInRow, AccountRow, Hash

LEMMA NewPasswordEffect ==
  ASSUME NEW row \in AccountRow, passwords \in Nat
  PROVE  LET new == NewPassword(row)
             reset == [NewPassword(row) EXCEPT !.failed = 0, !.locked_until = 0,
                                               !.confirmed = TRUE]
         IN
         /\ new \in AccountRow /\ reset \in AccountRow
         /\ new.password.set = passwords + 1 /\ reset.password.set = passwords + 1
         /\ new.failed = row.failed /\ reset.failed = 0
         /\ new.locked_until = row.locked_until /\ reset.locked_until = 0
         /\ new.confirmed = row.confirmed /\ reset.confirmed
<1> DEFINE new == NewPassword(row)
<1>1. [set |-> passwords + 1, outdated |-> FALSE] \in Hash
  BY DEF Hash
<1>2. /\ new \in AccountRow /\ new.password.set = passwords + 1
      /\ new.failed = row.failed /\ new.locked_until = row.locked_until
      /\ new.confirmed = row.confirmed
  BY <1>1 DEF NewPassword, AccountRow
<1> HIDE DEF new
<1> DEFINE reset == [new EXCEPT !.failed = 0, !.locked_until = 0, !.confirmed = TRUE]
<1>3. /\ reset \in AccountRow /\ reset.password = new.password
      /\ reset.failed = 0 /\ reset.locked_until = 0 /\ reset.confirmed
  BY <1>2 DEF AccountRow
<1> QED
  BY <1>2, <1>3 DEF new

\* The copies and clocks with which a handler may start.
GoodEntry(entry) ==
  /\ entry \in Handler
  /\ entry.loaded = account
  /\ entry.at \in {"login", "issue", "link", "confirm", "change"}
  /\ entry.at = "login" => account.locked_until <= now
  /\ entry.at \in LinkPlaces =>
       entry.link \in DOMAIN links /\ ~links[entry.link].used
  /\ entry.form => entry.purpose = "password" /\ CountRecent("password") < MaxPerHour

Started(h) == \E entry : GoodEntry(entry) /\ Start(h, entry)

LEMMA EntryType ==
  ASSUME TypeOK, NEW place \in Places
  PROVE  /\ Entry(place) \in Handler
         /\ Entry(place).at = place
         /\ Entry(place).loaded = account
         /\ ~Entry(place).form
<1>1. account \in AccountRow /\ now \in Nat
  BY AccessAssumption DEF TypeOK
<1> QED
  BY <1>1, IdleType DEF Entry, Handler

LEMMA IssuingType ==
  ASSUME TypeOK, NEW purpose \in Purposes, NEW ttl \in Nat, NEW form \in BOOLEAN
  PROVE  /\ Issuing(purpose, ttl, form) \in Handler
         /\ Issuing(purpose, ttl, form).at = "issue"
         /\ Issuing(purpose, ttl, form).loaded = account
         /\ Issuing(purpose, ttl, form).form = form
         /\ Issuing(purpose, ttl, form).purpose = purpose
<1>1. "issue" \in Places
  BY DEF Places
<1>2. Entry("issue") \in Handler /\ Entry("issue").at = "issue" /\ Entry("issue").loaded = account
  BY <1>1, EntryType
<1> QED
  BY <1>2 DEF Issuing, Handler

\* Every way to start a handler is a start with a good entry.
LEMMA StartsAreGood ==
  ASSUME TypeOK, NEW h \in Handlers,
         \/ StartLogin(h) \/ StartForgot(h) \/ StartInvite(h) \/ StartResend(h)
         \/ StartSetPassword(h) \/ StartConfirm(h) \/ StartChange(h)
  PROVE  Started(h)
<1>1. CASE StartLogin(h)
  <2>1. now \in Nat /\ account.locked_until \in Nat
    BY AccessAssumption DEF TypeOK, AccountRow
  <2>2. "login" \in Places
    BY DEF Places
  <2>3. /\ Entry("login") \in Handler /\ Entry("login").at = "login"
        /\ Entry("login").loaded = account /\ ~Entry("login").form
    BY <2>2, EntryType
  <2>4. GoodEntry(Entry("login"))
    BY <1>1, <2>1, <2>3 DEF GoodEntry, LinkPlaces, StartLogin
  <2> QED
    BY <1>1, <2>4 DEF Started, StartLogin
<1>2. CASE StartForgot(h) \/ StartInvite(h) \/ StartResend(h)
  <2>1. PICK purpose \in Purposes, ttl \in Nat, form \in BOOLEAN :
          /\ Start(h, Issuing(purpose, ttl, form))
          /\ form => purpose = "password" /\ CountRecent("password") < MaxPerHour
    BY <1>2, AccessAssumption DEF StartForgot, StartInvite, StartResend, Purposes
  <2>2. /\ Issuing(purpose, ttl, form) \in Handler
        /\ Issuing(purpose, ttl, form).at = "issue"
        /\ Issuing(purpose, ttl, form).loaded = account
        /\ Issuing(purpose, ttl, form).form = form
        /\ Issuing(purpose, ttl, form).purpose = purpose
    BY IssuingType
  <2>3. GoodEntry(Issuing(purpose, ttl, form))
    BY <2>1, <2>2 DEF GoodEntry, LinkPlaces
  <2> QED
    BY <2>1, <2>3 DEF Started
<1>3. ASSUME NEW purpose, NEW place \in {"link", "confirm"}, OpenLink(h, purpose, place)
      PROVE  Started(h)
  <2>1. PICK i \in DOMAIN links :
          IsUsable(links[i], now) /\ Start(h, [Entry(place) EXCEPT !.link = i])
    BY <1>3 DEF OpenLink
  <2>2. place \in Places
    BY <1>3 DEF Places
  <2>3. /\ Entry(place) \in Handler /\ Entry(place).at = place
        /\ Entry(place).loaded = account /\ ~Entry(place).form
    BY <2>2, EntryType
  <2>4. i \in Nat
    BY DEF TypeOK
  <2>5. GoodEntry([Entry(place) EXCEPT !.link = i])
    BY <1>3, <2>1, <2>3, <2>4 DEF GoodEntry, LinkPlaces, IsUsable, Handler
  <2> QED
    BY <2>1, <2>5 DEF Started
<1>4. CASE StartChange(h)
  <2>1. "change" \in Places
    BY DEF Places
  <2>2. /\ Entry("change") \in Handler /\ Entry("change").at = "change"
        /\ Entry("change").loaded = account /\ ~Entry("change").form
    BY <2>1, EntryType
  <2>3. GoodEntry(Entry("change"))
    BY <2>2 DEF GoodEntry, LinkPlaces
  <2> QED
    BY <1>4, <2>3 DEF Started, StartChange
<1> QED
  BY <1>1, <1>2, <1>3, <1>4 DEF StartSetPassword, StartConfirm

\* A handler's own step after its start.
Proceeds(h) ==
  \/ LoginFails(h) \/ SignIn(h) \/ RevokePending(h) \/ CommitLink(h)
  \/ ListSessions(h) \/ SetPassword(h) \/ OpenAfterReset(h) \/ ConfirmEmail(h)
  \/ ChangePassword(h) \/ CloseAll(h) \/ Abandon(h)

LEMMA StepKinds ==
  ASSUME TypeOK, Next
  PROVE  \/ \E h \in Handlers : Started(h) \/ Proceeds(h)
         \/ \E i \in live : CloseSession(i)
         \/ \E active \in BOOLEAN : SetActive(active)
         \/ Tick
  BY StartsAreGood DEF Next, Proceeds

\* One handler moves, the others stay.
LEMMA OneHandlerMoves ==
  ASSUME TypeOK, NEW h \in Handlers, NEW rec \in Handler, hs' = [hs EXCEPT ![h] = rec]
  PROVE  /\ hs' \in [Handlers -> Handler]
         /\ hs'[h] = rec
         /\ \A g \in Handlers : g # h => hs'[g] = hs[g]
  BY DEF TypeOK

\* A handler that goes on without having ended keeps its copy and its link.
LEMMA HandlerGoesOn ==
  ASSUME TypeOK, NEW h \in Handlers, RevokePending(h) \/ ListSessions(h) \/ ChangePassword(h)
  PROVE  /\ \A g \in Handlers : g # h => hs'[g] = hs[g]
         /\ hs'[h].loaded = hs[h].loaded /\ hs'[h].link = hs[h].link
         /\ hs'[h].at \in {"issued", "use", "close", "changed"}
         /\ hs'[h].at \in LinkPlaces => hs[h].at \in LinkPlaces
<1>1. hs[h] \in Handler /\ hs \in [Handlers -> Handler]
  BY DEF TypeOK
<1>2. CASE RevokePending(h)
  BY <1>1, <1>2 DEF RevokePending, Handler, LinkPlaces
<1>3. CASE ListSessions(h)
  <2>1. PICK place \in {"use", "close"} :
          /\ hs' = [hs EXCEPT ![h].at = place, ![h].closing = live]
          /\ place = "use" => hs[h].at = "link"
    BY <1>3 DEF ListSessions
  <2> QED
    BY <1>1, <2>1 DEF Handler, LinkPlaces
<1>4. CASE ChangePassword(h)
  <2>1. hs' = [hs EXCEPT ![h].at = "changed"]
    BY <1>4 DEF ChangePassword, Goto
  <2> QED
    BY <1>1, <2>1 DEF Handler, LinkPlaces
<1> QED
  BY <1>2, <1>3, <1>4

LEMMA HandlerEnds ==
  ASSUME TypeOK, NEW h \in Handlers, End(h)
  PROVE  /\ hs' \in [Handlers -> Handler]
         /\ hs'[h] = Idle
         /\ \A g \in Handlers : g # h => hs'[g] = hs[g]
  BY IdleType, OneHandlerMoves DEF End

\* The copies stay good when one handler moves to a good copy and no link
\* disappears.
LEMMA CopiesStay ==
  ASSUME CopiesOK, NEW h \in Handlers,
         \A g \in Handlers : g # h => hs'[g] = hs[g],
         hs'[h].loaded.failed < MaxAttempts,
         hs'[h].at \in LinkPlaces => hs'[h].link \in DOMAIN links',
         DOMAIN links \subseteq DOMAIN links'
  PROVE  CopiesOK'
  BY DEF CopiesOK

LEMMA EndedCopies ==
  ASSUME TypeInv, NEW h \in Handlers, End(h), DOMAIN links \subseteq DOMAIN links'
  PROVE  CopiesOK'
<1>1. hs'[h] = Idle /\ \A g \in Handlers : g # h => hs'[g] = hs[g]
  BY HandlerEnds DEF TypeInv
<1>2. Idle.loaded.failed < MaxAttempts /\ Idle.at \notin LinkPlaces
  <2>1. 0 < MaxAttempts
    BY AccessAssumption
  <2>2. Idle.loaded.failed = 0 /\ Idle.at = "idle"
    BY IdleType
  <2> QED
    BY <2>1, <2>2 DEF LinkPlaces
<1> QED
  BY <1>1, <1>2, CopiesStay DEF TypeInv

LEMMA SessionOpens ==
  ASSUME TypeOK, NEW proof \in Nat, OpenSession(proof)
  PROVE  /\ sessions' \in Seq(Nat)
         /\ DOMAIN sessions' = DOMAIN sessions \cup {Len(sessions) + 1}
         /\ live' \subseteq DOMAIN sessions'
         /\ late' \subseteq DOMAIN sessions'
         /\ sessions'[Len(sessions) + 1] = proof
         /\ \A i \in DOMAIN sessions : sessions'[i] = sessions[i]
<1>1. sessions \in Seq(Nat) /\ live \subseteq DOMAIN sessions /\ late \subseteq DOMAIN sessions
  BY DEF TypeOK
<1>2. sessions' = Append(sessions, proof)
  BY DEF OpenSession
<1>3. /\ sessions' \in Seq(Nat)
      /\ DOMAIN sessions' = DOMAIN sessions \cup {Len(sessions) + 1}
      /\ sessions'[Len(sessions) + 1] = proof
      /\ \A i \in DOMAIN sessions : sessions'[i] = sessions[i]
  BY <1>1, <1>2
<1> QED
  BY <1>1, <1>3 DEF OpenSession

LEMMA LinkMarked ==
  ASSUME TypeOK, NEW i \in DOMAIN links, MarkUsed(i)
  PROVE  /\ links' \in Seq(Invite) /\ DOMAIN links' = DOMAIN links
         /\ uses' \in Seq(Nat) /\ Len(uses') = Len(links')
         /\ links'[i].used /\ uses'[i] = uses[i] + 1
         /\ links'[i].purpose = links[i].purpose /\ links'[i].created = links[i].created
         /\ \A j \in DOMAIN links : j # i => links'[j] = links[j] /\ uses'[j] = uses[j]
<1>1. /\ links \in Seq(Invite) /\ uses \in Seq(Nat) /\ Len(uses) = Len(links)
      /\ links[i] \in Invite /\ uses[i] \in Nat
  BY DEF TypeOK
<1> DEFINE marked == [links[i] EXCEPT !.used = TRUE]
<1>2. /\ marked \in Invite /\ marked.used
      /\ marked.purpose = links[i].purpose /\ marked.created = links[i].created
  BY <1>1 DEF Invite
<1>3. links' = [links EXCEPT ![i] = marked]
  BY DEF MarkUsed
<1> HIDE DEF marked
<1>4. /\ links' \in Seq(Invite) /\ Len(links') = Len(links) /\ DOMAIN links' = DOMAIN links
      /\ links'[i] = marked
      /\ \A j \in DOMAIN links : j # i => links'[j] = links[j]
  BY <1>1, <1>2, <1>3
<1>5. /\ uses' \in Seq(Nat) /\ Len(uses') = Len(uses) /\ uses'[i] = uses[i] + 1
      /\ \A j \in DOMAIN links : j # i => uses'[j] = uses[j]
  BY <1>1 DEF MarkUsed
<1> QED
  BY <1>1, <1>2, <1>4, <1>5

LEMMA LinkCommitted ==
  ASSUME TypeOK, NEW h \in Handlers, CommitLink(h)
  PROVE  /\ links' \in Seq(Invite) /\ Len(links') = Len(links) + 1
         /\ DOMAIN links' = DOMAIN links \cup {Len(links) + 1}
         /\ uses' \in Seq(Nat) /\ Len(uses') = Len(links')
         /\ ~links'[Len(links) + 1].used /\ uses'[Len(links) + 1] = 0
         /\ links'[Len(links) + 1].purpose = hs[h].purpose
         /\ links'[Len(links) + 1].created = now
         /\ \A j \in DOMAIN links : uses'[j] = uses[j] /\ (links[j].used => links'[j].used)
         /\ \A j \in DOMAIN links :
              /\ links'[j].purpose = links[j].purpose /\ links'[j].created = links[j].created
              /\ j \in hs[h].pending => links'[j].used
<1> DEFINE revoked == [i \in DOMAIN links |->
             IF i \in hs[h].pending THEN [links[i] EXCEPT !.used = TRUE] ELSE links[i]]
           new == [purpose |-> hs[h].purpose, created |-> now,
                   expires |-> hs[h].started + hs[h].ttl, used |-> FALSE]
<1>1. /\ links \in Seq(Invite) /\ uses \in Seq(Nat) /\ Len(uses) = Len(links)
      /\ \A i \in DOMAIN links : links[i] \in Invite
  BY DEF TypeOK
<1>2. new \in Invite /\ ~new.used /\ new.purpose = hs[h].purpose /\ new.created = now
  <2>1. now \in Nat
    BY AccessAssumption DEF TypeOK
  <2> QED
    BY <2>1, HandlerTypes DEF Invite
<1>3. ASSUME NEW i \in DOMAIN links
      PROVE  /\ revoked[i] \in Invite /\ (links[i].used => revoked[i].used)
             /\ revoked[i].purpose = links[i].purpose /\ revoked[i].created = links[i].created
             /\ i \in hs[h].pending => revoked[i].used
  BY <1>1 DEF Invite
<1>4. revoked \in Seq(Invite) /\ Len(revoked) = Len(links) /\ DOMAIN revoked = DOMAIN links
  <2>1. DOMAIN revoked = 1..Len(links) /\ DOMAIN links = 1..Len(links) /\ Len(links) \in Nat
    BY <1>1
  <2>2. revoked \in [1..Len(links) -> Invite]
    BY <1>3, <2>1
  <2> HIDE DEF revoked
  <2> QED
    BY <2>1, <2>2
<1>5. links' = Append(revoked, new) /\ uses' = Append(uses, 0)
  BY DEF CommitLink
<1> HIDE DEF revoked, new
<1>6. /\ links' \in Seq(Invite) /\ Len(links') = Len(links) + 1
      /\ DOMAIN links' = DOMAIN links \cup {Len(links) + 1}
      /\ links'[Len(links) + 1] = new
      /\ \A j \in DOMAIN links : links'[j] = revoked[j]
  BY <1>1, <1>2, <1>4, <1>5
<1>7. /\ uses' \in Seq(Nat) /\ Len(uses') = Len(uses) + 1 /\ uses'[Len(links) + 1] = 0
      /\ \A j \in DOMAIN links : uses'[j] = uses[j]
  BY <1>1, <1>5
<1> QED
  BY <1>1, <1>2, <1>3, <1>6, <1>7

---------------------------------------------------------------------------
(* Types *)

LEMMA TypeInit == Init => TypeInv
<1> SUFFICES ASSUME Init PROVE TypeInv
  OBVIOUS
<1>1. /\ account \in AccountRow /\ account.failed = 0
      /\ links \in Seq(Invite) /\ sessions \in Seq(Nat) /\ passwords \in Nat
  <2>1. CASE InitCreated
    <3>1. account = NewAccount(0, FALSE, FALSE)
      BY <2>1 DEF InitCreated
    <3>2. account \in AccountRow /\ account.failed = 0
      BY <3>1, NewAccountType
    <3>3. links = <<>> /\ sessions = <<>> /\ passwords = 0
      BY <2>1 DEF InitCreated
    <3> QED
      BY <3>2, <3>3
  <2>2. CASE InitRegistered
    <3>1. account \in AccountRow /\ account.failed = 0
      <4>1. PICK outdated \in BOOLEAN : account = NewAccount(1, outdated, FALSE)
        BY <2>2 DEF InitRegistered
      <4> QED
        BY <4>1, NewAccountType
    <3>2. [purpose |-> "email", created |-> 0, expires |-> ConfirmTtl, used |-> FALSE] \in Invite
      BY AccessAssumption DEF Invite, Purposes
    <3>3. links \in Seq(Invite)
      BY <2>2, <3>2 DEF InitRegistered
    <3>4. sessions \in Seq(Nat) /\ passwords \in Nat
      BY <2>2 DEF InitRegistered
    <3> QED
      BY <3>1, <3>3, <3>4
  <2> QED
    BY <2>1, <2>2 DEF Init
<1>2. uses \in Seq(Nat) /\ Len(uses) = Len(links)
  <2>1. DOMAIN links = 1..Len(links) /\ Len(links) \in Nat
    BY <1>1
  <2>2. uses = [i \in 1..Len(links) |-> 0]
    BY <2>1 DEF Init
  <2> QED
    BY <2>1, <2>2
<1>3. hs = [h \in Handlers |-> Idle]
  BY DEF Init
<1>4. hs \in [Handlers -> Handler]
  BY <1>3, IdleType
<1>5. 0 < MaxAttempts /\ 0 \in 0..MaxTime /\ 0 \in 0..MaxRuns
  BY AccessAssumption
<1>6. TypeOK
  BY <1>1, <1>2, <1>4, <1>5 DEF Init, TypeOK
<1>7. CopiesOK
  <2>1. \A h \in Handlers : hs[h] = Idle
    BY <1>3
  <2>2. Idle.loaded.failed = 0 /\ Idle.at = "idle"
    BY IdleType
  <2> QED
    BY <1>5, <2>1, <2>2 DEF CopiesOK, LinkPlaces
<1> QED
  BY <1>6, <1>7 DEF TypeInv

\* The row after a commit of a copy, where neither counter is full.
LEMMA CommittedRow ==
  ASSUME TypeInv, NEW before \in AccountRow, NEW after \in AccountRow,
         after.failed < MaxAttempts, account' = WriteBack(before, after)
  PROVE  account' \in AccountRow /\ account'.failed < MaxAttempts
<1>1. account \in AccountRow /\ account.failed < MaxAttempts
  BY DEF TypeInv, TypeOK
<1> QED
  BY <1>1, WriteBackFields

LEMMA TypeStep == TypeInv /\ [Next]_vars => TypeInv'
<1> SUFFICES ASSUME TypeInv, [Next]_vars PROVE TypeInv'
  OBVIOUS
<1> USE DEF TypeInv
<1>0. CASE UNCHANGED vars
  BY <1>0 DEF vars, history, TypeOK, CopiesOK
<1>1. ASSUME NEW h \in Handlers, Started(h) PROVE TypeInv'
  <2>1. PICK entry : GoodEntry(entry) /\ Start(h, entry)
    BY <1>1 DEF Started
  <2>2. /\ hs' \in [Handlers -> Handler] /\ hs'[h] = entry
        /\ \A g \in Handlers : g # h => hs'[g] = hs[g]
    BY <2>1, OneHandlerMoves DEF GoodEntry, Start
  <2>3. runs' \in 0..MaxRuns
    BY <2>1, AccessAssumption DEF Start, TypeOK
  <2>4. TypeOK'
    BY <2>1, <2>2, <2>3 DEF Start, TypeOK
  <2>5. entry.loaded.failed < MaxAttempts /\ (entry.at \in LinkPlaces => entry.link \in DOMAIN links)
    BY <2>1 DEF GoodEntry, TypeOK
  <2>6. CopiesOK'
    BY <2>1, <2>2, <2>5, CopiesStay DEF Start
  <2> QED
    BY <2>4, <2>6
<1>2. ASSUME NEW h \in Handlers, LoginFails(h) PROVE TypeInv'
  <2>1. hs[h].loaded \in AccountRow /\ hs[h].started \in Nat
    BY HandlerTypes
  <2>2. /\ FailedRow(hs[h].loaded, hs[h].started) \in AccountRow
        /\ FailedRow(hs[h].loaded, hs[h].started).failed < MaxAttempts
    BY <2>1, FailedRowEffect
  <2>3. account' \in AccountRow /\ account'.failed < MaxAttempts
    BY <1>2, <2>1, <2>2, CommittedRow DEF LoginFails
  <2>4. hs' \in [Handlers -> Handler]
    BY <1>2, HandlerEnds DEF LoginFails
  <2>5. TypeOK'
    BY <1>2, <2>3, <2>4 DEF LoginFails, TypeOK
  <2> QED
    BY <1>2, <2>5, EndedCopies DEF LoginFails
<1>3. ASSUME NEW h \in Handlers, SignIn(h) PROVE TypeInv'
  <2>1. hs[h].loaded \in AccountRow /\ hs[h].loaded.password.set \in Nat
    BY HandlerTypes DEF AccountRow, Hash
  <2>2. SignedInRow(hs[h].loaded) \in AccountRow /\ SignedInRow(hs[h].loaded).failed < MaxAttempts
    BY <2>1, SignedInRowEffect, AccessAssumption
  <2>3. account' \in AccountRow /\ account'.failed < MaxAttempts
    BY <1>3, <2>1, <2>2, CommittedRow DEF SignIn
  <2>4. hs' \in [Handlers -> Handler]
    BY <1>3, HandlerEnds DEF SignIn
  <2>5. sessions' \in Seq(Nat) /\ live' \subseteq DOMAIN sessions' /\ late' \subseteq DOMAIN sessions'
    BY <1>3, <2>1, SessionOpens DEF SignIn
  <2>6. TypeOK'
    BY <1>3, <2>3, <2>4, <2>5 DEF SignIn, TypeOK
  <2> QED
    BY <1>3, <2>6, EndedCopies DEF SignIn
<1>4. ASSUME NEW h \in Handlers, RevokePending(h) PROVE TypeInv'
  <2> DEFINE pending == {i \in DOMAIN links : links[i].purpose = hs[h].purpose /\ ~links[i].used}
             rec == [hs[h] EXCEPT !.at = "issued", !.started = now, !.pending = pending]
  <2>1. pending \in SUBSET Nat /\ now \in Nat
    BY AccessAssumption DEF TypeOK
  <2>2. hs' = [hs EXCEPT ![h] = rec]
    BY <1>4 DEF RevokePending, TypeOK
  <2> HIDE DEF pending
  <2>3. rec \in Handler /\ rec.at = "issued" /\ rec.loaded = hs[h].loaded
    BY <2>1, HandlerTypes DEF Handler, Places
  <2> HIDE DEF rec
  <2>4. /\ hs' \in [Handlers -> Handler] /\ hs'[h] = rec
        /\ \A g \in Handlers : g # h => hs'[g] = hs[g]
    BY <2>2, <2>3, OneHandlerMoves
  <2>5. TypeOK'
    BY <1>4, <2>4 DEF RevokePending, TypeOK, history
  <2>6. rec.loaded.failed < MaxAttempts /\ rec.at \notin LinkPlaces
    BY <2>3 DEF CopiesOK, LinkPlaces
  <2>7. CopiesOK'
    BY <1>4, <2>4, <2>6, CopiesStay DEF RevokePending
  <2> QED
    BY <2>5, <2>7
<1>5. ASSUME NEW h \in Handlers, CommitLink(h) PROVE TypeInv'
  <2>1. /\ links' \in Seq(Invite) /\ Len(links') = Len(links) + 1
        /\ DOMAIN links' = DOMAIN links \cup {Len(links) + 1}
        /\ uses' \in Seq(Nat) /\ Len(uses') = Len(links')
    BY <1>5, LinkCommitted
  <2>2. hs' \in [Handlers -> Handler]
    BY <1>5, HandlerEnds DEF CommitLink
  <2>3. requested' \subseteq DOMAIN links'
    BY <1>5, <2>1 DEF CommitLink, TypeOK
  <2>4. TypeOK'
    BY <1>5, <2>1, <2>2, <2>3 DEF CommitLink, TypeOK
  <2> QED
    BY <1>5, <2>1, <2>4, EndedCopies DEF CommitLink
<1>6. ASSUME NEW h \in Handlers, ListSessions(h) PROVE TypeInv'
  <2>1. PICK place \in {"use", "close"} :
          /\ hs' = [hs EXCEPT ![h].at = place, ![h].closing = live]
          /\ place = "use" => hs[h].at = "link"
    BY <1>6 DEF ListSessions
  <2> DEFINE rec == [hs[h] EXCEPT !.at = place, !.closing = live]
  <2>2. live \in SUBSET Nat
    BY DEF TypeOK
  <2>3. rec \in Handler /\ rec.at = place /\ rec.loaded = hs[h].loaded /\ rec.link = hs[h].link
    BY <2>2, HandlerTypes DEF Handler, Places
  <2>4. hs' = [hs EXCEPT ![h] = rec]
    BY <2>1 DEF TypeOK
  <2> HIDE DEF rec
  <2>5. /\ hs' \in [Handlers -> Handler] /\ hs'[h] = rec
        /\ \A g \in Handlers : g # h => hs'[g] = hs[g]
    BY <2>3, <2>4, OneHandlerMoves
  <2>6. TypeOK'
    BY <1>6, <2>5 DEF ListSessions, TypeOK, history
  <2>7. /\ rec.loaded.failed < MaxAttempts
        /\ rec.at \in LinkPlaces => rec.link \in DOMAIN links
    BY <2>1, <2>3 DEF CopiesOK, LinkPlaces
  <2>8. CopiesOK'
    BY <1>6, <2>5, <2>7, CopiesStay DEF ListSessions
  <2> QED
    BY <2>6, <2>8
<1>7. ASSUME NEW h \in Handlers, SetPassword(h) PROVE TypeInv'
  <2> DEFINE reset == [NewPassword(hs[h].loaded) EXCEPT !.failed = 0, !.locked_until = 0,
                                                        !.confirmed = TRUE]
             rec == [Idle EXCEPT !.at = "open", !.proof = passwords + 1]
  <2>1. hs[h].loaded \in AccountRow /\ passwords \in Nat
    BY HandlerTypes DEF TypeOK
  <2>2. reset \in AccountRow /\ reset.failed = 0
    BY <2>1, NewPasswordEffect
  <2>3. account' = WriteBack(hs[h].loaded, reset)
    BY <1>7 DEF SetPassword
  <2> HIDE DEF reset
  <2>4. account' \in AccountRow /\ account'.failed < MaxAttempts
    BY <2>1, <2>2, <2>3, CommittedRow, AccessAssumption
  <2>5. rec \in Handler /\ rec.at = "open" /\ rec.loaded = Idle.loaded
    <3>1. passwords + 1 \in Nat
      BY <2>1
    <3>2. Idle \in Handler
      BY IdleType
    <3> QED
      BY <3>1, <3>2 DEF Handler, Places
  <2>6. hs' = [hs EXCEPT ![h] = rec]
    BY <1>7 DEF SetPassword
  <2> HIDE DEF rec
  <2>7. /\ hs' \in [Handlers -> Handler] /\ hs'[h] = rec
        /\ \A g \in Handlers : g # h => hs'[g] = hs[g]
    BY <2>5, <2>6, OneHandlerMoves
  <2>8. hs[h].link \in DOMAIN links /\ MarkUsed(hs[h].link)
    BY <1>7 DEF SetPassword, CopiesOK, LinkPlaces
  <2>9. /\ links' \in Seq(Invite) /\ DOMAIN links' = DOMAIN links
        /\ uses' \in Seq(Nat) /\ Len(uses') = Len(links')
    BY <2>8, LinkMarked
  <2>10. TypeOK'
    BY <1>7, <2>1, <2>4, <2>7, <2>9 DEF SetPassword, TypeOK
  <2>11. rec.loaded.failed < MaxAttempts /\ rec.at \notin LinkPlaces
    <3>1. rec.loaded.failed = 0
      BY <2>5, IdleType
    <3>2. 0 < MaxAttempts
      BY AccessAssumption
    <3> QED
      BY <2>5, <3>1, <3>2 DEF LinkPlaces
  <2>12. CopiesOK'
    BY <2>7, <2>9, <2>11, CopiesStay
  <2> QED
    BY <2>10, <2>12
<1>8. ASSUME NEW h \in Handlers, OpenAfterReset(h) PROVE TypeInv'
  <2>1. hs[h].proof \in Nat
    BY HandlerTypes
  <2>2. hs' \in [Handlers -> Handler]
    BY <1>8, HandlerEnds DEF OpenAfterReset
  <2>3. sessions' \in Seq(Nat) /\ live' \subseteq DOMAIN sessions' /\ late' \subseteq DOMAIN sessions'
    BY <1>8, <2>1, SessionOpens DEF OpenAfterReset
  <2>4. TypeOK'
    BY <1>8, <2>2, <2>3 DEF OpenAfterReset, TypeOK
  <2> QED
    BY <1>8, <2>4, EndedCopies DEF OpenAfterReset
<1>9. ASSUME NEW h \in Handlers, ConfirmEmail(h) PROVE TypeInv'
  <2> DEFINE after == [hs[h].loaded EXCEPT !.confirmed = TRUE]
  <2>1. hs[h].loaded \in AccountRow /\ hs[h].loaded.failed < MaxAttempts
    BY HandlerTypes DEF CopiesOK
  <2>2. after \in AccountRow /\ after.failed < MaxAttempts
    BY <2>1 DEF AccountRow
  <2>3. account' = WriteBack(hs[h].loaded, after)
    BY <1>9 DEF ConfirmEmail
  <2> HIDE DEF after
  <2>4. account' \in AccountRow /\ account'.failed < MaxAttempts
    BY <2>1, <2>2, <2>3, CommittedRow
  <2>5. hs' \in [Handlers -> Handler]
    BY <1>9, HandlerEnds DEF ConfirmEmail
  <2>6. hs[h].link \in DOMAIN links /\ MarkUsed(hs[h].link)
    BY <1>9 DEF ConfirmEmail, CopiesOK, LinkPlaces
  <2>7. /\ links' \in Seq(Invite) /\ DOMAIN links' = DOMAIN links
        /\ uses' \in Seq(Nat) /\ Len(uses') = Len(links')
    BY <2>6, LinkMarked
  <2>8. TypeOK'
    BY <1>9, <2>4, <2>5, <2>7 DEF ConfirmEmail, TypeOK
  <2> QED
    BY <1>9, <2>7, <2>8, EndedCopies DEF ConfirmEmail
<1>10. ASSUME NEW h \in Handlers, ChangePassword(h) PROVE TypeInv'
  <2> DEFINE after == NewPassword(hs[h].loaded)
             rec == [hs[h] EXCEPT !.at = "changed"]
  <2>1. /\ hs[h].loaded \in AccountRow /\ hs[h].loaded.failed < MaxAttempts
        /\ passwords \in Nat
    BY HandlerTypes DEF TypeOK, CopiesOK
  <2>2. after \in AccountRow /\ after.failed < MaxAttempts
    BY <2>1, NewPasswordEffect
  <2>3. account' = WriteBack(hs[h].loaded, after)
    BY <1>10 DEF ChangePassword
  <2> HIDE DEF after
  <2>4. account' \in AccountRow /\ account'.failed < MaxAttempts
    BY <2>1, <2>2, <2>3, CommittedRow
  <2>5. rec \in Handler /\ rec.at = "changed" /\ rec.loaded = hs[h].loaded
    BY HandlerTypes DEF Handler, Places
  <2>6. hs' = [hs EXCEPT ![h] = rec]
    BY <1>10 DEF ChangePassword, Goto, TypeOK
  <2> HIDE DEF rec
  <2>7. /\ hs' \in [Handlers -> Handler] /\ hs'[h] = rec
        /\ \A g \in Handlers : g # h => hs'[g] = hs[g]
    BY <2>5, <2>6, OneHandlerMoves
  <2>8. TypeOK'
    BY <1>10, <2>1, <2>4, <2>7 DEF ChangePassword, TypeOK, history
  <2>9. CopiesOK'
    BY <1>10, <2>1, <2>5, <2>7, CopiesStay DEF ChangePassword, LinkPlaces
  <2> QED
    BY <2>8, <2>9
<1>11. ASSUME NEW h \in Handlers, CloseAll(h) PROVE TypeInv'
  <2>1. hs' \in [Handlers -> Handler]
    BY <1>11, HandlerEnds DEF CloseAll
  <2>2. TypeOK'
    BY <1>11, <2>1 DEF CloseAll, TypeOK, history
  <2> QED
    BY <1>11, <2>2, EndedCopies DEF CloseAll
<1>12. ASSUME NEW h \in Handlers, Abandon(h) PROVE TypeInv'
  <2>1. hs' \in [Handlers -> Handler]
    BY <1>12, HandlerEnds DEF Abandon
  <2>2. TypeOK'
    BY <1>12, <2>1 DEF Abandon, TypeOK
  <2> QED
    BY <1>12, <2>2, EndedCopies DEF Abandon
<1>13. ASSUME NEW i \in live, CloseSession(i) PROVE TypeInv'
  BY <1>13 DEF CloseSession, TypeOK, CopiesOK, history
<1>14. ASSUME NEW active \in BOOLEAN, SetActive(active) PROVE TypeInv'
  <2>1. account' \in AccountRow /\ account'.failed = account.failed
    BY <1>14 DEF SetActive, TypeOK, AccountRow
  <2> QED
    BY <1>14, <2>1 DEF SetActive, TypeOK, CopiesOK, history
<1>15. CASE Tick
  <2>1. now' \in 0..MaxTime
    BY <1>15, AccessAssumption DEF Tick, TypeOK
  <2> QED
    BY <1>15, <2>1 DEF Tick, TypeOK, CopiesOK, history
<1> QED
  BY <1>0, <1>1, <1>2, <1>3, <1>4, <1>5, <1>6, <1>7, <1>8, <1>9, <1>10, <1>11, <1>12,
     <1>13, <1>14, <1>15, StepKinds DEF Proceeds

LEMMA TypeAlways == Spec => []TypeInv
  BY TypeInit, TypeStep, PTL DEF Spec

\* Every reachable row, session, handler and counter is of its type; a counter
\* of wrong passwords never reaches the limit that locks the account.
THEOREM AccessTypeCorrect == Spec => []TypeOK
<1>1. TypeInv => TypeOK
  BY DEF TypeInv
<1> QED
  BY <1>1, TypeAlways, PTL

---------------------------------------------------------------------------
(* Confirmed addresses *)

\* A commit leaves a confirmed address confirmed, and copies the confirmation.
LEMMA ConfirmationGrows ==
  ASSUME TypeOK, NEW before \in AccountRow, NEW after \in AccountRow,
         before.confirmed => after.confirmed,
         account' = WriteBack(before, after)
  PROVE  /\ account.confirmed => account'.confirmed
         /\ after.confirmed /\ ~before.confirmed => account'.confirmed
<1>1. account \in AccountRow
  BY DEF TypeOK
<1>2. account'.confirmed = Flushed(account.confirmed, before.confirmed, after.confirmed)
  BY <1>1, WriteBackFields
<1>3. /\ account.confirmed \in BOOLEAN /\ before.confirmed \in BOOLEAN
      /\ after.confirmed \in BOOLEAN
  BY <1>1 DEF AccountRow
<1> QED
  BY <1>2, <1>3 DEF Flushed

\* A step keeps the confirmation when it does not take it back, its handler
\* ends up with no copy that runs ahead, and it opens a session only under a
\* confirmed address.
LEMMA ConfirmationKept ==
  ASSUME ConfirmedInv, NEW h \in Handlers,
         \A g \in Handlers : g # h => hs'[g] = hs[g],
         account.confirmed => account'.confirmed,
         hs'[h].loaded.confirmed => account'.confirmed,
         hs'[h].at = "open" => account'.confirmed,
         required' = required,
         live' \subseteq live \/ (required => account'.confirmed)
  PROVE  ConfirmedInv'
  BY DEF ConfirmedInv, SessionsConfirmed

LEMMA ConfirmedStep ==
  TypeInv /\ ConfirmedInv /\ [Next]_vars => ConfirmedInv'
<1> SUFFICES ASSUME TypeInv, ConfirmedInv, [Next]_vars PROVE ConfirmedInv'
  OBVIOUS
<1>t. TypeOK
  BY DEF TypeInv
<1>i. ~Idle.loaded.confirmed /\ Idle.at = "idle"
  BY IdleType
<1>0. CASE UNCHANGED vars
  BY <1>0 DEF vars, ConfirmedInv, SessionsConfirmed
<1>1. ASSUME NEW h \in Handlers, Started(h) PROVE ConfirmedInv'
  <2>1. PICK entry : GoodEntry(entry) /\ Start(h, entry)
    BY <1>1 DEF Started
  <2>2. hs'[h] = entry /\ \A g \in Handlers : g # h => hs'[g] = hs[g]
    BY <1>t, <2>1, OneHandlerMoves DEF GoodEntry, Start
  <2>3. entry.loaded = account /\ entry.at # "open"
    BY <2>1 DEF GoodEntry
  <2>4. account' = account /\ live' = live /\ required' = required
    BY <2>1 DEF Start
  <2> QED
    BY <2>2, <2>3, <2>4, ConfirmationKept
<1>2. ASSUME NEW h \in Handlers, End(h),
             account.confirmed => account'.confirmed,
             required' = required,
             live' \subseteq live \/ (required => account'.confirmed)
      PROVE  ConfirmedInv'
  <2>1. hs'[h] = Idle /\ \A g \in Handlers : g # h => hs'[g] = hs[g]
    BY <1>t, <1>2, HandlerEnds
  <2> QED
    BY <1>2, <1>i, <2>1, ConfirmationKept
<1>3. ASSUME NEW h \in Handlers, LoginFails(h) PROVE ConfirmedInv'
  <2>1. hs[h].loaded \in AccountRow /\ hs[h].started \in Nat
    BY <1>t, HandlerTypes
  <2>2. account.confirmed => account'.confirmed
    BY <1>t, <1>3, <2>1, FailedRowEffect, ConfirmationGrows DEF LoginFails
  <2> QED
    BY <1>2, <1>3, <2>2 DEF LoginFails
<1>4. ASSUME NEW h \in Handlers, SignIn(h) PROVE ConfirmedInv'
  <2>1. hs[h].loaded \in AccountRow
    BY <1>t, HandlerTypes
  <2>2. account.confirmed => account'.confirmed
    BY <1>t, <1>4, <2>1, SignedInRowEffect, ConfirmationGrows DEF SignIn
  <2>3. required => account.confirmed
    BY <1>4 DEF SignIn, LoginAllowed, ConfirmedInv
  <2> QED
    BY <1>2, <1>4, <2>2, <2>3 DEF SignIn
<1>5. ASSUME NEW h \in Handlers, RevokePending(h) \/ ListSessions(h) PROVE ConfirmedInv'
  <2>1. /\ \A g \in Handlers : g # h => hs'[g] = hs[g]
        /\ hs'[h].loaded = hs[h].loaded /\ hs'[h].at # "open"
    BY <1>t, <1>5, HandlerGoesOn
  <2>2. account' = account /\ live' = live /\ required' = required
    BY <1>5 DEF RevokePending, ListSessions
  <2> QED
    BY <2>1, <2>2, ConfirmationKept DEF ConfirmedInv
<1>6. ASSUME NEW h \in Handlers, CommitLink(h) \/ CloseAll(h) \/ Abandon(h) PROVE ConfirmedInv'
  BY <1>2, <1>6 DEF CommitLink, CloseAll, Abandon
<1>7. ASSUME NEW h \in Handlers, SetPassword(h) PROVE ConfirmedInv'
  <2> DEFINE reset == [NewPassword(hs[h].loaded) EXCEPT !.failed = 0, !.locked_until = 0,
                                                        !.confirmed = TRUE]
             rec == [Idle EXCEPT !.at = "open", !.proof = passwords + 1]
  <2>1. hs[h].loaded \in AccountRow /\ passwords \in Nat
    BY <1>t, HandlerTypes DEF TypeOK
  <2>2. reset \in AccountRow /\ reset.confirmed
    BY <2>1, NewPasswordEffect
  <2>3. account' = WriteBack(hs[h].loaded, reset)
    BY <1>7 DEF SetPassword
  <2> HIDE DEF reset
  <2>4. account'.confirmed
    BY <1>t, <2>1, <2>2, <2>3, ConfirmationGrows DEF ConfirmedInv
  <2>5. \A g \in Handlers : g # h => hs'[g] = hs[g]
    BY <1>t, <1>7 DEF SetPassword, TypeOK
  <2>6. required' = required
    BY <1>7 DEF SetPassword
  <2> QED
    BY <2>4, <2>5, <2>6, ConfirmationKept
<1>8. ASSUME NEW h \in Handlers, OpenAfterReset(h) PROVE ConfirmedInv'
  <2>1. account.confirmed
    BY <1>8 DEF OpenAfterReset, ConfirmedInv
  <2> QED
    BY <1>2, <1>8, <2>1 DEF OpenAfterReset
<1>9. ASSUME NEW h \in Handlers, ConfirmEmail(h) PROVE ConfirmedInv'
  <2> DEFINE after == [hs[h].loaded EXCEPT !.confirmed = TRUE]
  <2>1. hs[h].loaded \in AccountRow
    BY <1>t, HandlerTypes
  <2>2. after \in AccountRow /\ after.confirmed
    BY <2>1 DEF AccountRow
  <2>3. account' = WriteBack(hs[h].loaded, after)
    BY <1>9 DEF ConfirmEmail
  <2> HIDE DEF after
  <2>4. account.confirmed => account'.confirmed
    BY <1>t, <2>1, <2>2, <2>3, ConfirmationGrows
  <2> QED
    BY <1>2, <1>9, <2>4 DEF ConfirmEmail
<1>10. ASSUME NEW h \in Handlers, ChangePassword(h) PROVE ConfirmedInv'
  <2>1. hs[h].loaded \in AccountRow /\ passwords \in Nat
    BY <1>t, HandlerTypes DEF TypeOK
  <2>2. account.confirmed => account'.confirmed
    BY <1>t, <1>10, <2>1, NewPasswordEffect, ConfirmationGrows DEF ChangePassword
  <2>3. /\ \A g \in Handlers : g # h => hs'[g] = hs[g]
        /\ hs'[h].loaded = hs[h].loaded /\ hs'[h].at # "open"
    BY <1>t, <1>10, HandlerGoesOn
  <2>4. live' = live /\ required' = required
    BY <1>10 DEF ChangePassword
  <2> QED
    BY <2>2, <2>3, <2>4, ConfirmationKept DEF ConfirmedInv
<1>11. ASSUME NEW i \in live, CloseSession(i) PROVE ConfirmedInv'
  BY <1>11 DEF CloseSession, ConfirmedInv, SessionsConfirmed
<1>12. ASSUME NEW active \in BOOLEAN, SetActive(active) PROVE ConfirmedInv'
  <2>1. account'.confirmed = account.confirmed
    BY <1>t, <1>12 DEF SetActive, TypeOK, AccountRow
  <2> QED
    BY <1>12, <2>1 DEF SetActive, ConfirmedInv, SessionsConfirmed
<1>13. CASE Tick
  BY <1>13 DEF Tick, ConfirmedInv, SessionsConfirmed
<1> QED
  BY <1>t, <1>0, <1>1, <1>3, <1>4, <1>5, <1>6, <1>7, <1>8, <1>9, <1>10, <1>11, <1>12, <1>13,
     StepKinds DEF Proceeds

LEMMA ConfirmedInit == Init => ConfirmedInv
<1> SUFFICES ASSUME Init PROVE ConfirmedInv
  OBVIOUS
<1>1. \A h \in Handlers : hs[h] = Idle
  BY DEF Init
<1>2. ~Idle.loaded.confirmed /\ Idle.at = "idle"
  BY IdleType
<1>3. required => live = {}
  <2>1. required => sessions = <<>>
    BY DEF Init, InitCreated, InitRegistered
  <2>2. live = DOMAIN sessions
    BY DEF Init
  <2> QED
    BY <2>1, <2>2
<1> QED
  BY <1>1, <1>2, <1>3 DEF ConfirmedInv, SessionsConfirmed

\* With confirmation required no session is ever live before the address is
\* confirmed, whatever login, link and letter cross each other.
THEOREM ConfirmedCorrect == Spec => []SessionsConfirmed
<1>1. ConfirmedInv => SessionsConfirmed
  BY DEF ConfirmedInv
<1> QED
  BY <1>1, ConfirmedInit, ConfirmedStep, TypeAlways, PTL DEF Spec

---------------------------------------------------------------------------
(* The lock *)

LEMMA UnlockedStep == TypeInv /\ LoginsUnlocked /\ [Next]_vars => LoginsUnlocked'
<1> SUFFICES ASSUME TypeInv, LoginsUnlocked, [Next]_vars PROVE LoginsUnlocked'
  OBVIOUS
<1>t. TypeOK
  BY DEF TypeInv
<1>i. Idle.at = "idle"
  BY IdleType
<1>0. CASE UNCHANGED vars
  BY <1>0 DEF vars, LoginsUnlocked
<1>1. ASSUME NEW h \in Handlers, Started(h) PROVE LoginsUnlocked'
  <2>1. PICK entry : GoodEntry(entry) /\ Start(h, entry)
    BY <1>1 DEF Started
  <2>2. hs'[h] = entry /\ \A g \in Handlers : g # h => hs'[g] = hs[g]
    BY <1>t, <2>1, OneHandlerMoves DEF GoodEntry, Start
  <2> QED
    BY <2>1, <2>2 DEF GoodEntry, Start, LoginsUnlocked
<1>2. ASSUME NEW h \in Handlers, Proceeds(h) PROVE LoginsUnlocked'
  <2>1. /\ \A g \in Handlers : g # h => hs'[g] = hs[g]
        /\ hs'[h].at # "login"
    <3>1. CASE End(h)
      BY <1>t, <1>i, <3>1, HandlerEnds
    <3>2. CASE RevokePending(h) \/ ListSessions(h) \/ ChangePassword(h)
      BY <1>t, <3>2, HandlerGoesOn
    <3>3. CASE SetPassword(h)
      <4>1. hs' = [hs EXCEPT ![h] = [Idle EXCEPT !.at = "open", !.proof = passwords + 1]]
        BY <3>3 DEF SetPassword
      <4>2. [Idle EXCEPT !.at = "open", !.proof = passwords + 1].at = "open"
        BY IdleType DEF Handler
      <4> QED
        BY <1>t, <4>1, <4>2 DEF TypeOK
    <3> QED
      BY <1>2, <3>1, <3>2, <3>3
         DEF Proceeds, LoginFails, SignIn, CommitLink, OpenAfterReset, ConfirmEmail,
             CloseAll, Abandon
  <2>2. now' = now
    BY <1>2
       DEF Proceeds, LoginFails, SignIn, RevokePending, CommitLink, ListSessions, SetPassword,
           OpenAfterReset, ConfirmEmail, ChangePassword, CloseAll, Abandon
  <2> QED
    BY <2>1, <2>2 DEF LoginsUnlocked
<1>3. ASSUME \/ \E i \in live : CloseSession(i)
             \/ \E active \in BOOLEAN : SetActive(active)
      PROVE  LoginsUnlocked'
  BY <1>3 DEF CloseSession, SetActive, LoginsUnlocked
<1>4. CASE Tick
  <2>1. now \in Nat /\ now' = now + 1 /\ hs' = hs
    BY <1>t, <1>4, AccessAssumption DEF TypeOK, Tick
  <2>2. ASSUME NEW h \in Handlers PROVE hs[h].loaded.locked_until \in Nat
    BY <1>t, HandlerTypes DEF AccountRow
  <2> QED
    BY <2>1, <2>2 DEF LoginsUnlocked
<1> QED
  BY <1>t, <1>0, <1>1, <1>2, <1>3, <1>4, StepKinds

\* What LockHolds says of one step.
LockKept ==
  account.locked_until > now /\ account'.locked_until < account.locked_until
    => \/ passwords' > passwords
       \/ \E h \in Handlers :
            /\ hs[h].at = "login" /\ hs'[h].at = "idle"
            /\ hs[h].loaded.locked_until # account.locked_until

LEMMA LockSteps == TypeInv /\ LoginsUnlocked /\ [Next]_vars => LockKept
<1> SUFFICES ASSUME TypeInv, LoginsUnlocked, [Next]_vars,
                    account.locked_until > now, account'.locked_until < account.locked_until,
                    ~(passwords' > passwords)
             PROVE  \E h \in Handlers :
                      /\ hs[h].at = "login" /\ hs'[h].at = "idle"
                      /\ hs[h].loaded.locked_until # account.locked_until
  BY DEF LockKept
<1>t. TypeOK
  BY DEF TypeInv
<1>1. /\ account \in AccountRow /\ account.locked_until \in Nat /\ now \in Nat
      /\ passwords \in Nat
  BY <1>t, AccessAssumption DEF TypeOK, AccountRow
<1>2. ASSUME account'.locked_until = account.locked_until PROVE FALSE
  BY <1>1, <1>2
<1>3. ASSUME NEW h \in Handlers, hs[h].at = "login", End(h)
      PROVE  /\ hs[h].at = "login" /\ hs'[h].at = "idle"
             /\ hs[h].loaded.locked_until # account.locked_until
  <2>1. hs'[h] = Idle /\ Idle.at = "idle"
    BY <1>t, <1>3, HandlerEnds, IdleType
  <2>2. hs[h].loaded.locked_until <= now /\ hs[h].loaded.locked_until \in Nat
    BY <1>t, <1>3, HandlerTypes DEF LoginsUnlocked, AccountRow
  <2> QED
    BY <1>1, <1>3, <2>1, <2>2
<1>4. ASSUME NEW h \in Handlers, ChangePassword(h) \/ SetPassword(h) PROVE FALSE
  BY <1>1, <1>4 DEF ChangePassword, SetPassword
<1>5. ASSUME NEW h \in Handlers, ConfirmEmail(h) PROVE FALSE
  <2> DEFINE after == [hs[h].loaded EXCEPT !.confirmed = TRUE]
  <2>1. hs[h].loaded \in AccountRow
    BY <1>t, HandlerTypes
  <2>2. after \in AccountRow /\ after.locked_until = hs[h].loaded.locked_until
    BY <2>1 DEF AccountRow
  <2>3. account' = WriteBack(hs[h].loaded, after)
    BY <1>5 DEF ConfirmEmail
  <2> HIDE DEF after
  <2>4. account'.locked_until =
          Flushed(account.locked_until, hs[h].loaded.locked_until, after.locked_until)
    BY <1>1, <2>1, <2>2, <2>3, WriteBackFields
  <2> QED
    BY <1>2, <2>2, <2>4 DEF Flushed
<1>6. ASSUME NEW active \in BOOLEAN, SetActive(active) PROVE FALSE
  <2>1. account'.locked_until = account.locked_until
    BY <1>1, <1>6 DEF SetActive, AccountRow
  <2> QED
    BY <1>2, <2>1
<1>7. account' # account
  BY <1>2
<1>8. PICK h \in Handlers : LoginFails(h) \/ SignIn(h)
  BY <1>t, <1>4, <1>5, <1>6, <1>7, StepKinds
     DEF Proceeds, Started, Start, RevokePending, CommitLink, ListSessions, OpenAfterReset,
         CloseAll, Abandon, CloseSession, Tick, vars
<1> QED
  BY <1>3, <1>8 DEF LoginFails, SignIn

LEMMA UnlockedInit == Init => LoginsUnlocked
<1> SUFFICES ASSUME Init PROVE LoginsUnlocked
  OBVIOUS
<1>1. \A h \in Handlers : hs[h] = Idle
  BY DEF Init
<1> QED
  BY <1>1, IdleType DEF LoginsUnlocked

\* No step shortens a lock in force but a new password from a link, or a login
\* that had read the account before that lock was set.
THEOREM LockoutCorrect == Spec => LockHolds
<1>1. LockKept =>
        (account.locked_until > now /\ account'.locked_until < account.locked_until
           => \/ passwords' > passwords
              \/ \E h \in Handlers :
                   /\ hs[h].at = "login" /\ hs'[h].at = "idle"
                   /\ hs[h].loaded.locked_until # account.locked_until)
  BY DEF LockKept
<1> QED
  BY <1>1, UnlockedInit, UnlockedStep, LockSteps, TypeAlways, PTL DEF Spec, LockHolds

---------------------------------------------------------------------------
(* Links *)

LEMMA HoldersFinite ==
  ASSUME NEW i
  PROVE  /\ IsFiniteSet(Holders(i)) /\ Cardinality(Holders(i)) \in Nat
         /\ Cardinality(Handlers) \in Nat
         /\ Cardinality(Holders(i)) <= Cardinality(Handlers)
<1>1. IsFiniteSet(Handlers) /\ Holders(i) \subseteq Handlers
  BY AccessAssumption DEF Holders
<1> QED
  BY <1>1, FS_Subset, FS_CardinalityType

\* A link keeps its bound in a step that adds no use of it and no holder.
LEMMA FewerHolders ==
  ASSUME NEW i, Holders(i)' \subseteq Holders(i)
  PROVE  Cardinality(Holders(i)') <= Cardinality(Holders(i))
  BY HoldersFinite, FS_Subset

\* No handler takes up a link, and no link changes.
LEMMA LinksUntouched ==
  ASSUME TypeOK, TypeOK', LinkInv, links' = links, uses' = uses,
         \A g \in Handlers : hs'[g].at \in LinkPlaces =>
           hs[g].at \in LinkPlaces /\ hs'[g].link = hs[g].link
  PROVE  LinkInv'
<1> SUFFICES ASSUME NEW i \in DOMAIN links
             PROVE  /\ ~links[i].used => uses[i] = 0
                    /\ uses[i] + Cardinality(Holders(i)') <= Cardinality(Handlers)
  BY DEF LinkInv
<1>1. Holders(i)' \subseteq Holders(i)
  BY DEF Holders
<1>2. uses[i] \in Nat
  BY DEF TypeOK
<1>3. Cardinality(Holders(i)) \in Nat /\ Cardinality(Handlers) \in Nat
  BY HoldersFinite
<1>4. IsFiniteSet(Holders(i)') /\ Cardinality(Holders(i)') \in Nat
  BY <1>1, HoldersFinite, FS_Subset, FS_CardinalityType
<1> QED
  BY <1>1, <1>2, <1>3, <1>4, FewerHolders DEF LinkInv

\* The handler that uses its link gives it up in the same step.
LEMMA LinkUsed ==
  ASSUME TypeOK, LinkInv, NEW h \in Handlers, hs[h].at \in LinkPlaces,
         hs[h].link \in DOMAIN links, MarkUsed(hs[h].link),
         \A g \in Handlers : g # h => hs'[g] = hs[g], hs'[h].at \notin LinkPlaces
  PROVE  LinkInv'
<1> DEFINE used == hs[h].link
<1>1. /\ DOMAIN links' = DOMAIN links /\ links'[used].used /\ uses'[used] = uses[used] + 1
      /\ \A j \in DOMAIN links : j # used => links'[j] = links[j] /\ uses'[j] = uses[j]
  BY LinkMarked
<1> SUFFICES ASSUME NEW i \in DOMAIN links
             PROVE  /\ ~links'[i].used => uses'[i] = 0
                    /\ uses'[i] + Cardinality(Holders(i)') <= Cardinality(Handlers)
  BY <1>1 DEF LinkInv
<1>2. uses[i] \in Nat
  BY DEF TypeOK
<1>3. /\ IsFiniteSet(Holders(i)) /\ Cardinality(Holders(i)) \in Nat
      /\ Cardinality(Handlers) \in Nat
  BY HoldersFinite
<1>4. CASE i = used
  <2>1. h \in Holders(i) /\ Holders(i)' = Holders(i) \ {h}
    BY <1>4 DEF Holders
  <2>2. Cardinality(Holders(i)') = Cardinality(Holders(i)) - 1
    BY <1>3, <2>1, FS_RemoveElement
  <2> QED
    BY <1>1, <1>2, <1>3, <1>4, <2>2 DEF LinkInv
<1>5. CASE i # used
  <2>1. Holders(i)' = Holders(i)
    BY <1>5 DEF Holders
  <2> QED
    BY <1>1, <1>5, <2>1 DEF LinkInv
<1> QED
  BY <1>4, <1>5

LEMMA LinkStep == TypeInv /\ TypeInv' /\ LinkInv /\ [Next]_vars => LinkInv'
<1> SUFFICES ASSUME TypeInv, TypeInv', LinkInv, [Next]_vars PROVE LinkInv'
  OBVIOUS
<1>t. TypeOK /\ TypeOK'
  BY DEF TypeInv
<1>i. Idle.at \notin LinkPlaces
  BY IdleType DEF LinkPlaces
<1>0. CASE UNCHANGED vars
  BY <1>t, <1>0, LinksUntouched DEF vars, history
<1>1. ASSUME NEW h \in Handlers, Started(h) PROVE LinkInv'
  <2>1. PICK entry : GoodEntry(entry) /\ Start(h, entry)
    BY <1>1 DEF Started
  <2>2. /\ hs'[h] = entry /\ links' = links /\ uses' = uses
        /\ \A g \in Handlers : g # h => hs'[g] = hs[g]
    BY <1>t, <2>1, OneHandlerMoves DEF GoodEntry, Start
  <2> SUFFICES ASSUME NEW i \in DOMAIN links
               PROVE  /\ ~links[i].used => uses[i] = 0
                      /\ uses[i] + Cardinality(Holders(i)') <= Cardinality(Handlers)
    BY <2>2 DEF LinkInv
  <2>3. uses[i] \in Nat
    BY <1>t DEF TypeOK
  <2>4. IsFiniteSet(Handlers) /\ Holders(i)' \subseteq Handlers
    BY AccessAssumption DEF Holders
  <2>5. /\ Cardinality(Holders(i)') \in Nat /\ Cardinality(Handlers) \in Nat
        /\ Cardinality(Holders(i)') <= Cardinality(Handlers)
    BY <2>4, FS_Subset, FS_CardinalityType
  <2>6. CASE ~links[i].used
    BY <2>3, <2>5, <2>6 DEF LinkInv
  <2>7. CASE links[i].used
    <3>1. Holders(i)' \subseteq Holders(i)
      BY <2>1, <2>2, <2>7 DEF GoodEntry, Holders
    <3> QED
      BY <2>3, <2>5, <2>7, <3>1, FewerHolders, HoldersFinite DEF LinkInv
  <2> QED
    BY <2>6, <2>7
<1>2. ASSUME NEW h \in Handlers, End(h), links' = links, uses' = uses PROVE LinkInv'
  <2>1. hs'[h] = Idle /\ \A g \in Handlers : g # h => hs'[g] = hs[g]
    BY <1>t, <1>2, HandlerEnds
  <2> QED
    BY <1>t, <1>2, <1>i, <2>1, LinksUntouched
<1>3. ASSUME NEW h \in Handlers,
             LoginFails(h) \/ SignIn(h) \/ OpenAfterReset(h) \/ CloseAll(h) \/ Abandon(h)
      PROVE  LinkInv'
  BY <1>2, <1>3 DEF LoginFails, SignIn, OpenAfterReset, CloseAll, Abandon, history
<1>4. ASSUME NEW h \in Handlers, RevokePending(h) \/ ListSessions(h) \/ ChangePassword(h)
      PROVE  LinkInv'
  <2>1. /\ \A g \in Handlers : g # h => hs'[g] = hs[g]
        /\ hs'[h].link = hs[h].link
        /\ hs'[h].at \in LinkPlaces => hs[h].at \in LinkPlaces
    BY <1>t, <1>4, HandlerGoesOn
  <2>2. links' = links /\ uses' = uses
    BY <1>4 DEF RevokePending, ListSessions, ChangePassword, history
  <2> QED
    BY <1>t, <2>1, <2>2, LinksUntouched
<1>5. ASSUME NEW h \in Handlers, CommitLink(h) PROVE LinkInv'
  <2>1. /\ DOMAIN links' = DOMAIN links \cup {Len(links) + 1}
        /\ uses'[Len(links) + 1] = 0
        /\ \A j \in DOMAIN links : uses'[j] = uses[j] /\ (links[j].used => links'[j].used)
    BY <1>t, <1>5, LinkCommitted
  <2>2. hs'[h] = Idle /\ \A g \in Handlers : g # h => hs'[g] = hs[g]
    BY <1>t, <1>5, HandlerEnds DEF CommitLink
  <2> SUFFICES ASSUME NEW i \in DOMAIN links'
               PROVE  /\ ~links'[i].used => uses'[i] = 0
                      /\ uses'[i] + Cardinality(Holders(i)') <= Cardinality(Handlers)
    BY DEF LinkInv
  <2>3. Holders(i)' \subseteq Holders(i)
    BY <1>i, <2>2 DEF Holders
  <2>4. /\ Cardinality(Holders(i)') <= Cardinality(Holders(i))
        /\ Cardinality(Holders(i)) <= Cardinality(Handlers)
        /\ Cardinality(Holders(i)) \in Nat /\ Cardinality(Handlers) \in Nat
    BY <2>3, FewerHolders, HoldersFinite
  <2>5. Cardinality(Holders(i)') \in Nat
    BY <2>3, HoldersFinite, FS_Subset, FS_CardinalityType
  <2>6. CASE i \in DOMAIN links
    <3>1. uses[i] \in Nat
      BY <1>t, <2>6 DEF TypeOK
    <3> QED
      BY <2>1, <2>4, <2>5, <2>6, <3>1 DEF LinkInv
  <2>7. CASE i = Len(links) + 1
    BY <2>1, <2>4, <2>5, <2>7
  <2> QED
    BY <2>1, <2>6, <2>7
<1>6. ASSUME NEW h \in Handlers, SetPassword(h) PROVE LinkInv'
  <2>1. hs[h].at \in LinkPlaces /\ hs[h].link \in DOMAIN links /\ MarkUsed(hs[h].link)
    BY <1>6 DEF SetPassword, TypeInv, CopiesOK, LinkPlaces
  <2>2. hs' = [hs EXCEPT ![h] = [Idle EXCEPT !.at = "open", !.proof = passwords + 1]]
    BY <1>6 DEF SetPassword
  <2>3. [Idle EXCEPT !.at = "open", !.proof = passwords + 1].at = "open"
    BY IdleType DEF Handler
  <2>4. hs'[h].at \notin LinkPlaces /\ \A g \in Handlers : g # h => hs'[g] = hs[g]
    BY <1>t, <2>2, <2>3 DEF TypeOK, LinkPlaces
  <2> QED
    BY <1>t, <2>1, <2>4, LinkUsed
<1>7. ASSUME NEW h \in Handlers, ConfirmEmail(h) PROVE LinkInv'
  <2>1. hs[h].at \in LinkPlaces /\ hs[h].link \in DOMAIN links /\ MarkUsed(hs[h].link)
    BY <1>7 DEF ConfirmEmail, TypeInv, CopiesOK, LinkPlaces
  <2>2. hs'[h] = Idle /\ \A g \in Handlers : g # h => hs'[g] = hs[g]
    BY <1>t, <1>7, HandlerEnds DEF ConfirmEmail
  <2> QED
    BY <1>t, <1>i, <2>1, <2>2, LinkUsed
<1>8. ASSUME \/ \E i \in live : CloseSession(i)
             \/ \E active \in BOOLEAN : SetActive(active)
             \/ Tick
      PROVE  LinkInv'
  <2>1. hs' = hs /\ links' = links /\ uses' = uses
    BY <1>8 DEF CloseSession, SetActive, Tick, history
  <2> QED
    BY <1>t, <2>1, LinksUntouched
<1> QED
  BY <1>t, <1>0, <1>1, <1>3, <1>4, <1>5, <1>6, <1>7, <1>8, StepKinds DEF Proceeds

LEMMA LinkInit == Init => LinkInv
<1> SUFFICES ASSUME Init, NEW i \in DOMAIN links
             PROVE  uses[i] = 0 /\ uses[i] + Cardinality(Holders(i)) <= Cardinality(Handlers)
  BY DEF LinkInv
<1>1. uses[i] = 0
  BY DEF Init
<1> QED
  BY <1>1, HoldersFinite

\* However many requests open one link at a time, it is accepted no more often
\* than there are handlers: after the first acceptance no request can open it.
THEOREM LinksCorrect == Spec => []LinkUsesBounded
<1>1. TypeInv /\ LinkInv => LinkUsesBounded
  <2> SUFFICES ASSUME TypeOK, LinkInv, NEW i \in DOMAIN uses
               PROVE  uses[i] <= Cardinality(Handlers)
    BY DEF TypeInv, LinkUsesBounded
  <2>1. i \in DOMAIN links /\ uses[i] \in Nat
    BY DEF TypeOK
  <2> QED
    BY <2>1, HoldersFinite DEF LinkInv
<1> QED
  BY <1>1, LinkInit, LinkStep, TypeAlways, PTL DEF Spec

---------------------------------------------------------------------------
(* Sessions after a change of password *)

\* A committed copy never brings a password that was not set yet.
LEMMA PasswordBounded ==
  ASSUME TypeOK, NEW before \in AccountRow, NEW after \in AccountRow, NEW n \in Nat,
         account.password.set <= n, after.password.set <= n,
         account' = WriteBack(before, after)
  PROVE  account'.password.set <= n
<1>1. account' \in AccountRow /\ account'.password \in {account.password, after.password}
  BY WriteBackFields DEF TypeOK
<1> QED
  BY <1>1

\* A session opens: it is late, or it has the last password and no handler
\* is about to close a list without it.
LEMMA NewSession ==
  ASSUME TypeOK, ClosingInv, NEW proof \in Nat, OpenSession(proof), NEW h \in Handlers,
         End(h), passwords' = passwords, interrupted' = interrupted,
         hs[h].at \notin {"changed", "close"}
  PROVE  /\ \A g \in Handlers :
              hs'[g].at \in {"use", "close"} => live' \ late' \subseteq hs'[g].closing
         /\ interrupted' \/ MidChange' \/ \A i \in live' \ late' : sessions'[i] >= passwords'
<1> DEFINE new == Len(sessions) + 1
<1>1. /\ live' = live \cup {new}
      /\ late' = late \/ late' = late \cup {new}
      /\ (proof < passwords \/ \E g \in Handlers : hs[g].at \in {"use", "close"})
           => new \in late'
  BY DEF OpenSession
<1>2. sessions'[new] = proof /\ \A i \in DOMAIN sessions : sessions'[i] = sessions[i]
  BY SessionOpens
<1>3. /\ hs'[h].at = "idle"
      /\ \A g \in Handlers : g # h => hs'[g] = hs[g]
  BY HandlerEnds, IdleType
<1>4. passwords \in Nat /\ live \subseteq DOMAIN sessions
  BY DEF TypeOK
<1>5. live' \ late' \subseteq (live \ late) \cup {new}
  BY <1>1
<1>6. \A g \in Handlers :
        hs'[g].at \in {"use", "close"} => live' \ late' \subseteq hs'[g].closing
  BY <1>1, <1>3, <1>5 DEF ClosingInv
<1>7. MidChange' <=> MidChange
  BY <1>3 DEF MidChange
<1>8. ASSUME ~interrupted, ~MidChange, NEW i \in live' \ late' PROVE sessions'[i] >= passwords
  <2>1. CASE i = new
    BY <1>1, <1>2, <1>4, <1>8, <2>1
  <2>2. CASE i \in live \ late
    BY <1>2, <1>4, <1>8, <2>2 DEF ClosingInv
  <2> QED
    BY <1>5, <1>8, <2>1, <2>2
<1> QED
  BY <1>6, <1>7, <1>8

\* The sessions and their lists stay, or sessions are closed; one handler
\* moves to a place where it neither holds a list nor changes the password.
LEMMA SessionsStay ==
  ASSUME ClosingInv, NEW h \in Handlers,
         \A g \in Handlers : g # h => hs'[g] = hs[g],
         hs'[h].at \notin {"use", "close"},
         live' \subseteq live, late' = late, sessions' = sessions, passwords' = passwords,
         interrupted => interrupted',
         hs[h].at \in {"changed", "close"} => interrupted' \/ live' \subseteq late,
         account'.password.set <= passwords,
         hs'[h].loaded.password.set <= passwords
  PROVE  ClosingInv'
<1>1. \A g \in Handlers :
        hs'[g].at \in {"use", "close"} => live' \ late' \subseteq hs'[g].closing
  BY DEF ClosingInv
<1>2. interrupted' \/ MidChange' \/ \A i \in live' \ late' : sessions'[i] >= passwords'
  <2>1. CASE hs[h].at \in {"changed", "close"}
    BY <2>1
  <2>2. CASE hs[h].at \notin {"changed", "close"}
    BY <2>2 DEF ClosingInv, MidChange
  <2> QED
    BY <2>1, <2>2
<1> QED
  BY <1>1, <1>2 DEF ClosingInv

LEMMA ClosingStep == TypeInv /\ ClosingInv /\ [Next]_vars => ClosingInv'
<1> SUFFICES ASSUME TypeInv, ClosingInv, [Next]_vars PROVE ClosingInv'
  OBVIOUS
<1>t. TypeOK
  BY DEF TypeInv
<1>i. Idle.at = "idle" /\ Idle.loaded.password.set = 0
  BY IdleType
<1>p. passwords \in Nat /\ account \in AccountRow
  BY <1>t DEF TypeOK
<1>0. CASE UNCHANGED vars
  BY <1>0 DEF vars, history, ClosingInv, MidChange
<1>1. ASSUME NEW h \in Handlers, Started(h) PROVE ClosingInv'
  <2>1. PICK entry : GoodEntry(entry) /\ Start(h, entry)
    BY <1>1 DEF Started
  <2>2. hs'[h] = entry /\ \A g \in Handlers : g # h => hs'[g] = hs[g]
    BY <1>t, <2>1, OneHandlerMoves DEF GoodEntry, Start
  <2>3. entry.at \notin {"use", "close"} /\ entry.loaded = account
    BY <2>1 DEF GoodEntry
  <2>4. hs[h].at = "idle" /\ UNCHANGED <<account, live, late, sessions, passwords, interrupted>>
    BY <2>1 DEF Start
  <2> QED
    BY <2>2, <2>3, <2>4, SessionsStay DEF ClosingInv
<1>2. ASSUME NEW h \in Handlers, End(h), live' \subseteq live, late' = late,
             sessions' = sessions, passwords' = passwords, interrupted => interrupted',
             hs[h].at \in {"changed", "close"} => interrupted' \/ live' \subseteq late,
             account'.password.set <= passwords
      PROVE  ClosingInv'
  <2>1. hs'[h] = Idle /\ \A g \in Handlers : g # h => hs'[g] = hs[g]
    BY <1>t, <1>2, HandlerEnds
  <2>2. Idle.loaded.password.set <= passwords /\ Idle.at \notin {"use", "close"}
    BY <1>i, <1>p
  <2> QED
    BY <1>2, <2>1, <2>2, SessionsStay
<1>3. ASSUME NEW h \in Handlers, LoginFails(h) PROVE ClosingInv'
  <2> DEFINE after == FailedRow(hs[h].loaded, hs[h].started)
  <2>1. hs[h].loaded \in AccountRow /\ hs[h].started \in Nat
    BY <1>t, HandlerTypes
  <2>2. after \in AccountRow /\ after.password.set = hs[h].loaded.password.set
    BY <2>1, FailedRowEffect
  <2>3. account' = WriteBack(hs[h].loaded, after)
    BY <1>3 DEF LoginFails
  <2> HIDE DEF after
  <2>4. account'.password.set <= passwords
    BY <1>t, <1>p, <2>1, <2>2, <2>3, PasswordBounded DEF ClosingInv
  <2> QED
    BY <1>2, <1>3, <2>4 DEF LoginFails
<1>4. ASSUME NEW h \in Handlers, SignIn(h) PROVE ClosingInv'
  <2> DEFINE after == SignedInRow(hs[h].loaded)
  <2>1. hs[h].loaded \in AccountRow /\ hs[h].loaded.password.set \in Nat
    BY <1>t, HandlerTypes DEF AccountRow, Hash
  <2>2. after \in AccountRow /\ after.password.set = hs[h].loaded.password.set
    BY <2>1, SignedInRowEffect
  <2>3. account' = WriteBack(hs[h].loaded, after)
    BY <1>4 DEF SignIn
  <2> HIDE DEF after
  <2>4. account'.password.set <= passwords
    BY <1>t, <1>p, <2>1, <2>2, <2>3, PasswordBounded DEF ClosingInv
  <2>5. /\ \A g \in Handlers :
             hs'[g].at \in {"use", "close"} => live' \ late' \subseteq hs'[g].closing
        /\ interrupted' \/ MidChange' \/ \A i \in live' \ late' : sessions'[i] >= passwords'
    BY <1>t, <1>4, <2>1, NewSession DEF SignIn
  <2>6. hs'[h] = Idle /\ \A g \in Handlers : g # h => hs'[g] = hs[g]
    BY <1>t, <1>4, HandlerEnds DEF SignIn
  <2>7. passwords' = passwords
    BY <1>4 DEF SignIn
  <2>8. \A g \in Handlers : hs'[g].loaded.password.set <= passwords
    BY <1>i, <1>p, <2>6 DEF ClosingInv
  <2> QED
    BY <2>4, <2>5, <2>7, <2>8 DEF ClosingInv
<1>5. ASSUME NEW h \in Handlers, RevokePending(h) PROVE ClosingInv'
  <2>1. /\ \A g \in Handlers : g # h => hs'[g] = hs[g]
        /\ hs'[h].loaded = hs[h].loaded
    BY <1>t, <1>5, HandlerGoesOn
  <2>2. hs[h].at = "issue" /\ hs'[h].at = "issued"
    BY <1>t, <1>5 DEF RevokePending, TypeOK, Handler
  <2>3. UNCHANGED <<account, live, late, sessions, passwords, interrupted>>
    BY <1>5 DEF RevokePending, history
  <2> QED
    BY <2>1, <2>2, <2>3, SessionsStay DEF ClosingInv
<1>6. ASSUME NEW h \in Handlers, ListSessions(h) PROVE ClosingInv'
  <2>1. PICK place \in {"use", "close"} :
          /\ hs' = [hs EXCEPT ![h].at = place, ![h].closing = live]
          /\ hs[h].at = "changed" => place = "close"
    BY <1>6 DEF ListSessions
  <2>2. /\ hs'[h].at = place /\ hs'[h].closing = live /\ hs'[h].loaded = hs[h].loaded
        /\ \A g \in Handlers : g # h => hs'[g] = hs[g]
    BY <1>t, <2>1 DEF TypeOK, Handler
  <2>3. UNCHANGED <<account, live, late, sessions, passwords, interrupted>>
    BY <1>6 DEF ListSessions, history
  <2>4. hs[h].at # "close"
    BY <1>6 DEF ListSessions
  <2>5. MidChange => MidChange'
    BY <2>1, <2>2, <2>4 DEF MidChange
  <2> QED
    BY <2>2, <2>3, <2>5 DEF ClosingInv
<1>7. ASSUME NEW h \in Handlers, CommitLink(h) \/ ConfirmEmail(h) PROVE ClosingInv'
  <2>1. /\ End(h) /\ UNCHANGED <<live, late, sessions, passwords, interrupted>>
        /\ hs[h].at \notin {"changed", "close"}
    BY <1>7 DEF CommitLink, ConfirmEmail
  <2>2. account'.password.set <= passwords
    <3>1. CASE CommitLink(h)
      BY <3>1 DEF CommitLink, ClosingInv
    <3>2. CASE ConfirmEmail(h)
      <4> DEFINE after == [hs[h].loaded EXCEPT !.confirmed = TRUE]
      <4>1. hs[h].loaded \in AccountRow
        BY <1>t, HandlerTypes
      <4>2. after \in AccountRow /\ after.password = hs[h].loaded.password
        BY <4>1 DEF AccountRow
      <4>3. account' = WriteBack(hs[h].loaded, after)
        BY <3>2 DEF ConfirmEmail
      <4> HIDE DEF after
      <4> QED
        BY <1>t, <1>p, <4>1, <4>2, <4>3, PasswordBounded DEF ClosingInv
    <3> QED
      BY <1>7, <3>1, <3>2
  <2> QED
    BY <1>2, <2>1, <2>2
<1>8. ASSUME NEW h \in Handlers, SetPassword(h) PROVE ClosingInv'
  <2> DEFINE reset == [NewPassword(hs[h].loaded) EXCEPT !.failed = 0, !.locked_until = 0,
                                                        !.confirmed = TRUE]
  <2>1. hs[h].loaded \in AccountRow
    BY <1>t, HandlerTypes
  <2>2. reset \in AccountRow /\ reset.password.set = passwords + 1
    BY <1>p, <2>1, NewPasswordEffect
  <2>3. account' = WriteBack(hs[h].loaded, reset) /\ passwords' = passwords + 1
    BY <1>8 DEF SetPassword
  <2> HIDE DEF reset
  <2>a. account.password.set \in Nat /\ passwords + 1 \in Nat
    BY <1>p DEF AccountRow, Hash
  <2>b. account.password.set <= passwords + 1
    BY <1>p, <2>a DEF ClosingInv
  <2>4. account'.password.set <= passwords + 1
    BY <1>t, <2>1, <2>2, <2>3, <2>a, <2>b, PasswordBounded
  <2>5. live' \ late' = {}
    BY <1>8 DEF SetPassword, ClosingInv
  <2>6. hs' = [hs EXCEPT ![h] = [Idle EXCEPT !.at = "open", !.proof = passwords + 1]]
    BY <1>8 DEF SetPassword
  <2>7. [Idle EXCEPT !.at = "open", !.proof = passwords + 1].loaded.password.set = 0
    BY IdleType DEF Handler
  <2>8. ASSUME NEW g \in Handlers PROVE hs'[g].loaded.password.set <= passwords + 1
    <3>1. hs[g].loaded.password.set \in Nat
      BY <1>t, HandlerTypes DEF AccountRow, Hash
    <3>2. hs[g].loaded.password.set <= passwords
      BY DEF ClosingInv
    <3> QED
      BY <1>t, <1>p, <2>6, <2>7, <3>1, <3>2 DEF TypeOK
  <2> QED
    BY <2>3, <2>4, <2>5, <2>8 DEF ClosingInv
<1>9. ASSUME NEW h \in Handlers, OpenAfterReset(h) PROVE ClosingInv'
  <2>1. hs[h].proof \in Nat
    BY <1>t, HandlerTypes
  <2>2. /\ \A g \in Handlers :
             hs'[g].at \in {"use", "close"} => live' \ late' \subseteq hs'[g].closing
        /\ interrupted' \/ MidChange' \/ \A i \in live' \ late' : sessions'[i] >= passwords'
    BY <1>t, <1>9, <2>1, NewSession DEF OpenAfterReset
  <2>3. hs'[h] = Idle /\ \A g \in Handlers : g # h => hs'[g] = hs[g]
    BY <1>t, <1>9, HandlerEnds DEF OpenAfterReset
  <2>4. account' = account /\ passwords' = passwords
    BY <1>9 DEF OpenAfterReset
  <2>5. \A g \in Handlers : hs'[g].loaded.password.set <= passwords
    BY <1>i, <1>p, <2>3 DEF ClosingInv
  <2> QED
    BY <2>2, <2>4, <2>5 DEF ClosingInv
<1>10. ASSUME NEW h \in Handlers, ChangePassword(h) PROVE ClosingInv'
  <2> DEFINE after == NewPassword(hs[h].loaded)
  <2>1. hs[h].loaded \in AccountRow
    BY <1>t, HandlerTypes
  <2>2. after \in AccountRow /\ after.password.set = passwords + 1
    BY <1>p, <2>1, NewPasswordEffect
  <2>3. account' = WriteBack(hs[h].loaded, after) /\ passwords' = passwords + 1
    BY <1>10 DEF ChangePassword
  <2> HIDE DEF after
  <2>a. account.password.set \in Nat /\ passwords + 1 \in Nat
    BY <1>p DEF AccountRow, Hash
  <2>b. account.password.set <= passwords + 1
    BY <1>p, <2>a DEF ClosingInv
  <2>4. account'.password.set <= passwords + 1
    BY <1>t, <2>1, <2>2, <2>3, <2>a, <2>b, PasswordBounded
  <2>5. /\ hs'[h].at = "changed" /\ hs'[h].loaded = hs[h].loaded
        /\ \A g \in Handlers : g # h => hs'[g] = hs[g]
    BY <1>t, <1>10 DEF ChangePassword, Goto, TypeOK, Handler
  <2>6. ASSUME NEW g \in Handlers PROVE hs'[g].loaded.password.set <= passwords + 1
    <3>1. hs[g].loaded.password.set \in Nat
      BY <1>t, HandlerTypes DEF AccountRow, Hash
    <3>2. hs[g].loaded.password.set <= passwords /\ hs'[g].loaded = hs[g].loaded
      BY <2>5 DEF ClosingInv
    <3> QED
      BY <1>p, <3>1, <3>2
  <2>7. MidChange'
    BY <2>5 DEF MidChange
  <2>8. live' = live /\ late' = late
    BY <1>10 DEF ChangePassword, history
  <2> QED
    BY <2>3, <2>4, <2>5, <2>6, <2>7, <2>8 DEF ClosingInv
<1>11. ASSUME NEW h \in Handlers, CloseAll(h) PROVE ClosingInv'
  <2>1. live' \subseteq late /\ live' \subseteq live
    BY <1>11 DEF CloseAll, ClosingInv
  <2> QED
    BY <1>2, <1>11, <2>1 DEF CloseAll, history, ClosingInv
<1>12. ASSUME NEW h \in Handlers, Abandon(h) PROVE ClosingInv'
  BY <1>2, <1>12 DEF Abandon, ClosingInv
<1>13. ASSUME NEW i \in live, CloseSession(i) PROVE ClosingInv'
  BY <1>13 DEF CloseSession, ClosingInv, MidChange, history
<1>14. ASSUME NEW active \in BOOLEAN, SetActive(active) PROVE ClosingInv'
  <2>1. account'.password = account.password
    BY <1>p, <1>14 DEF SetActive, AccountRow
  <2> QED
    BY <1>14, <2>1 DEF SetActive, ClosingInv, MidChange, history
<1>15. CASE Tick
  BY <1>15 DEF Tick, ClosingInv, MidChange, history
<1> QED
  BY <1>t, <1>0, <1>1, <1>3, <1>4, <1>5, <1>6, <1>7, <1>8, <1>9, <1>10, <1>11, <1>12, <1>13,
     <1>14, <1>15, StepKinds DEF Proceeds

LEMMA ClosingInit == Init => ClosingInv
<1> SUFFICES ASSUME Init PROVE ClosingInv
  OBVIOUS
<1>1. \A h \in Handlers : hs[h] = Idle
  BY DEF Init
<1>2. Idle.at = "idle" /\ Idle.loaded.password.set = 0
  BY IdleType
<1>3. CASE InitCreated
  <2>1. account.password.set = 0 /\ passwords = 0 /\ live = {}
    <3>1. account = NewAccount(0, FALSE, FALSE) /\ sessions = <<>> /\ passwords = 0
      BY <1>3 DEF InitCreated
    <3>2. live = {}
      BY <3>1 DEF Init
    <3>3. account.password.set = 0
      BY <3>1, NewAccountType
    <3> QED
      BY <3>1, <3>2, <3>3
  <2> QED
    BY <1>1, <1>2, <2>1 DEF ClosingInv
<1>4. CASE InitRegistered
  <2>1. PICK outdated \in BOOLEAN : account = NewAccount(1, outdated, FALSE)
    BY <1>4 DEF InitRegistered
  <2>2. account.password.set = 1 /\ passwords = 1
    BY <1>4, <2>1, NewAccountType DEF InitRegistered
  <2>3. \A i \in live : sessions[i] = 1
    BY <1>4 DEF Init, InitRegistered
  <2> QED
    BY <1>1, <1>2, <2>2, <2>3 DEF ClosingInv
<1> QED
  BY <1>3, <1>4 DEF Init

\* A session opened with an earlier password outlives a change of password only
\* if it was opened late, or the change was cut between its two commits.
THEOREM OldSessionsCorrect == Spec => []OldSessionsNeedRace
<1>1. TypeInv /\ ClosingInv => OldSessionsNeedRace
  <2> SUFFICES ASSUME TypeOK, ClosingInv, ~MidChange, ~interrupted, NEW i \in live,
                      sessions[i] < account.password.set, i \notin late
               PROVE  FALSE
    BY DEF TypeInv, OldSessionsNeedRace
  <2>1. sessions[i] \in Nat /\ passwords \in Nat /\ account.password.set \in Nat
    BY DEF TypeOK, AccountRow, Hash
  <2> QED
    BY <2>1 DEF ClosingInv
<1> QED
  BY <1>1, ClosingInit, ClosingStep, TypeAlways, PTL DEF Spec

---------------------------------------------------------------------------
(* Handlers that run one after another *)

\* As long as no handler has started beside another one, at most one is on
\* its way.
Alone ==
  ~overlapped => \A g, h \in Handlers : hs[g].at # "idle" /\ hs[h].at # "idle" => g = h

LEMMA AloneStep == TypeOK /\ Alone /\ [Next]_vars => Alone'
<1> SUFFICES ASSUME TypeOK, Alone, [Next]_vars, ~overlapped',
                    NEW f \in Handlers, NEW g \in Handlers,
                    hs'[f].at # "idle", hs'[g].at # "idle"
             PROVE  f = g
  BY DEF Alone
<1>1. ASSUME NEW h \in Handlers, Started(h) PROVE f = g
  <2>1. PICK entry : GoodEntry(entry) /\ Start(h, entry)
    BY <1>1 DEF Started
  <2>2. \A e \in Handlers : e # h => hs'[e] = hs[e] /\ hs[e].at = "idle"
    BY <2>1, OneHandlerMoves DEF GoodEntry, Start
  <2> QED
    BY <2>2
<1>2. ASSUME NEW h \in Handlers, Proceeds(h) PROVE f = g
  <2>1. overlapped' = overlapped /\ hs[h].at # "idle"
    BY <1>2 DEF Proceeds, LoginFails, SignIn, RevokePending, CommitLink, ListSessions,
         SetPassword, OpenAfterReset, ConfirmEmail, ChangePassword, CloseAll, Abandon, history
  <2>2. \A e \in Handlers : e # h => hs'[e] = hs[e]
    BY <1>2 DEF Proceeds, LoginFails, SignIn, RevokePending, CommitLink, ListSessions,
         SetPassword, OpenAfterReset, ConfirmEmail, ChangePassword, CloseAll, Abandon,
         End, Goto, TypeOK
  <2> QED
    BY <2>1, <2>2 DEF Alone
<1>3. CASE \/ \E i \in live : CloseSession(i)
           \/ \E active \in BOOLEAN : SetActive(active)
           \/ Tick \/ UNCHANGED vars
  BY <1>3 DEF CloseSession, SetActive, Tick, vars, history, Alone
<1> QED
  BY <1>1, <1>2, <1>3, StepKinds

LEMMA AloneInit == Init => Alone
  BY IdleType DEF Init, Alone

LEMMA AloneAlways == Spec => []Alone
  BY AloneInit, AloneStep, TypeAlways, PTL DEF Spec, TypeInv

\* Alone, a handler that proceeds leaves nobody else on the way.
LEMMA OnlyOne ==
  ASSUME Alone, ~overlapped, NEW h \in Handlers, hs[h].at # "idle"
  PROVE  \A g \in Handlers : g # h => hs[g].at = "idle"
  BY DEF Alone

---------------------------------------------------------------------------
(* The counter of wrong passwords *)

\* The copy a handler works on has the counter as it is.
CountInv ==
  ~overlapped =>
    /\ account.failed = guesses
    /\ \A h \in Handlers : hs[h].at # "idle" => hs[h].loaded.failed = account.failed

\* What a commit leaves in the two columns that other handlers may rewrite.
LEMMA WrittenColumns ==
  ASSUME NEW before, NEW after, account' = WriteBack(before, after)
  PROVE  /\ account'.failed = Flushed(account.failed, before.failed, after.failed)
         /\ account'.password = Flushed(account.password, before.password, after.password)
  BY DEF WriteBack

\* A handler ends with a commit of its copy or without touching the account.
LEMMA CountKept ==
  ASSUME TypeOK, Alone, CountInv, NEW h \in Handlers, End(h), hs[h].at # "idle",
         overlapped' = overlapped, ~overlapped => account'.failed = guesses'
  PROVE  CountInv'
<1> SUFFICES ASSUME ~overlapped
             PROVE  /\ account'.failed = guesses'
                    /\ \A g \in Handlers : hs'[g].at # "idle" =>
                         hs'[g].loaded.failed = account'.failed
  BY DEF CountInv
<1>1. \A g \in Handlers : hs'[g].at = "idle"
  BY OnlyOne, HandlerEnds, IdleType
<1> QED
  BY <1>1

LEMMA CountStep == TypeOK /\ Alone /\ CountInv /\ [Next]_vars => CountInv'
<1> SUFFICES ASSUME TypeOK, Alone, CountInv, [Next]_vars PROVE CountInv'
  OBVIOUS
<1>1. ASSUME NEW h \in Handlers, Started(h) PROVE CountInv'
  <2>1. PICK entry : GoodEntry(entry) /\ Start(h, entry)
    BY <1>1 DEF Started
  <2>2. hs'[h] = entry /\ entry.loaded = account
    BY <2>1, OneHandlerMoves DEF GoodEntry, Start
  <2>3. /\ \A g \in Handlers : g # h => hs'[g] = hs[g]
        /\ account' = account /\ guesses' = guesses /\ (overlapped => overlapped')
    BY <2>1, OneHandlerMoves DEF GoodEntry, Start
  <2> QED
    BY <2>2, <2>3 DEF CountInv
<1>2. ASSUME NEW h \in Handlers, LoginFails(h) PROVE CountInv'
  <2> DEFINE before == hs[h].loaded
             after == FailedRow(before, hs[h].started)
  <2>1. /\ account' = WriteBack(before, after) /\ End(h) /\ hs[h].at # "idle"
        /\ overlapped' = overlapped
        /\ guesses' = IF after.failed = 0 THEN 0 ELSE guesses + 1
    BY <1>2 DEF LoginFails
  <2>2. before.failed \in Nat /\ after.failed \in {0, before.failed + 1}
    BY HandlerTypes DEF FailedRow, AccountRow
  <2> HIDE DEF before, after
  <2>3. account'.failed = Flushed(account.failed, before.failed, after.failed)
    BY <2>1, WrittenColumns
  <2>4. ~overlapped => before.failed = account.failed /\ account.failed = guesses
    BY <2>1 DEF CountInv, before
  <2> QED
    BY <2>1, <2>2, <2>3, <2>4, CountKept DEF Flushed
<1>3. ASSUME NEW h \in Handlers, SignIn(h) PROVE CountInv'
  <2> DEFINE before == hs[h].loaded
             after == SignedInRow(before)
  <2>1. /\ account' = WriteBack(before, after) /\ End(h) /\ hs[h].at # "idle"
        /\ overlapped' = overlapped /\ guesses' = 0
    BY <1>3 DEF SignIn
  <2>2. after.failed = 0
    BY HandlerTypes, SignedInRowEffect
  <2> HIDE DEF before, after
  <2>3. account'.failed = Flushed(account.failed, before.failed, after.failed)
    BY <2>1, WrittenColumns
  <2>4. ~overlapped => before.failed = account.failed
    BY <2>1 DEF CountInv, before
  <2> QED
    BY <2>1, <2>2, <2>3, <2>4, CountKept DEF Flushed
<1>4. ASSUME NEW h \in Handlers, RevokePending(h) \/ ListSessions(h) PROVE CountInv'
  <2>1. /\ \A g \in Handlers : g # h => hs'[g] = hs[g]
        /\ hs'[h].loaded = hs[h].loaded /\ hs[h].at # "idle"
    BY <1>4, HandlerGoesOn DEF RevokePending, ListSessions
  <2>2. UNCHANGED <<account, overlapped, guesses>>
    BY <1>4 DEF RevokePending, ListSessions, history
  <2> QED
    BY <2>1, <2>2 DEF CountInv
<1>5. ASSUME NEW h \in Handlers, ChangePassword(h) PROVE CountInv'
  <2> DEFINE before == hs[h].loaded
             after == NewPassword(before)
  <2>1. account' = WriteBack(before, after) /\ overlapped' = overlapped /\ guesses' = guesses
    BY <1>5 DEF ChangePassword, history
  <2>2. after.failed = before.failed
    BY HandlerTypes, NewPasswordEffect DEF TypeOK
  <2> HIDE DEF after
  <2>3. account'.failed = account.failed
    BY <2>1, <2>2, WrittenColumns DEF Flushed
  <2>4. /\ \A g \in Handlers : g # h => hs'[g] = hs[g]
        /\ hs'[h].loaded = hs[h].loaded /\ hs[h].at # "idle"
    BY <1>5, HandlerGoesOn DEF ChangePassword
  <2> QED
    BY <2>1, <2>3, <2>4 DEF CountInv
<1>6. ASSUME NEW h \in Handlers, SetPassword(h) PROVE CountInv'
  <2> DEFINE before == hs[h].loaded
             reset == [NewPassword(before) EXCEPT !.failed = 0, !.locked_until = 0,
                                                  !.confirmed = TRUE]
             rec == [Idle EXCEPT !.at = "open", !.proof = passwords + 1]
  <2>1. /\ account' = WriteBack(before, reset) /\ overlapped' = overlapped /\ guesses' = 0
        /\ hs[h].at # "idle" /\ hs' = [hs EXCEPT ![h] = rec]
    BY <1>6 DEF SetPassword
  <2>2. reset.failed = 0
    BY HandlerTypes, NewPasswordEffect DEF TypeOK
  <2>3. rec.loaded.failed = 0
    BY IdleType DEF Handler
  <2> HIDE DEF before, reset, rec
  <2>4. ~overlapped => before.failed = account.failed
    BY <2>1 DEF CountInv, before
  <2>5. ~overlapped => account'.failed = 0
    BY <2>1, <2>2, <2>4, WrittenColumns DEF Flushed
  <2>6. hs'[h] = rec /\ \A g \in Handlers : g # h => hs'[g] = hs[g]
    BY <2>1 DEF TypeOK
  <2> QED
    BY <2>1, <2>3, <2>5, <2>6, OnlyOne DEF CountInv
<1>7. ASSUME NEW h \in Handlers, ConfirmEmail(h) PROVE CountInv'
  <2> DEFINE after == [hs[h].loaded EXCEPT !.confirmed = TRUE]
  <2>1. /\ account' = WriteBack(hs[h].loaded, after) /\ End(h) /\ hs[h].at # "idle"
        /\ overlapped' = overlapped /\ guesses' = guesses
    BY <1>7 DEF ConfirmEmail
  <2>2. after.failed = hs[h].loaded.failed
    BY HandlerTypes DEF AccountRow
  <2> HIDE DEF after
  <2>3. account'.failed = account.failed
    BY <2>1, <2>2, WrittenColumns DEF Flushed
  <2> QED
    BY <2>1, <2>3, CountKept DEF CountInv
<1>8. ASSUME NEW h \in Handlers,
             CommitLink(h) \/ OpenAfterReset(h) \/ CloseAll(h) \/ Abandon(h)
      PROVE  CountInv'
  <2>1. /\ account' = account /\ End(h) /\ hs[h].at # "idle"
        /\ overlapped' = overlapped /\ guesses' = guesses
    BY <1>8 DEF CommitLink, OpenAfterReset, CloseAll, Abandon, history
  <2> QED
    BY <2>1, CountKept DEF CountInv
<1>9. ASSUME NEW active \in BOOLEAN, SetActive(active) PROVE CountInv'
  <2>1. account'.failed = account.failed
    BY <1>9 DEF SetActive, TypeOK, AccountRow
  <2> QED
    BY <1>9, <2>1 DEF SetActive, CountInv, history
<1>10. CASE (\E i \in live : CloseSession(i)) \/ Tick \/ UNCHANGED vars
  BY <1>10 DEF CloseSession, Tick, vars, history, CountInv
<1> QED
  BY <1>1, <1>2, <1>3, <1>4, <1>5, <1>6, <1>7, <1>8, <1>9, <1>10, StepKinds DEF Proceeds

LEMMA StartingAccount ==
  Init => /\ account.failed = 0
          /\ passwords \in Nat /\ account.password.set = passwords
<1> SUFFICES ASSUME Init
             PROVE  /\ account.failed = 0
                    /\ passwords \in Nat /\ account.password.set = passwords
  OBVIOUS
<1>1. PICK outdated \in BOOLEAN :
        account = NewAccount(passwords, outdated, FALSE) /\ passwords \in Nat
  <2>1. CASE InitCreated
    BY <2>1 DEF InitCreated
  <2>2. CASE InitRegistered
    BY <2>2 DEF InitRegistered
  <2> QED
    BY <2>1, <2>2 DEF Init
<1> QED
  BY <1>1, NewAccountType

LEMMA CountInit == Init => CountInv
<1> SUFFICES ASSUME Init PROVE CountInv
  OBVIOUS
<1>1. guesses = 0 /\ \A h \in Handlers : hs[h].at = "idle"
  BY IdleType DEF Init
<1> QED
  BY <1>1, StartingAccount DEF CountInv

\* One handler at a time: no wrong password is lost from the counter that
\* locks the account, and none is counted twice.
THEOREM FailuresCorrect == Spec => []FailuresCounted
<1>1. CountInv => FailuresCounted
  BY DEF CountInv, FailuresCounted
<1> QED
  BY <1>1, CountInit, CountStep, AloneAlways, TypeAlways, PTL DEF Spec, TypeInv

---------------------------------------------------------------------------
(* The password in force *)

\* A login that runs alone read the last password.
PasswordInv ==
  /\ PasswordKept
  /\ ~overlapped => \A h \in Handlers : hs[h].at = "login" => hs[h].loaded.password.set = passwords

\* The password of the row and the sessions that prove it stay.
LEMMA SamePassword ==
  ASSUME TypeOK, TypeOK', PasswordInv, account'.password = account.password,
         passwords' = passwords, overlapped => overlapped',
         DOMAIN sessions \subseteq DOMAIN sessions',
         \A i \in DOMAIN sessions : sessions'[i] = sessions[i]
  PROVE  PasswordKept'
  BY DEF PasswordInv, PasswordKept

\* The row gets a password that was not set before.
LEMMA FreshPassword ==
  ASSUME TypeOK, ClosingInv, NEW h \in Handlers, NEW after,
         after.password = [set |-> passwords + 1, outdated |-> FALSE],
         account' = WriteBack(hs[h].loaded, after), passwords' = passwords + 1
  PROVE  PasswordKept'
<1>1. hs[h].loaded.password \in Hash /\ passwords \in Nat
  BY HandlerTypes DEF AccountRow, TypeOK
<1>2. hs[h].loaded.password.set # passwords + 1
  BY <1>1 DEF ClosingInv, Hash
<1>3. account'.password = after.password
  BY <1>2, WrittenColumns DEF Flushed
<1>4. account'.password.set = passwords'
  BY <1>3
<1> QED
  BY <1>1, <1>4 DEF PasswordKept

LEMMA PasswordStep ==
  TypeOK /\ TypeOK' /\ Alone /\ ClosingInv /\ PasswordInv /\ [Next]_vars => PasswordInv'
<1> SUFFICES ASSUME TypeOK, TypeOK', Alone, ClosingInv, PasswordInv, [Next]_vars
             PROVE  PasswordInv'
  OBVIOUS
<1>t. passwords \in Nat /\ account.password.set \in Nat /\ account.password \in Hash
  BY DEF TypeOK, AccountRow, Hash
<1>i. Idle.at = "idle"
  BY IdleType
<1>1. ASSUME NEW h \in Handlers, Started(h) PROVE PasswordInv'
  <2>1. PICK entry : GoodEntry(entry) /\ Start(h, entry)
    BY <1>1 DEF Started
  <2>2. /\ hs'[h] = entry /\ entry.loaded = account
        /\ \A g \in Handlers : g # h => hs'[g] = hs[g]
    BY <2>1, OneHandlerMoves DEF GoodEntry, Start
  <2>3. UNCHANGED <<account, passwords, sessions>> /\ (overlapped => overlapped')
    BY <2>1 DEF Start
  <2>4. ~overlapped => account.password.set = passwords
    BY <1>t DEF PasswordInv, PasswordKept, ClosingInv
  <2>5. PasswordKept'
    BY <2>3, SamePassword
  <2> QED
    BY <2>2, <2>3, <2>4, <2>5 DEF PasswordInv
<1>2. ASSUME NEW h \in Handlers, End(h), PasswordKept', passwords' = passwords,
             overlapped' = overlapped
      PROVE  PasswordInv'
  <2>1. hs'[h] = Idle /\ \A g \in Handlers : g # h => hs'[g] = hs[g]
    BY <1>2, HandlerEnds
  <2> QED
    BY <1>2, <1>i, <2>1 DEF PasswordInv
<1>3. ASSUME NEW h \in Handlers, LoginFails(h) PROVE PasswordInv'
  <2> DEFINE after == FailedRow(hs[h].loaded, hs[h].started)
  <2>1. after.password = hs[h].loaded.password
    BY HandlerTypes, FailedRowEffect
  <2>2. account' = WriteBack(hs[h].loaded, after)
    BY <1>3 DEF LoginFails
  <2> HIDE DEF after
  <2>3. account'.password = account.password
    BY <2>1, <2>2, WrittenColumns DEF Flushed
  <2>4. PasswordKept'
    BY <1>3, <2>3, SamePassword DEF LoginFails
  <2> QED
    BY <1>2, <1>3, <2>4 DEF LoginFails
<1>4. ASSUME NEW h \in Handlers, SignIn(h) PROVE PasswordInv'
  <2> DEFINE before == hs[h].loaded
             after == SignedInRow(before)
  <2>1. before \in AccountRow /\ before.password.set \in Nat /\ before.password \in Hash
    BY HandlerTypes DEF AccountRow, Hash
  <2>2. after.password = [set |-> before.password.set, outdated |-> FALSE]
    BY <2>1 DEF SignedInRow, AccountRow
  <2>3. /\ account' = WriteBack(before, after) /\ OpenSession(before.password.set) /\ End(h)
        /\ passwords' = passwords /\ overlapped' = overlapped /\ hs[h].at = "login"
    BY <1>4 DEF SignIn
  <2>4. ~overlapped => before.password.set = passwords
    BY <2>3 DEF PasswordInv
  <2> HIDE DEF before, after
  <2>5. /\ DOMAIN sessions' = DOMAIN sessions \cup {Len(sessions) + 1}
        /\ sessions'[Len(sessions) + 1] = before.password.set
        /\ \A i \in DOMAIN sessions : sessions'[i] = sessions[i]
    BY <2>1, <2>3, SessionOpens
  <2>6. PasswordKept'
    <3>1. CASE after.password = before.password
      <4>1. account'.password = account.password
        BY <2>3, <3>1, WrittenColumns DEF Flushed
      <4> QED
        BY <2>3, <2>5, <4>1, SamePassword
    <3>2. CASE after.password # before.password
      <4>1. account'.password = after.password
        BY <2>3, <3>2, WrittenColumns DEF Flushed
      <4>2. account'.password.set = before.password.set /\ ~account'.password.outdated
        BY <2>2, <4>1
      <4> QED
        BY <1>t, <2>1, <2>3, <2>4, <2>5, <4>2 DEF PasswordKept
    <3> QED
      BY <3>1, <3>2
  <2> QED
    BY <1>2, <2>3, <2>6
<1>5. ASSUME NEW h \in Handlers, RevokePending(h) \/ ListSessions(h) PROVE PasswordInv'
  <2>1. /\ \A g \in Handlers : g # h => hs'[g] = hs[g]
        /\ hs'[h].at # "login"
    BY <1>5, HandlerGoesOn
  <2>2. UNCHANGED <<account, passwords, sessions, overlapped>>
    BY <1>5 DEF RevokePending, ListSessions, history
  <2> QED
    BY <2>1, <2>2, SamePassword DEF PasswordInv
<1>6. ASSUME NEW h \in Handlers, SetPassword(h) \/ ChangePassword(h) PROVE PasswordInv'
  <2>1. /\ \A g \in Handlers : g # h => hs'[g] = hs[g]
        /\ hs'[h].at # "login" /\ hs[h].at # "idle"
    <3>1. CASE SetPassword(h)
      <4>1. [Idle EXCEPT !.at = "open", !.proof = passwords + 1].at = "open"
        BY IdleType DEF Handler
      <4> QED
        BY <3>1, <4>1 DEF SetPassword, TypeOK
    <3>2. CASE ChangePassword(h)
      BY <3>2, HandlerGoesOn DEF ChangePassword
    <3> QED
      BY <1>6, <3>1, <3>2
  <2>2. overlapped' = overlapped
    BY <1>6 DEF SetPassword, ChangePassword, history
  <2>3. PasswordKept'
    <3>1. CASE SetPassword(h)
      <4> DEFINE reset == [NewPassword(hs[h].loaded) EXCEPT
                             !.failed = 0, !.locked_until = 0, !.confirmed = TRUE]
      <4>1. reset.password = [set |-> passwords + 1, outdated |-> FALSE]
        BY HandlerTypes DEF NewPassword, AccountRow
      <4>2. account' = WriteBack(hs[h].loaded, reset) /\ passwords' = passwords + 1
        BY <3>1 DEF SetPassword
      <4> HIDE DEF reset
      <4> QED
        BY <4>1, <4>2, FreshPassword
    <3>2. CASE ChangePassword(h)
      <4> DEFINE after == NewPassword(hs[h].loaded)
      <4>1. after.password = [set |-> passwords + 1, outdated |-> FALSE]
        BY HandlerTypes DEF NewPassword, AccountRow
      <4>2. account' = WriteBack(hs[h].loaded, after) /\ passwords' = passwords + 1
        BY <3>2 DEF ChangePassword
      <4> HIDE DEF after
      <4> QED
        BY <4>1, <4>2, FreshPassword
    <3> QED
      BY <1>6, <3>1, <3>2
  <2>4. ~overlapped => \A g \in Handlers : hs'[g].at # "login"
    BY <2>1, OnlyOne
  <2> QED
    BY <2>2, <2>3, <2>4 DEF PasswordInv
<1>7. ASSUME NEW h \in Handlers, ConfirmEmail(h) PROVE PasswordInv'
  <2> DEFINE after == [hs[h].loaded EXCEPT !.confirmed = TRUE]
  <2>1. after.password = hs[h].loaded.password
    BY HandlerTypes DEF AccountRow
  <2>2. account' = WriteBack(hs[h].loaded, after)
    BY <1>7 DEF ConfirmEmail
  <2> HIDE DEF after
  <2>3. account'.password = account.password
    BY <2>1, <2>2, WrittenColumns DEF Flushed
  <2>4. PasswordKept'
    BY <1>7, <2>3, SamePassword DEF ConfirmEmail
  <2> QED
    BY <1>2, <1>7, <2>4 DEF ConfirmEmail
<1>8. ASSUME NEW h \in Handlers, CommitLink(h) \/ CloseAll(h) \/ Abandon(h) PROVE PasswordInv'
  <2>1. UNCHANGED <<account, passwords, sessions, overlapped>> /\ End(h)
    BY <1>8 DEF CommitLink, CloseAll, Abandon, history
  <2>2. PasswordKept'
    BY <2>1, SamePassword
  <2> QED
    BY <1>2, <2>1, <2>2
<1>9. ASSUME NEW h \in Handlers, OpenAfterReset(h) PROVE PasswordInv'
  <2>1. /\ DOMAIN sessions \subseteq DOMAIN sessions'
        /\ \A i \in DOMAIN sessions : sessions'[i] = sessions[i]
    BY <1>9, HandlerTypes, SessionOpens DEF OpenAfterReset
  <2>2. PasswordKept'
    BY <1>9, <2>1, SamePassword DEF OpenAfterReset
  <2> QED
    BY <1>2, <1>9, <2>2 DEF OpenAfterReset
<1>10. ASSUME \/ \E i \in live : CloseSession(i)
              \/ \E active \in BOOLEAN : SetActive(active)
              \/ Tick \/ UNCHANGED vars
       PROVE  PasswordInv'
  <2>1. UNCHANGED <<hs, passwords, sessions, overlapped>>
    BY <1>10 DEF CloseSession, SetActive, Tick, vars, history
  <2>2. account'.password = account.password
    BY <1>10 DEF CloseSession, SetActive, Tick, vars, TypeOK, AccountRow
  <2> QED
    BY <2>1, <2>2, SamePassword DEF PasswordInv
<1> QED
  BY <1>1, <1>3, <1>4, <1>5, <1>6, <1>7, <1>8, <1>9, <1>10, StepKinds DEF Proceeds

LEMMA PasswordInit == Init => PasswordInv
<1> SUFFICES ASSUME Init PROVE PasswordInv
  OBVIOUS
<1>1. account.password.set = passwords /\ passwords \in Nat
  BY StartingAccount
<1>2. \A h \in Handlers : hs[h].at # "login"
  BY IdleType DEF Init
<1> QED
  BY <1>1, <1>2 DEF PasswordInv, PasswordKept

\* The password in force is the last one set, unless concurrent handlers let a
\* login write an earlier one back with the hash it renewed.
THEOREM PasswordCorrect == Spec => []PasswordKept
<1>1. PasswordInv => PasswordKept
  BY DEF PasswordInv
<1> QED
  BY <1>1, PasswordInit, PasswordStep, AloneAlways, TypeAlways, ClosingInit, ClosingStep, PTL
  DEF Spec, TypeInv

---------------------------------------------------------------------------
(* Usable links *)

Unused(purpose) == {i \in DOMAIN links : links[i].purpose = purpose /\ ~links[i].used}

\* The unused links of a purpose go back to different handlers: each handler
\* that is about to commit another one has the earlier one on its list.
Issuers(purpose, issuer) ==
  /\ issuer \in Injection(Unused(purpose), Handlers)
  /\ \A i \in Unused(purpose) :
       LET h == issuer[i] IN
       hs[h].at = "issued" /\ hs[h].purpose = purpose => i \in hs[h].pending

IssueInv == \A purpose \in Purposes : \E issuer : Issuers(purpose, issuer)

\* Alone, a handler finds at most one link to revoke, has it on its list, and
\* uses a link that nobody has used.
CalmInv ==
  ~overlapped =>
    /\ \A purpose \in Purposes : \A i, j \in Unused(purpose) : i = j
    /\ \A i \in DOMAIN links : uses[i] <= 1
    /\ \A h \in Handlers :
         /\ hs[h].at = "issued" => Unused(hs[h].purpose) \subseteq hs[h].pending
         /\ hs[h].at \in LinkPlaces => ~links[hs[h].link].used

LEMMA InjectionInto ==
  ASSUME NEW S, NEW T, NEW f \in [S -> T], \A i, j \in S : f[i] = f[j] => i = j
  PROVE  f \in Injection(S, T)
  BY DEF Injection, IsInjective

LEMMA InjectionOf ==
  ASSUME NEW S, NEW T, NEW f \in Injection(S, T)
  PROVE  f \in [S -> T] /\ \A i, j \in S : f[i] = f[j] => i = j
  BY DEF Injection, IsInjective

\* No link is added: the issuers of those that stay unused stay the same.
LEMMA IssuersStay ==
  ASSUME NEW purpose \in Purposes, NEW issuer, Issuers(purpose, issuer),
         Unused(purpose)' \subseteq Unused(purpose),
         \A h \in Handlers :
           hs'[h].at = "issued" /\ hs'[h].purpose = purpose =>
             hs'[h] = hs[h] \/ Unused(purpose)' \subseteq hs'[h].pending
  PROVE  \E left : Issuers(purpose, left)'
<1> PICK left : left = [i \in Unused(purpose)' |-> issuer[i]]
  OBVIOUS
<1>1. /\ issuer \in [Unused(purpose) -> Handlers]
      /\ \A i, j \in Unused(purpose) : issuer[i] = issuer[j] => i = j
  BY InjectionOf DEF Issuers
<1>2. /\ left \in [Unused(purpose)' -> Handlers]
      /\ \A i \in Unused(purpose)' : left[i] = issuer[i] /\ i \in Unused(purpose)
  BY <1>1
<1>3. left \in Injection(Unused(purpose)', Handlers)
  BY <1>1, <1>2, InjectionInto
<1>4. ASSUME NEW i \in Unused(purpose)',
             hs'[left[i]].at = "issued", hs'[left[i]].purpose = purpose
      PROVE  i \in hs'[left[i]].pending
  BY <1>1, <1>2, <1>4 DEF Issuers
<1>5. Issuers(purpose, left)'
  BY <1>3, <1>4 DEF Issuers
<1> QED
  BY <1>5

\* The new link is its handler's, whose earlier links are revoked with it.
LEMMA IssuerAdded ==
  ASSUME NEW purpose \in Purposes, NEW issuer, Issuers(purpose, issuer),
         NEW h \in Handlers, NEW new,
         hs[h].at = "issued", hs[h].purpose = purpose, hs'[h].at = "idle",
         \A g \in Handlers : g # h => hs'[g] = hs[g],
         Unused(purpose)' \subseteq (Unused(purpose) \ hs[h].pending) \cup {new}
  PROVE  \E added : Issuers(purpose, added)'
<1> PICK added : added = [i \in Unused(purpose)' |-> IF i = new THEN h ELSE issuer[i]]
  OBVIOUS
<1>1. /\ issuer \in [Unused(purpose) -> Handlers]
      /\ \A i, j \in Unused(purpose) : issuer[i] = issuer[j] => i = j
  BY InjectionOf DEF Issuers
<1>2. ASSUME NEW i \in Unused(purpose)', i # new
      PROVE  /\ i \in Unused(purpose) /\ added[i] = issuer[i]
             /\ issuer[i] \in Handlers /\ issuer[i] # h
  BY <1>1, <1>2 DEF Issuers
<1>3. /\ added \in [Unused(purpose)' -> Handlers]
      /\ \A i \in Unused(purpose)' : i = new => added[i] = h
  BY <1>2
<1>4. \A i, j \in Unused(purpose)' : added[i] = added[j] => i = j
  BY <1>1, <1>2, <1>3
<1>5. added \in Injection(Unused(purpose)', Handlers)
  BY <1>3, <1>4, InjectionInto
<1>6. ASSUME NEW i \in Unused(purpose)',
             hs'[added[i]].at = "issued", hs'[added[i]].purpose = purpose
      PROVE  i \in hs'[added[i]].pending
  BY <1>2, <1>3, <1>6 DEF Issuers
<1>7. Issuers(purpose, added)'
  BY <1>5, <1>6 DEF Issuers
<1> QED
  BY <1>7

\* The unused links after the commit of a new one.
LEMMA UnusedAfterCommit ==
  ASSUME TypeOK, NEW h \in Handlers, CommitLink(h), NEW purpose
  PROVE  /\ purpose # hs[h].purpose => Unused(purpose)' \subseteq Unused(purpose)
         /\ purpose = hs[h].purpose =>
              Unused(purpose)' \subseteq (Unused(purpose) \ hs[h].pending) \cup {Len(links) + 1}
  BY LinkCommitted DEF Unused

LEMMA UnusedAfterUse ==
  ASSUME TypeOK, NEW i \in DOMAIN links, MarkUsed(i), NEW purpose
  PROVE  Unused(purpose)' \subseteq Unused(purpose)
  BY LinkMarked DEF Unused

\* A use of a link takes place in a handler that goes on elsewhere.
LEMMA UseStep ==
  ASSUME TypeInv, NEW h \in Handlers, SetPassword(h) \/ ConfirmEmail(h)
  PROVE  /\ hs[h].at \in LinkPlaces /\ hs[h].link \in DOMAIN links /\ MarkUsed(hs[h].link)
         /\ hs'[h].at \in {"idle", "open"} /\ ~hs'[h].form
         /\ \A g \in Handlers : g # h => hs'[g] = hs[g]
         /\ UNCHANGED <<requested, now, overlapped>>
<1>t. TypeOK
  BY DEF TypeInv
<1>1. CASE SetPassword(h)
  <2>1. /\ hs[h].at \in LinkPlaces /\ hs[h].link \in DOMAIN links /\ MarkUsed(hs[h].link)
        /\ UNCHANGED <<requested, now, overlapped>>
    BY <1>1 DEF SetPassword, TypeInv, CopiesOK, LinkPlaces
  <2> DEFINE rec == [Idle EXCEPT !.at = "open", !.proof = passwords + 1]
  <2>2. rec.at = "open" /\ ~rec.form
    BY IdleType DEF Handler
  <2>3. hs' = [hs EXCEPT ![h] = rec]
    BY <1>1 DEF SetPassword
  <2> HIDE DEF rec
  <2> QED
    BY <1>t, <2>1, <2>2, <2>3 DEF TypeOK
<1>2. CASE ConfirmEmail(h)
  <2>1. /\ hs[h].at \in LinkPlaces /\ hs[h].link \in DOMAIN links /\ MarkUsed(hs[h].link)
        /\ UNCHANGED <<requested, now, overlapped>>
    BY <1>2 DEF ConfirmEmail, TypeInv, CopiesOK, LinkPlaces
  <2> QED
    BY <1>t, <1>2, <2>1, HandlerEnds, IdleType DEF ConfirmEmail
<1> QED
  BY <1>1, <1>2

\* The steps that change no link.
LEMMA LinkFree ==
  ASSUME NEW h \in Handlers,
         \/ LoginFails(h) \/ SignIn(h) \/ OpenAfterReset(h) \/ CloseAll(h) \/ Abandon(h)
  PROVE  End(h) /\ UNCHANGED <<links, uses, requested, now, overlapped>>
  BY DEF LoginFails, SignIn, OpenAfterReset, CloseAll, Abandon, history

LEMMA IssueStep == TypeInv /\ IssueInv /\ [Next]_vars => IssueInv'
<1> SUFFICES ASSUME TypeInv, IssueInv, [Next]_vars, NEW purpose \in Purposes
             PROVE  \E left : Issuers(purpose, left)'
  BY DEF IssueInv
<1>t. TypeOK
  BY DEF TypeInv
<1>p. PICK issuer : Issuers(purpose, issuer)
  BY DEF IssueInv
<1>u. links' = links => Unused(purpose)' = Unused(purpose)
  BY DEF Unused
<1>1. ASSUME NEW h \in Handlers, Started(h) PROVE \E left : Issuers(purpose, left)'
  <2>1. PICK entry : GoodEntry(entry) /\ Start(h, entry)
    BY <1>1 DEF Started
  <2>2. /\ hs'[h].at # "issued" /\ links' = links
        /\ \A g \in Handlers : g # h => hs'[g] = hs[g]
    BY <1>t, <2>1, OneHandlerMoves DEF GoodEntry, Start
  <2> QED
    BY <1>p, <1>u, <2>2, IssuersStay
<1>2. ASSUME NEW h \in Handlers,
             \/ LoginFails(h) \/ SignIn(h) \/ OpenAfterReset(h) \/ CloseAll(h) \/ Abandon(h)
      PROVE  \E left : Issuers(purpose, left)'
  <2>1. End(h) /\ links' = links
    BY <1>2, LinkFree
  <2>2. hs'[h].at # "issued" /\ \A g \in Handlers : g # h => hs'[g] = hs[g]
    BY <1>t, <2>1, HandlerEnds, IdleType
  <2> QED
    BY <1>p, <1>u, <2>1, <2>2, IssuersStay
<1>3. ASSUME NEW h \in Handlers, RevokePending(h) PROVE \E left : Issuers(purpose, left)'
  <2>1. /\ hs'[h].pending = Unused(hs[h].purpose) /\ hs'[h].purpose = hs[h].purpose
        /\ \A g \in Handlers : g # h => hs'[g] = hs[g]
        /\ links' = links
    BY <1>t, <1>3 DEF RevokePending, TypeOK, Handler, Unused
  <2> QED
    BY <1>p, <1>u, <2>1, IssuersStay
<1>4. ASSUME NEW h \in Handlers, ListSessions(h) \/ ChangePassword(h)
      PROVE  \E left : Issuers(purpose, left)'
  <2>1. /\ \A g \in Handlers : g # h => hs'[g] = hs[g]
        /\ links' = links
    BY <1>t, <1>4, HandlerGoesOn DEF ListSessions, ChangePassword
  <2>2. hs'[h].at # "issued"
    BY <1>t, <1>4 DEF ListSessions, ChangePassword, Goto, TypeOK, Handler
  <2> QED
    BY <1>p, <1>u, <2>1, <2>2, IssuersStay
<1>5. ASSUME NEW h \in Handlers, CommitLink(h) PROVE \E left : Issuers(purpose, left)'
  <2>1. hs'[h].at = "idle" /\ \A g \in Handlers : g # h => hs'[g] = hs[g]
    BY <1>t, <1>5, HandlerEnds, IdleType DEF CommitLink
  <2>2. CASE purpose # hs[h].purpose
    BY <1>t, <1>p, <1>5, <2>1, <2>2, UnusedAfterCommit, IssuersStay
  <2>3. CASE purpose = hs[h].purpose
    <3>1. Unused(purpose)' \subseteq (Unused(purpose) \ hs[h].pending) \cup {Len(links) + 1}
      BY <1>t, <1>5, <2>3, UnusedAfterCommit
    <3>2. hs[h].at = "issued"
      BY <1>5 DEF CommitLink
    <3> QED
      BY <1>p, <2>1, <2>3, <3>1, <3>2, IssuerAdded
  <2> QED
    BY <2>2, <2>3
<1>6. ASSUME NEW h \in Handlers, SetPassword(h) \/ ConfirmEmail(h)
      PROVE  \E left : Issuers(purpose, left)'
  <2>1. hs'[h].at # "issued" /\ \A g \in Handlers : g # h => hs'[g] = hs[g]
    BY <1>6, UseStep
  <2>2. Unused(purpose)' \subseteq Unused(purpose)
    BY <1>t, <1>6, UseStep, UnusedAfterUse
  <2> QED
    BY <1>p, <2>1, <2>2, IssuersStay
<1>7. CASE \/ \E i \in live : CloseSession(i)
           \/ \E active \in BOOLEAN : SetActive(active)
           \/ Tick \/ UNCHANGED vars
  <2>1. hs' = hs /\ links' = links
    BY <1>7 DEF CloseSession, SetActive, Tick, vars
  <2> QED
    BY <1>p, <1>u, <2>1, IssuersStay
<1> QED
  BY <1>t, <1>1, <1>2, <1>3, <1>4, <1>5, <1>6, <1>7, StepKinds DEF Proceeds

\* At the start there is at most one link, of the registration.
LEMMA FirstLink == Init => \A i \in DOMAIN links : i = 1
<1>1. InitCreated => \A i \in DOMAIN links : i = 1
  BY DEF InitCreated
<1>2. InitRegistered => \A i \in DOMAIN links : i = 1
  BY DEF InitRegistered
<1> QED
  BY <1>1, <1>2 DEF Init

LEMMA IssueInit == Init => IssueInv
<1> SUFFICES ASSUME Init, NEW purpose \in Purposes PROVE \E issuer : Issuers(purpose, issuer)
  BY DEF IssueInv
<1>1. PICK h : h \in Handlers
  BY AccessAssumption
<1> DEFINE issuer == [i \in Unused(purpose) |-> h]
<1>2. issuer \in [Unused(purpose) -> Handlers] /\ \A i \in Unused(purpose) : issuer[i] = h
  BY <1>1
<1> HIDE DEF issuer
<1>3. \A i, j \in Unused(purpose) : i = j
  BY FirstLink DEF Unused
<1>4. issuer \in Injection(Unused(purpose), Handlers)
  BY <1>2, <1>3, InjectionInto
<1>5. hs[h].at # "issued"
  BY <1>1, IdleType DEF Init
<1> QED
  BY <1>2, <1>4, <1>5 DEF Issuers

\* The links and their uses stay; handlers take up no used link and no list
\* that misses a link.
LEMMA CalmStays ==
  ASSUME CalmInv, links' = links, uses' = uses, overlapped => overlapped',
         \A h \in Handlers :
           /\ hs'[h].at = "issued" =>
                hs'[h] = hs[h] \/ Unused(hs'[h].purpose) \subseteq hs'[h].pending
           /\ hs'[h].at \in LinkPlaces =>
                \/ hs[h].at \in LinkPlaces /\ hs'[h].link = hs[h].link
                \/ ~links[hs'[h].link].used
  PROVE  CalmInv'
<1>1. \A purpose : Unused(purpose)' = Unused(purpose)
  BY DEF Unused
<1>2. ASSUME NEW h \in Handlers, ~overlapped, hs'[h].at = "issued"
      PROVE  Unused(hs[h].purpose)' \subseteq hs'[h].pending
  <2>1. Unused(hs'[h].purpose) \subseteq hs'[h].pending
    BY <1>2 DEF CalmInv
  <2> QED
    BY <2>1 DEF Unused
<1>3. ~overlapped => \A purpose \in Purposes : \A i, j \in Unused(purpose)' : i = j
  BY <1>1 DEF CalmInv
<1> QED
  BY <1>2, <1>3 DEF CalmInv

LEMMA CalmStep == TypeInv /\ Alone /\ LinkInv /\ CalmInv /\ [Next]_vars => CalmInv'
<1> SUFFICES ASSUME TypeInv, Alone, LinkInv, CalmInv, [Next]_vars PROVE CalmInv'
  OBVIOUS
<1>t. TypeOK
  BY DEF TypeInv
<1>i. Idle.at = "idle"
  BY IdleType
<1>1. ASSUME NEW h \in Handlers, Started(h) PROVE CalmInv'
  <2>1. PICK entry : GoodEntry(entry) /\ Start(h, entry)
    BY <1>1 DEF Started
  <2>2. /\ hs'[h] = entry /\ links' = links /\ uses' = uses /\ (overlapped => overlapped')
        /\ \A g \in Handlers : g # h => hs'[g] = hs[g]
    BY <1>t, <2>1, OneHandlerMoves DEF GoodEntry, Start
  <2>3. entry.at # "issued" /\ (entry.at \in LinkPlaces => ~links[entry.link].used)
    BY <2>1 DEF GoodEntry
  <2> QED
    BY <2>2, <2>3, CalmStays
<1>2. ASSUME NEW h \in Handlers,
             \/ LoginFails(h) \/ SignIn(h) \/ OpenAfterReset(h) \/ CloseAll(h) \/ Abandon(h)
      PROVE  CalmInv'
  <2>1. hs'[h] = Idle /\ \A g \in Handlers : g # h => hs'[g] = hs[g]
    BY <1>t, <1>2, LinkFree, HandlerEnds
  <2> QED
    BY <1>2, <1>i, <2>1, LinkFree, CalmStays DEF LinkPlaces
<1>3. ASSUME NEW h \in Handlers, RevokePending(h) PROVE CalmInv'
  <2>1. /\ hs'[h].pending = Unused(hs[h].purpose) /\ hs'[h].purpose = hs[h].purpose
        /\ hs'[h].at = "issued"
        /\ \A g \in Handlers : g # h => hs'[g] = hs[g]
    BY <1>t, <1>3 DEF RevokePending, TypeOK, Handler, Unused
  <2>2. UNCHANGED <<links, uses, overlapped>>
    BY <1>3 DEF RevokePending, history
  <2> QED
    BY <2>1, <2>2, CalmStays DEF LinkPlaces
<1>4. ASSUME NEW h \in Handlers, ListSessions(h) \/ ChangePassword(h) PROVE CalmInv'
  <2>1. /\ \A g \in Handlers : g # h => hs'[g] = hs[g]
        /\ hs'[h].link = hs[h].link
        /\ hs'[h].at \in LinkPlaces => hs[h].at \in LinkPlaces
    BY <1>t, <1>4, HandlerGoesOn
  <2>2. hs'[h].at # "issued"
    BY <1>t, <1>4 DEF ListSessions, ChangePassword, Goto, TypeOK, Handler
  <2>3. UNCHANGED <<links, uses, overlapped>>
    BY <1>4 DEF ListSessions, ChangePassword, history
  <2> QED
    BY <2>1, <2>2, <2>3, CalmStays
<1>5. ASSUME NEW h \in Handlers, CommitLink(h) PROVE CalmInv'
  <2> SUFFICES ASSUME ~overlapped' PROVE CalmInv'
    BY DEF CalmInv
  <2>1. ~overlapped /\ hs[h].at = "issued"
    BY <1>5 DEF CommitLink
  <2>2. \A g \in Handlers : hs'[g].at = "idle"
    BY <1>t, <1>5, <1>i, <2>1, HandlerEnds, OnlyOne DEF CommitLink
  <2>3. Unused(hs[h].purpose) \subseteq hs[h].pending
    BY <2>1 DEF CalmInv
  <2>4. \A purpose \in Purposes : \A i, j \in Unused(purpose)' : i = j
    BY <1>t, <1>5, <2>1, <2>3, UnusedAfterCommit DEF CalmInv
  <2>5. \A i \in DOMAIN links' : uses'[i] <= 1
    BY <1>t, <1>5, <2>1, LinkCommitted DEF CalmInv
  <2> QED
    BY <2>2, <2>4, <2>5 DEF CalmInv, LinkPlaces
<1>6. ASSUME NEW h \in Handlers, SetPassword(h) \/ ConfirmEmail(h) PROVE CalmInv'
  <2> SUFFICES ASSUME ~overlapped' PROVE CalmInv'
    BY DEF CalmInv
  <2> DEFINE used == hs[h].link
  <2>1. /\ ~overlapped /\ hs[h].at \in LinkPlaces /\ used \in DOMAIN links /\ MarkUsed(used)
        /\ hs'[h].at \in {"idle", "open"}
        /\ \A g \in Handlers : g # h => hs'[g] = hs[g]
    BY <1>6, UseStep
  <2>2. \A g \in Handlers : hs'[g].at \in {"idle", "open"}
    BY <2>1, OnlyOne DEF LinkPlaces
  <2>3. \A purpose \in Purposes : \A i, j \in Unused(purpose)' : i = j
    BY <1>t, <2>1, UnusedAfterUse DEF CalmInv
  <2>4. uses[used] = 0
    BY <2>1 DEF CalmInv, LinkInv
  <2>5. \A i \in DOMAIN links' : uses'[i] <= 1
    BY <1>t, <2>1, <2>4, LinkMarked DEF CalmInv
  <2> QED
    BY <2>2, <2>3, <2>5 DEF CalmInv, LinkPlaces
<1>7. CASE \/ \E i \in live : CloseSession(i)
           \/ \E active \in BOOLEAN : SetActive(active)
           \/ Tick \/ UNCHANGED vars
  <2>1. UNCHANGED <<hs, links, uses, overlapped>>
    BY <1>7 DEF CloseSession, SetActive, Tick, vars, history
  <2> QED
    BY <2>1, CalmStays
<1> QED
  BY <1>t, <1>1, <1>2, <1>3, <1>4, <1>5, <1>6, <1>7, StepKinds DEF Proceeds

LEMMA CalmInit == Init => CalmInv
<1> SUFFICES ASSUME Init PROVE CalmInv
  OBVIOUS
<1>1. \A purpose : \A i, j \in Unused(purpose) : i = j
  BY FirstLink DEF Unused
<1>2. \A i \in DOMAIN links : uses[i] <= 1
  BY DEF Init
<1>3. \A h \in Handlers : hs[h].at = "idle"
  BY IdleType DEF Init
<1> QED
  BY <1>1, <1>2, <1>3 DEF CalmInv, LinkPlaces

\* A set without two different members has at most one.
LEMMA AtMostOne ==
  ASSUME NEW S, \A i, j \in S : i = j
  PROVE  Cardinality(S) <= 1
<1>1. CASE S = {}
  BY <1>1, FS_EmptySet
<1>2. ASSUME NEW i \in S PROVE Cardinality(S) <= 1
  <2>1. S = {i}
    BY <1>2
  <2>2. Cardinality({i}) = 1
    BY FS_Singleton
  <2> QED
    BY <2>1, <2>2
<1> QED
  BY <1>1, <1>2

\* However requests for links meet, at most one link of a purpose is usable per
\* handler; handlers that run one after another leave one, used at most once.
THEOREM FewLinksCorrect == Spec => []LinksStayFew
<1>1. ASSUME TypeOK, IssueInv, CalmInv PROVE LinksStayFew
  <2>1. \A purpose : Usable(purpose) \subseteq Unused(purpose)
    BY DEF Usable, Unused, IsUsable
  <2>2. ASSUME NEW purpose \in Purposes
        PROVE  Cardinality(Usable(purpose)) <= Cardinality(Handlers)
    <3>1. PICK issuer : issuer \in Injection(Unused(purpose), Handlers)
      BY <1>1 DEF IssueInv, Issuers
    <3>2. /\ IsFiniteSet(Unused(purpose))
          /\ Cardinality(Unused(purpose)) <= Cardinality(Handlers)
      BY <3>1, AccessAssumption, FS_Injection
    <3>3. /\ Cardinality(Usable(purpose)) <= Cardinality(Unused(purpose))
          /\ IsFiniteSet(Usable(purpose))
      BY <2>1, <3>2, FS_Subset
    <3>4. /\ Cardinality(Usable(purpose)) \in Nat /\ Cardinality(Unused(purpose)) \in Nat
          /\ Cardinality(Handlers) \in Nat
      BY <3>2, <3>3, AccessAssumption, FS_CardinalityType
    <3> QED
      BY <3>2, <3>3, <3>4
  <2>3. ASSUME ~overlapped, NEW purpose \in Purposes PROVE Cardinality(Usable(purpose)) <= 1
    BY <1>1, <2>1, <2>3, AtMostOne DEF CalmInv
  <2>4. DOMAIN uses = DOMAIN links
    BY <1>1 DEF TypeOK
  <2> QED
    BY <1>1, <2>2, <2>3, <2>4 DEF LinksStayFew, UsableLinksBounded, CalmLinks, CalmInv
<1> QED
  BY <1>1, IssueInit, IssueStep, CalmInit, CalmStep, LinkInit, LinkStep, AloneAlways,
     TypeAlways, PTL
  DEF Spec, TypeInv

---------------------------------------------------------------------------
(* Letters from the form *)

\* The links issued from the form within the window that ends at a time, and
\* the handlers that are about to issue one.
Letters(t) == {i \in requested : links[i].created \in (t - Hour)..t}
Forms == {h \in Handlers : hs[h].form}

\* A handler that has passed the limit keeps a place for its letter: letters
\* and handlers together stay within the bound.
LettersInv ==
  /\ \A i \in DOMAIN links : links[i].created <= now
  /\ \A i \in requested : links[i].purpose = "password"
  /\ \A h \in Forms : hs[h].purpose = "password"
  /\ Cardinality(Letters(now)) + Cardinality(Forms) <= MaxPerHour + Cardinality(Handlers) - 1
  /\ LettersBounded

LEMMA LettersFinite ==
  ASSUME TypeOK, NEW t
  PROVE  /\ IsFiniteSet(Letters(t)) /\ Cardinality(Letters(t)) \in Nat
         /\ IsFiniteSet(Forms) /\ Cardinality(Forms) \in Nat
         /\ Cardinality(Forms) <= Cardinality(Handlers)
         /\ Cardinality(Handlers) \in Nat
<1>1. DOMAIN links = 1..Len(links) /\ Len(links) \in Int
  BY DEF TypeOK
<1>2. IsFiniteSet(DOMAIN links)
  BY <1>1, FS_Interval
<1>3. Letters(t) \subseteq DOMAIN links
  BY DEF Letters, TypeOK
<1>4. IsFiniteSet(Letters(t)) /\ Cardinality(Letters(t)) \in Nat
  BY <1>2, <1>3, FS_Subset, FS_CardinalityType
<1>5. IsFiniteSet(Handlers) /\ Forms \subseteq Handlers
  BY AccessAssumption DEF Forms
<1>6. /\ IsFiniteSet(Forms) /\ Cardinality(Forms) \in Nat /\ Cardinality(Handlers) \in Nat
      /\ Cardinality(Forms) <= Cardinality(Handlers)
  BY <1>5, FS_Subset, FS_CardinalityType
<1> QED
  BY <1>4, <1>6

\* No letter is added, no time passes, and no handler passes the limit.
LEMMA LettersStay ==
  ASSUME TypeOK, TypeOK', LettersInv, requested' = requested, now' = now,
         DOMAIN links' = DOMAIN links,
         \A i \in DOMAIN links :
           links'[i].created = links[i].created /\ links'[i].purpose = links[i].purpose,
         \A h \in Handlers : hs'[h].form => hs[h].form /\ hs'[h].purpose = hs[h].purpose
  PROVE  LettersInv'
<1>1. Forms' \subseteq Forms
  BY DEF Forms
<1>2. \A t : Letters(t)' = Letters(t)
  BY DEF Letters, TypeOK
<1>3. Cardinality(Forms') <= Cardinality(Forms)
  BY <1>1, LettersFinite, FS_Subset
<1>4. /\ Cardinality(Forms') \in Nat /\ Cardinality(Forms) \in Nat
      /\ Cardinality(Letters(now)) \in Nat /\ Cardinality(Handlers) \in Nat
      /\ MaxPerHour \in Nat
  BY <1>1, LettersFinite, FS_Subset, FS_CardinalityType, AccessAssumption
<1>5. Cardinality(Letters(now)) + Cardinality(Forms) <= MaxPerHour + Cardinality(Handlers) - 1
  BY DEF LettersInv
<1>6. Cardinality(Letters(now)') + Cardinality(Forms') <= MaxPerHour + Cardinality(Handlers) - 1
  BY <1>2, <1>3, <1>4, <1>5
<1>7. \A i \in requested : i \in DOMAIN links
  BY DEF TypeOK
<1>8. \A h \in Forms' : hs'[h].purpose = "password"
  BY DEF LettersInv, Forms
<1>9. /\ \A i \in DOMAIN links' : links'[i].created <= now'
      /\ \A i \in requested' : links'[i].purpose = "password"
  BY <1>7 DEF LettersInv
<1>10. LettersBounded'
  BY <1>2 DEF LettersInv, LettersBounded, Letters
<1> QED
  BY <1>6, <1>8, <1>9, <1>10 DEF LettersInv

\* A handler passes the limit: fewer letters than that were issued within the
\* hour, and at most all handlers are on their way to issue one.
LEMMA LimitPassed ==
  ASSUME TypeOK, TypeOK', LettersInv, NEW h \in Handlers, NEW entry,
         GoodEntry(entry), Start(h, entry), entry.form
  PROVE  LettersInv'
<1>1. /\ hs'[h] = entry /\ \A g \in Handlers : g # h => hs'[g] = hs[g]
      /\ UNCHANGED <<links, requested, now>>
  BY OneHandlerMoves DEF GoodEntry, Start
<1>2. entry.purpose = "password" /\ CountRecent("password") < MaxPerHour
  BY DEF GoodEntry
<1> DEFINE recent == {i \in DOMAIN links :
                        links[i].purpose = "password" /\ links[i].created >= now - Hour}
<1>3. Cardinality(recent) < MaxPerHour
  BY <1>2 DEF CountRecent
<1>4. IsFiniteSet(recent)
  <2>1. DOMAIN links = 1..Len(links) /\ Len(links) \in Int /\ recent \subseteq DOMAIN links
    BY DEF TypeOK
  <2> HIDE DEF recent
  <2> QED
    BY <2>1, FS_Interval, FS_Subset
<1>5. Letters(now) \subseteq recent
  <2> SUFFICES ASSUME NEW i \in Letters(now) PROVE i \in recent
    OBVIOUS
  <2>1. i \in requested /\ i \in DOMAIN links /\ links[i].created \in (now - Hour)..now
    BY DEF Letters, TypeOK
  <2>2. links[i].purpose = "password"
    BY <2>1 DEF LettersInv
  <2> QED
    BY <2>1, <2>2
<1> HIDE DEF recent
<1>6. Cardinality(Letters(now)) <= Cardinality(recent) /\ Cardinality(recent) \in Nat
  BY <1>4, <1>5, FS_Subset, FS_CardinalityType
<1>7. Letters(now)' = Letters(now)
  BY <1>1 DEF Letters
<1>8. /\ Cardinality(Letters(now)) \in Nat /\ Cardinality(Handlers) \in Nat
      /\ MaxPerHour \in Nat
  BY LettersFinite, AccessAssumption
<1>9. Cardinality(Forms') <= Cardinality(Handlers) /\ Cardinality(Forms') \in Nat
  <2>1. Forms' \subseteq Handlers /\ IsFiniteSet(Handlers)
    BY AccessAssumption DEF Forms
  <2> QED
    BY <2>1, FS_Subset, FS_CardinalityType
<1>10. Cardinality(Letters(now)') + Cardinality(Forms') <= MaxPerHour + Cardinality(Handlers) - 1
  BY <1>3, <1>6, <1>7, <1>8, <1>9
<1>11. \A g \in Forms' : hs'[g].purpose = "password"
  BY <1>1, <1>2 DEF LettersInv, Forms
<1>12. LettersBounded'
  BY <1>1 DEF LettersInv, LettersBounded
<1> QED
  BY <1>1, <1>10, <1>11, <1>12 DEF LettersInv

\* A link is committed: when a form asked for it, the handler's place is taken
\* by the letter.
LEMMA LetterSent ==
  ASSUME TypeOK, TypeOK', LettersInv, NEW h \in Handlers, CommitLink(h)
  PROVE  LettersInv'
<1> DEFINE new == Len(links) + 1
<1>1. /\ DOMAIN links' = DOMAIN links \cup {new} /\ Len(links') = new
      /\ links'[new].purpose = hs[h].purpose /\ links'[new].created = now
      /\ \A i \in DOMAIN links :
           links'[i].purpose = links[i].purpose /\ links'[i].created = links[i].created
  BY LinkCommitted
<1>2. new \notin DOMAIN links /\ requested \subseteq DOMAIN links
  BY DEF TypeOK
<1>3. /\ requested' = IF hs[h].form THEN requested \cup {new} ELSE requested
      /\ now' = now
  BY <1>1 DEF CommitLink
<1>4. ~hs'[h].form /\ \A g \in Handlers : g # h => hs'[g] = hs[g]
  BY HandlerEnds, IdleType DEF CommitLink
<1>n. now \in Int /\ Hour \in Nat /\ MaxPerHour \in Nat
  BY AccessAssumption DEF TypeOK
<1> HIDE DEF new
<1>5. Forms' = Forms \ {h}
  BY <1>4 DEF Forms
<1>6. \A g \in Forms' : hs'[g].purpose = "password"
  BY <1>4, <1>5 DEF LettersInv, Forms
<1>7. \A i \in requested' : links'[i].purpose = "password"
  <2>1. hs[h].form => hs[h].purpose = "password"
    BY DEF LettersInv, Forms
  <2> QED
    BY <1>1, <1>2, <1>3, <2>1 DEF LettersInv
<1>8. \A i \in DOMAIN links' : links'[i].created <= now'
  BY <1>1, <1>3, <1>n DEF LettersInv
<1>9. ASSUME NEW t \in 0..now, t < now PROVE Letters(t)' = Letters(t)
  <2>1. now \notin (t - Hour)..t
    BY <1>n, <1>9
  <2> QED
    BY <1>1, <1>2, <1>3, <2>1 DEF Letters
<1>10. Letters(now)' = IF hs[h].form THEN Letters(now) \cup {new} ELSE Letters(now)
  <2>1. now \in (now - Hour)..now
    BY <1>n
  <2> QED
    BY <1>1, <1>2, <1>3, <2>1 DEF Letters
<1>11. /\ IsFiniteSet(Letters(now)) /\ IsFiniteSet(Forms)
       /\ Cardinality(Letters(now)) \in Nat /\ Cardinality(Forms) \in Nat
       /\ Cardinality(Handlers) \in Nat
  BY LettersFinite
<1>12. /\ Cardinality(Letters(now)') + Cardinality(Forms') <= MaxPerHour + Cardinality(Handlers) - 1
       /\ Cardinality(Letters(now)') \in Nat /\ Cardinality(Forms') \in Nat
  <2>1. Cardinality(Letters(now)) + Cardinality(Forms) <= MaxPerHour + Cardinality(Handlers) - 1
    BY DEF LettersInv
  <2>2. CASE hs[h].form
    <3>1. h \in Forms /\ new \notin Letters(now)
      BY <1>2, <2>2 DEF Forms, Letters
    <3>2. Cardinality(Forms') = Cardinality(Forms) - 1
      BY <1>5, <1>11, <3>1, FS_RemoveElement
    <3>3. Cardinality(Letters(now)') = Cardinality(Letters(now)) + 1
      BY <1>10, <1>11, <2>2, <3>1, FS_AddElement
    <3>4. Cardinality(Forms') \in Nat
      BY <1>5, <1>11, FS_RemoveElement, FS_CardinalityType
    <3> QED
      BY <1>n, <1>11, <2>1, <3>2, <3>3, <3>4
  <2>3. CASE ~hs[h].form
    <3>1. Forms' = Forms /\ Letters(now)' = Letters(now)
      BY <1>5, <1>10, <2>3 DEF Forms
    <3> QED
      BY <1>11, <2>1, <3>1
  <2> QED
    BY <2>2, <2>3
<1>13. ASSUME NEW t \in 0..now
       PROVE  Cardinality(Letters(t)') <= MaxPerHour + Cardinality(Handlers) - 1
  <2>1. CASE t < now
    BY <1>9, <2>1 DEF LettersInv, LettersBounded, Letters
  <2>2. CASE t = now
    <3>1. Letters(t)' = Letters(now)'
      BY <1>3, <2>2 DEF Letters
    <3>2. Cardinality(Letters(now)') <= MaxPerHour + Cardinality(Handlers) - 1
      BY <1>n, <1>11, <1>12
    <3> HIDE DEF Letters
    <3> QED
      BY <3>1, <3>2
  <2> QED
    BY <1>n, <2>1, <2>2
<1>14. LettersBounded'
  BY <1>3, <1>13 DEF LettersBounded, Letters
<1> QED
  BY <1>3, <1>6, <1>7, <1>8, <1>12, <1>14 DEF LettersInv

\* Time passes: the window moves on, and nothing has been issued yet at its
\* new end.
LEMMA LettersAge ==
  ASSUME TypeOK, LettersInv, Tick
  PROVE  LettersInv'
<1>1. now' = now + 1 /\ UNCHANGED <<links, requested, hs>>
  BY DEF Tick, history
<1>n. now \in Int /\ Hour \in Nat /\ MaxPerHour \in Nat
  BY AccessAssumption DEF TypeOK
<1>2. \A i \in DOMAIN links : links[i].created \in Nat /\ links[i].created <= now
  <2> SUFFICES ASSUME NEW i \in DOMAIN links
               PROVE  links[i].created \in Nat /\ links[i].created <= now
    OBVIOUS
  <2>1. links[i] \in Invite
    BY DEF TypeOK
  <2>2. links[i].created \in Nat
    BY <2>1 DEF Invite
  <2> QED
    BY <2>2 DEF LettersInv
<1>r. requested \subseteq DOMAIN links
  BY DEF TypeOK
<1>3. Forms' = Forms
  BY <1>1 DEF Forms
<1>4. Letters(now + 1) \subseteq Letters(now)
  BY <1>n, <1>r, <1>2 DEF Letters
<1>5. Cardinality(Letters(now + 1)) <= Cardinality(Letters(now))
  BY <1>4, LettersFinite, FS_Subset
<1>6. /\ Cardinality(Letters(now)) \in Nat /\ Cardinality(Letters(now + 1)) \in Nat
      /\ Cardinality(Forms) \in Nat /\ Cardinality(Handlers) \in Nat
  BY LettersFinite
<1>7. Cardinality(Letters(now)) + Cardinality(Forms) <= MaxPerHour + Cardinality(Handlers) - 1
  BY DEF LettersInv
<1>8. Cardinality(Letters(now + 1)) + Cardinality(Forms) <= MaxPerHour + Cardinality(Handlers) - 1
  BY <1>n, <1>5, <1>6, <1>7
<1>9. ASSUME NEW t \in 0..(now + 1)
      PROVE  Cardinality(Letters(t)) <= MaxPerHour + Cardinality(Handlers) - 1
  <2>1. CASE t \in 0..now
    BY <2>1 DEF LettersInv, LettersBounded, Letters
  <2>2. CASE t = now + 1
    BY <1>n, <1>6, <1>8, <2>2
  <2> QED
    BY <1>n, <2>1, <2>2
<1>10. LettersBounded'
  BY <1>1, <1>9 DEF LettersBounded, Letters
<1>11. Letters(now)' = Letters(now + 1)
  BY <1>1 DEF Letters
<1>12. \A i \in DOMAIN links' : links'[i].created <= now'
  <2> SUFFICES ASSUME NEW i \in DOMAIN links PROVE links[i].created <= now + 1
    BY <1>1
  <2> QED
    BY <1>n, <1>2
<1>13. /\ \A i \in requested' : links'[i].purpose = "password"
       /\ \A h \in Forms' : hs'[h].purpose = "password"
  BY <1>1, <1>3 DEF LettersInv
<1> QED
  BY <1>3, <1>8, <1>10, <1>11, <1>12, <1>13 DEF LettersInv

LEMMA FormKept ==
  ASSUME TypeOK, NEW h \in Handlers, RevokePending(h) \/ ListSessions(h) \/ ChangePassword(h)
  PROVE  hs'[h].form = hs[h].form /\ hs'[h].purpose = hs[h].purpose
<1>1. hs[h] \in Handler /\ hs \in [Handlers -> Handler]
  BY DEF TypeOK
<1>2. CASE RevokePending(h)
  BY <1>1, <1>2 DEF RevokePending, Handler
<1>3. CASE ListSessions(h)
  <2>1. PICK place \in {"use", "close"} :
          hs' = [hs EXCEPT ![h].at = place, ![h].closing = live]
    BY <1>3 DEF ListSessions
  <2> QED
    BY <1>1, <2>1 DEF Handler
<1>4. CASE ChangePassword(h)
  <2>1. hs' = [hs EXCEPT ![h].at = "changed"]
    BY <1>4 DEF ChangePassword, Goto
  <2> QED
    BY <1>1, <2>1 DEF Handler
<1> QED
  BY <1>2, <1>3, <1>4

LEMMA LettersStep == TypeInv /\ TypeInv' /\ LettersInv /\ [Next]_vars => LettersInv'
<1> SUFFICES ASSUME TypeInv, TypeInv', LettersInv, [Next]_vars PROVE LettersInv'
  OBVIOUS
<1>t. TypeOK /\ TypeOK'
  BY DEF TypeInv
<1>1. ASSUME NEW h \in Handlers, Started(h) PROVE LettersInv'
  <2>1. PICK entry : GoodEntry(entry) /\ Start(h, entry)
    BY <1>1 DEF Started
  <2>2. CASE entry.form
    BY <1>t, <2>1, <2>2, LimitPassed
  <2>3. CASE ~entry.form
    <3>1. /\ ~hs'[h].form /\ \A g \in Handlers : g # h => hs'[g] = hs[g]
          /\ UNCHANGED <<links, requested, now>>
      BY <1>t, <2>1, <2>3, OneHandlerMoves DEF GoodEntry, Start
    <3> QED
      BY <1>t, <3>1, LettersStay
  <2> QED
    BY <2>2, <2>3
<1>2. ASSUME NEW h \in Handlers,
             \/ LoginFails(h) \/ SignIn(h) \/ OpenAfterReset(h) \/ CloseAll(h) \/ Abandon(h)
      PROVE  LettersInv'
  <2>1. UNCHANGED <<links, requested, now>> /\ End(h)
    BY <1>2, LinkFree
  <2>2. ~hs'[h].form /\ \A g \in Handlers : g # h => hs'[g] = hs[g]
    BY <1>t, <2>1, HandlerEnds, IdleType
  <2> QED
    BY <1>t, <2>1, <2>2, LettersStay
<1>3. ASSUME NEW h \in Handlers, RevokePending(h) \/ ListSessions(h) \/ ChangePassword(h)
      PROVE  LettersInv'
  <2>1. /\ hs'[h].form = hs[h].form /\ hs'[h].purpose = hs[h].purpose
        /\ \A g \in Handlers : g # h => hs'[g] = hs[g]
    BY <1>t, <1>3, HandlerGoesOn, FormKept
  <2>2. UNCHANGED <<links, requested, now>>
    BY <1>3 DEF RevokePending, ListSessions, ChangePassword, history
  <2> QED
    BY <1>t, <2>1, <2>2, LettersStay
<1>4. ASSUME NEW h \in Handlers, SetPassword(h) \/ ConfirmEmail(h) PROVE LettersInv'
  <2>1. /\ hs[h].link \in DOMAIN links /\ MarkUsed(hs[h].link)
        /\ ~hs'[h].form /\ \A g \in Handlers : g # h => hs'[g] = hs[g]
        /\ UNCHANGED <<requested, now>>
    BY <1>4, UseStep
  <2>2. /\ DOMAIN links' = DOMAIN links
        /\ \A i \in DOMAIN links :
             links'[i].created = links[i].created /\ links'[i].purpose = links[i].purpose
    BY <1>t, <2>1, LinkMarked
  <2> QED
    BY <1>t, <2>1, <2>2, LettersStay
<1>5. CASE \/ \E i \in live : CloseSession(i)
           \/ \E active \in BOOLEAN : SetActive(active)
           \/ UNCHANGED vars
  <2>1. UNCHANGED <<hs, links, requested, now>>
    BY <1>5 DEF CloseSession, SetActive, vars, history
  <2> QED
    BY <1>t, <2>1, LettersStay
<1> QED
  BY <1>t, <1>1, <1>2, <1>3, <1>4, <1>5, StepKinds, LetterSent, LettersAge DEF Proceeds

LEMMA LettersInit == Init => LettersInv
<1> SUFFICES ASSUME Init PROVE LettersInv
  OBVIOUS
<1>1. Forms = {} /\ now = 0
  BY IdleType DEF Init, Forms
<1>2. requested = {} /\ \A t : Letters(t) = {}
  BY DEF Init, Letters
<1>3. \A i \in DOMAIN links : links[i].created = 0
  <2>1. CASE InitCreated
    BY <2>1 DEF InitCreated
  <2>2. CASE InitRegistered
    BY <2>2 DEF InitRegistered
  <2> QED
    BY <2>1, <2>2 DEF Init
<1>4. Cardinality({}) = 0 /\ Cardinality(Handlers) \in Nat /\ MaxPerHour \in Nat \ {0}
  BY FS_EmptySet, FS_CardinalityType, AccessAssumption
<1>5. LettersBounded
  BY <1>2, <1>4 DEF LettersBounded, Letters
<1> QED
  BY <1>1, <1>2, <1>3, <1>4, <1>5 DEF LettersInv

\* Whoever asks for links and however their requests meet: within the hour
\* the forms send no more letters than the limit and one for every other
\* handler that was on its way when the limit was read.
THEOREM LettersCorrect == Spec => []LettersBounded
<1>1. LettersInv => LettersBounded
  BY DEF LettersInv
<1> QED
  BY <1>1, LettersInit, LettersStep, TypeAlways, PTL DEF Spec

=============================================================================
