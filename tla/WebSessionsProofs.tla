------------------------- MODULE WebSessionsProofs -------------------------
(***************************************************************************)
(* What every interleaving of logins, pages and console commands keeps of  *)
(* the sessions of WebSessions, for any handlers, limits and lifetimes.    *)
(***************************************************************************)
EXTENDS WebSessions, TLAPS

---------------------------------------------------------------------------
(* The inductive invariant *)

\* What a handler carries: the copies its place needs.
GoodCopy(handler) ==
  /\ handler.at \in {"login", "command"} => handler.loaded \in AdminRow
  /\ handler.at = "command" => handler.after \in AdminRow
  /\ handler.at \in {"expire", "renew", "owner", "served"} => handler.id \in Ids

CopiesOK == \A h \in Handlers : GoodCopy(hs[h])

TypeInv == TypeOK /\ CopiesOK

\* Sessions are opened in the order of their numbers.
OpenedInOrder == \A i \in Ids : Exists(i) => i <= opened

\* Only the first password may have an outdated hash, so a login that renews
\* one, or a command's copy, can bring nothing but the first password back.
FirstHashInv ==
  /\ admin.password.outdated => admin.password.set = 0
  /\ \A h \in Handlers :
       /\ hs[h].at = "login" /\ hs[h].loaded.password.outdated =>
            hs[h].loaded.password.set = 0
       /\ hs[h].at = "command" /\ hs[h].after.password.outdated =>
            hs[h].after.password.set = 0

\* A command that closes no sessions leaves the credentials alone and turns
\* nobody off.
OpenCommandsInv ==
  \A h \in Handlers : hs[h].at = "command" /\ ~hs[h].closes =>
    /\ hs[h].after.password = hs[h].loaded.password
    /\ hs[h].after.totp = hs[h].loaded.totp
    /\ hs[h].after.is_active \/ hs[h].after.is_active = hs[h].loaded.is_active

\* A command about to close sessions has listed all but the late ones.
ListedInv == \A h \in Handlers : hs[h].at = "close" => Live \ late \subseteq hs[h].closing

\* Every session was opened by a login that proved its credentials.
ProvedInv == \A i \in Ids : Exists(i) => proof[i] \in Credentials

FollowInv ==
  FirstHashInv /\ OpenCommandsInv /\ ListedInv /\ SessionsFollowCredentials

\* The mark of a session is older than its last use by no more than this.
Slack == IF Lag > Throttle THEN Lag ELSE Throttle

MarksInv ==
  /\ \A i \in Ids : touched[i] <= now
  /\ \A i \in Ids : Exists(i) => touched[i] - rows[i].seen <= Slack
  /\ \A h \in Handlers : hs[h].at \in {"renew", "expire"} =>
       hs[h].clock <= now /\ now - hs[h].clock <= Lag

---------------------------------------------------------------------------
(* The pieces of a step *)

LEMMA IdleType == Idle \in Handler /\ GoodCopy(Idle) /\ Idle.at = "idle"
<1>1. 0 \in Time
  BY SessionsAssumption DEF Time
<1> QED
  BY <1>1 DEF Idle, Handler, Places, GoodCopy

\* One handler moves to a good place, the others stay.
LEMMA OneHandlerMoves ==
  ASSUME TypeInv, NEW h \in Handlers, NEW rec \in Handler, GoodCopy(rec),
         hs' = [hs EXCEPT ![h] = rec]
  PROVE  /\ hs' \in [Handlers -> Handler]
         /\ hs'[h] = rec
         /\ \A g \in Handlers : g # h => hs'[g] = hs[g]
         /\ CopiesOK'
<1>1. hs' \in [Handlers -> Handler] /\ hs'[h] = rec /\ \A g \in Handlers : g # h => hs'[g] = hs[g]
  BY DEF TypeInv, TypeOK
<1>2. \A g \in Handlers : GoodCopy(hs'[g])
  BY <1>1 DEF TypeInv, CopiesOK
<1> QED
  BY <1>1, <1>2 DEF CopiesOK

LEMMA HandlerEnds ==
  ASSUME TypeInv, NEW h \in Handlers, End(h)
  PROVE  /\ hs' \in [Handlers -> Handler]
         /\ hs'[h] = Idle
         /\ \A g \in Handlers : g # h => hs'[g] = hs[g]
         /\ CopiesOK'
  BY IdleType, OneHandlerMoves DEF End

\* A handler that goes on keeps its copies and goes to another place.
LEMMA HandlerGoesOn ==
  ASSUME TypeInv, NEW h \in Handlers, NEW place \in Places, NEW listed \in SUBSET Ids,
         hs' = [hs EXCEPT ![h] = [hs[h] EXCEPT !.at = place, !.closing = listed]],
         GoodCopy([hs[h] EXCEPT !.at = place])
  PROVE  /\ hs' \in [Handlers -> Handler]
         /\ hs'[h] = [hs[h] EXCEPT !.at = place, !.closing = listed]
         /\ \A g \in Handlers : g # h => hs'[g] = hs[g]
         /\ CopiesOK'
<1> DEFINE rec == [hs[h] EXCEPT !.at = place, !.closing = listed]
<1>1. hs[h] \in Handler
  BY DEF TypeInv, TypeOK
<1>2. rec \in Handler
  BY <1>1 DEF Handler
<1>3. GoodCopy(rec)
  BY <1>1 DEF GoodCopy, Handler
<1> HIDE DEF rec
<1> QED
  BY <1>2, <1>3, OneHandlerMoves DEF rec

LEMMA WriteBackType ==
  ASSUME admin \in AdminRow, NEW before \in AdminRow, NEW after \in AdminRow
  PROVE  LET new == WriteBack(before, after) IN
         /\ new \in AdminRow
         /\ new.password = IF after.password # before.password
                           THEN after.password ELSE admin.password
         /\ new.totp = IF after.totp # before.totp THEN after.totp ELSE admin.totp
         /\ new.is_active = IF after.is_active # before.is_active
                            THEN after.is_active ELSE admin.is_active
  BY DEF WriteBack, AdminRow

LEMMA FailedRowType ==
  ASSUME NEW row \in AdminRow, NEW time \in Time
  PROVE  LET new == FailedRow(row, time) IN
         /\ new \in AdminRow
         /\ new.password = row.password /\ new.totp = row.totp
         /\ new.is_active = row.is_active
<1> DEFINE full == [row EXCEPT !.failed = 0, !.locked_until = time + LockTime]
           counted == [row EXCEPT !.failed = row.failed + 1]
<1>1. FailedRow(row, time) = IF row.failed + 1 >= MaxAttempts THEN full ELSE counted
  BY DEF FailedRow
<1>2. /\ full \in AdminRow
      /\ full.password = row.password /\ full.totp = row.totp /\ full.is_active = row.is_active
  <2>1. time + LockTime \in 0..(MaxTime + LockTime) /\ 0 \in 0..(MaxAttempts - 1)
    BY SessionsAssumption DEF Time
  <2> QED
    BY <2>1 DEF AdminRow
<1>3. /\ row.failed + 1 < MaxAttempts => counted \in AdminRow
      /\ counted.password = row.password /\ counted.totp = row.totp
      /\ counted.is_active = row.is_active
  <2>1. row.failed \in 0..(MaxAttempts - 1)
    BY DEF AdminRow
  <2>2. row.failed + 1 < MaxAttempts => row.failed + 1 \in 0..(MaxAttempts - 1)
    BY <2>1, SessionsAssumption
  <2> QED
    BY <2>1, <2>2 DEF AdminRow
<1>4. row.failed \in Nat
  BY SessionsAssumption DEF AdminRow
<1> HIDE DEF full, counted
<1> QED
  BY <1>1, <1>2, <1>3, <1>4, SessionsAssumption

LEMMA SignedInRowType ==
  ASSUME NEW row \in AdminRow
  PROVE  LET new == SignedInRow(row) IN
         /\ new \in AdminRow
         /\ new.password.set = row.password.set /\ ~new.password.outdated
         /\ new.password # row.password => row.password.outdated
         /\ new.totp = row.totp /\ new.is_active = row.is_active
<1>1. row.password \in Hash
  BY DEF AdminRow
<1>2. /\ 0 \in 0..(MaxAttempts - 1)
      /\ 0 \in 0..(MaxTime + LockTime)
  BY SessionsAssumption
<1>3. [row.password EXCEPT !.outdated = FALSE] = row.password \/ row.password.outdated
  BY <1>1 DEF Hash
<1> QED
  BY <1>1, <1>2, <1>3 DEF SignedInRow, AdminRow, Hash

LEMMA UnlockedType ==
  ASSUME NEW row \in AdminRow
  PROVE  /\ Unlocked(row) \in AdminRow
         /\ Unlocked(row).password = row.password /\ Unlocked(row).totp = row.totp
         /\ Unlocked(row).is_active = row.is_active
<1>1. 0 \in 0..(MaxAttempts - 1) /\ 0 \in 0..(MaxTime + LockTime)
  BY SessionsAssumption
<1> QED
  BY <1>1 DEF Unlocked, AdminRow

---------------------------------------------------------------------------
(* Types *)

\* A command starts with a good copy and writes a row.
LEMMA CommandType ==
  ASSUME TypeInv, NEW h \in Handlers, NEW after \in AdminRow, NEW closes \in BOOLEAN,
         Command(h, after, closes), changes' \in 0..MaxChanges
  PROVE  /\ TypeInv'
         /\ hs'[h] = [Idle EXCEPT !.at = "command", !.loaded = admin, !.after = after,
                                  !.closes = closes]
         /\ \A g \in Handlers : g # h => hs'[g] = hs[g]
<1> DEFINE rec == [Idle EXCEPT !.at = "command", !.loaded = admin, !.after = after,
                               !.closes = closes]
<1>1. admin \in AdminRow
  BY DEF TypeInv, TypeOK
<1>2. rec \in Handler /\ GoodCopy(rec)
  BY <1>1, IdleType DEF Handler, GoodCopy, Places
<1>3. hs' = [hs EXCEPT ![h] = rec]
  BY DEF Command, Start
<1> HIDE DEF rec
<1>4. /\ hs' \in [Handlers -> Handler] /\ hs'[h] = rec /\ CopiesOK'
      /\ \A g \in Handlers : g # h => hs'[g] = hs[g]
  BY <1>2, <1>3, OneHandlerMoves
<1>5. runs' \in 0..MaxRuns
  BY SessionsAssumption DEF Command, Start, TypeInv, TypeOK
<1> QED
  BY <1>4, <1>5 DEF rec, TypeInv, TypeOK, Command, Start

\* Every console command starts as a command whose copies fit its purpose.
LEMMA CommandsStart ==
  ASSUME TypeInv, NEW h \in Handlers,
         \/ AdminPassword(h) \/ AdminResetTotp(h) \/ AdminUnlock(h)
         \/ \E enable \in BOOLEAN : AdminDisable(h, enable)
  PROVE  /\ changes' \in 0..MaxChanges
         /\ \E after \in AdminRow, closes \in BOOLEAN :
              /\ Command(h, after, closes)
              /\ after.password.outdated => after.password = admin.password
              /\ ~closes => /\ after.password = admin.password /\ after.totp = admin.totp
                            /\ after.is_active \/ after.is_active = admin.is_active
<1>1. /\ admin \in AdminRow /\ changes \in 0..MaxChanges
      /\ changes < MaxChanges => changes + 1 \in Secret /\ changes + 1 \in 0..MaxChanges
  BY SessionsAssumption DEF TypeInv, TypeOK, Secret
<1>2. /\ Unlocked(admin) \in AdminRow
      /\ Unlocked(admin).password = admin.password /\ Unlocked(admin).totp = admin.totp
      /\ Unlocked(admin).is_active = admin.is_active
  BY <1>1, UnlockedType
<1>3. CASE AdminPassword(h)
  <2> DEFINE after == [Unlocked(admin) EXCEPT
                         !.password = [set |-> changes + 1, outdated |-> FALSE]]
  <2>1. [set |-> changes + 1, outdated |-> FALSE] \in Hash
    BY <1>1, <1>3 DEF AdminPassword, Hash
  <2>2. after \in AdminRow /\ ~after.password.outdated
    BY <1>2, <2>1 DEF AdminRow
  <2>3. Command(h, after, TRUE)
    BY <1>3 DEF AdminPassword
  <2> QED
    BY <1>1, <1>3, <2>2, <2>3 DEF AdminPassword
<1>4. CASE AdminResetTotp(h)
  <2> DEFINE after == [Unlocked(admin) EXCEPT !.totp = changes + 1]
  <2>1. after \in AdminRow /\ after.password = admin.password
    BY <1>1, <1>2, <1>4 DEF AdminRow, AdminResetTotp
  <2>2. Command(h, after, TRUE)
    BY <1>4 DEF AdminResetTotp
  <2> QED
    BY <1>1, <1>4, <2>1, <2>2 DEF AdminResetTotp
<1>5. CASE AdminUnlock(h)
  BY <1>1, <1>2, <1>5 DEF AdminUnlock
<1>6. ASSUME NEW enable \in BOOLEAN, AdminDisable(h, enable)
      PROVE  /\ changes' = changes
             /\ \E after \in AdminRow, closes \in BOOLEAN :
                  /\ Command(h, after, closes)
                  /\ after.password.outdated => after.password = admin.password
                  /\ ~closes => /\ after.password = admin.password /\ after.totp = admin.totp
                                /\ after.is_active \/ after.is_active = admin.is_active
  <2> DEFINE after == [admin EXCEPT !.is_active = enable]
  <2>1. /\ after \in AdminRow /\ after.password = admin.password
        /\ after.totp = admin.totp /\ after.is_active = enable
    BY <1>1 DEF AdminRow
  <2>2. Command(h, after, ~enable) /\ changes' = changes
    BY <1>6 DEF AdminDisable
  <2> QED
    BY <2>1, <2>2
<1> QED
  BY <1>1, <1>3, <1>4, <1>5, <1>6

LEMMA SessionRowKept ==
  ASSUME NEW row \in SessionRow
  PROVE  /\ row.expires \in Nat /\ row.seen \in Nat /\ row.revoked \in BOOLEAN
         /\ [row EXCEPT !.revoked = TRUE] \in SessionRow
         /\ \A t \in Nat : [row EXCEPT !.seen = t] \in SessionRow
  BY DEF SessionRow

LEMMA ClockTypes ==
  ASSUME TypeInv
  PROVE  /\ now \in Nat /\ opened \in Nat
         /\ \A h \in Handlers : hs[h] \in Handler /\ hs[h].clock \in Time /\ hs[h].clock \in Nat
         /\ \A i \in Ids : touched[i] \in Nat
         /\ \A i \in Ids : Exists(i) => rows[i] \in SessionRow
  BY SessionsAssumption DEF TypeInv, TypeOK, Handler, Time, Exists

\* A login opens one session and purges others.
LEMMA SignInRows ==
  ASSUME TypeInv, NEW h \in Handlers, SignIn(h)
  PROVE  /\ opened + 1 \in Ids /\ opened' = opened + 1
         /\ rows' \in [Ids -> SessionRow \cup {None}]
         /\ rows'[opened + 1] = [expires |-> now + Ttl, seen |-> now, revoked |-> FALSE]
         /\ \A i \in Ids : i # opened + 1 => rows'[i] \in {rows[i], None}
<1>1. opened + 1 \in Ids /\ opened' = opened + 1
  BY DEF SignIn
<1>2. [expires |-> now + Ttl, seen |-> now, revoked |-> FALSE] \in SessionRow
  BY ClockTypes, SessionsAssumption DEF SessionRow
<1>3. Purged(now) \in [Ids -> SessionRow \cup {None}]
  BY DEF Purged, TypeInv, TypeOK
<1>4. \A i \in Ids : Purged(now)[i] \in {rows[i], None}
  BY DEF Purged
<1>5. rows' = [Purged(now) EXCEPT ![opened + 1] =
                 [expires |-> now + Ttl, seen |-> now, revoked |-> FALSE]]
  BY DEF SignIn
<1> QED
  BY <1>1, <1>2, <1>3, <1>4, <1>5

LEMMA TypeStep ==
  ASSUME TypeInv, [Next]_vars
  PROVE  TypeInv'
<1> USE DEF TypeInv
<1>1. ASSUME NEW h \in Handlers, StartLogin(h)
      PROVE  TypeInv'
  <2> DEFINE rec == [Idle EXCEPT !.at = "login", !.loaded = admin, !.clock = now]
  <2>1. rec \in Handler /\ GoodCopy(rec)
    BY IdleType DEF Handler, GoodCopy, Places, TypeOK
  <2>2. hs' = [hs EXCEPT ![h] = rec]
    BY <1>1 DEF StartLogin, Start
  <2> HIDE DEF rec
  <2>3. hs' \in [Handlers -> Handler] /\ CopiesOK'
    BY <2>1, <2>2, OneHandlerMoves
  <2>4. runs' \in 0..MaxRuns
    BY <1>1, SessionsAssumption DEF StartLogin, Start, TypeOK
  <2> QED
    BY <1>1, <2>3, <2>4 DEF StartLogin, Start, TypeOK
<1>2. ASSUME NEW h \in Handlers, LoginFails(h)
      PROVE  TypeInv'
  <2>1. hs[h].loaded \in AdminRow /\ hs[h].clock \in Time /\ admin \in AdminRow
    BY <1>2, ClockTypes DEF LoginFails, CopiesOK, GoodCopy, TypeOK
  <2>2. FailedRow(hs[h].loaded, hs[h].clock) \in AdminRow
    BY <2>1, FailedRowType
  <2>3. WriteBack(hs[h].loaded, FailedRow(hs[h].loaded, hs[h].clock)) \in AdminRow
    BY <2>1, <2>2, WriteBackType
  <2>4. hs' \in [Handlers -> Handler] /\ CopiesOK'
    BY <1>2, HandlerEnds DEF LoginFails
  <2> QED
    BY <1>2, <2>3, <2>4 DEF LoginFails, TypeOK, history
<1>3. ASSUME NEW h \in Handlers, SignIn(h)
      PROVE  TypeInv'
  <2>1. hs[h].loaded \in AdminRow /\ admin \in AdminRow
    BY <1>3 DEF SignIn, CopiesOK, GoodCopy, TypeOK
  <2>2. SignedInRow(hs[h].loaded) \in AdminRow
    BY <2>1, SignedInRowType
  <2>3. admin' \in AdminRow
    BY <1>3, <2>1, <2>2, WriteBackType DEF SignIn
  <2>4. hs' \in [Handlers -> Handler] /\ CopiesOK'
    BY <1>3, HandlerEnds DEF SignIn
  <2>5. rows' \in [Ids -> SessionRow \cup {None}] /\ opened + 1 \in Ids
    BY <1>3, SignInRows
  <2>6. opened' \in 0..MaxSessions
    BY <1>3, <2>5, SessionsAssumption DEF SignIn, Ids
  <2>7. [password |-> hs[h].loaded.password.set, totp |-> hs[h].loaded.totp] \in Credentials
    BY <2>1 DEF AdminRow, Hash, Credentials
  <2>8. proof' \in [Ids -> Credentials \cup {None}]
    BY <1>3, <2>5, <2>7 DEF SignIn, TypeOK
  <2>9. touched' \in [Ids -> Time] /\ late' \in SUBSET Ids
    BY <1>3, <2>5 DEF SignIn, TypeOK
  <2> QED
    BY <1>3, <2>3, <2>4, <2>5, <2>6, <2>8, <2>9 DEF SignIn, TypeOK
<1>4. ASSUME NEW h \in Handlers, NEW i \in Ids, LoadSession(h, i)
      PROVE  TypeInv'
  <2>1. PICK place \in {"expire", "renew", "owner"} :
          Start(h, [Idle EXCEPT !.id = i, !.clock = now, !.at = place])
    BY <1>4 DEF LoadSession, Idle
  <2> DEFINE rec == [Idle EXCEPT !.id = i, !.clock = now, !.at = place]
  <2>2. rec \in Handler /\ GoodCopy(rec)
    BY IdleType DEF Handler, GoodCopy, Places, TypeOK
  <2>3. hs' = [hs EXCEPT ![h] = rec]
    BY <2>1 DEF Start
  <2> HIDE DEF rec
  <2>4. hs' \in [Handlers -> Handler] /\ CopiesOK'
    BY <2>2, <2>3, OneHandlerMoves
  <2>5. runs' \in 0..MaxRuns
    BY <2>1, SessionsAssumption DEF Start, TypeOK
  <2>6. touched' \in [Ids -> Time] /\ changes' = changes
    BY <1>4 DEF LoadSession, Touched, TypeOK
  <2> QED
    BY <2>1, <2>4, <2>5, <2>6 DEF Start, TypeOK
<1>5. ASSUME NEW h \in Handlers, CommitExpired(h) \/ Logout(h)
      PROVE  TypeInv'
  <2>1. hs[h].id \in Ids /\ rows[hs[h].id] \in SessionRow
    BY <1>5, ClockTypes DEF CommitExpired, Logout, CopiesOK, GoodCopy
  <2>2. rows' = [rows EXCEPT ![hs[h].id] = [rows[hs[h].id] EXCEPT !.revoked = TRUE]]
    BY <1>5 DEF CommitExpired, Logout
  <2>3. rows' \in [Ids -> SessionRow \cup {None}]
    BY <2>1, <2>2, SessionRowKept DEF TypeOK
  <2>4. hs' \in [Handlers -> Handler] /\ CopiesOK'
    BY <1>5, HandlerEnds DEF CommitExpired, Logout
  <2> QED
    BY <1>5, <2>3, <2>4 DEF CommitExpired, Logout, TypeOK, history
<1>6. ASSUME NEW h \in Handlers, CommitRenewal(h)
      PROVE  TypeInv'
  <2>1. /\ hs[h].id \in Ids /\ rows[hs[h].id] \in SessionRow
        /\ hs[h] \in Handler /\ hs[h].clock \in Time /\ hs[h].clock \in Nat
    BY <1>6, ClockTypes DEF CommitRenewal, CopiesOK, GoodCopy
  <2>2. rows' = [rows EXCEPT ![hs[h].id] = [rows[hs[h].id] EXCEPT !.seen = hs[h].clock]]
    BY <1>6 DEF CommitRenewal
  <2>3. rows' \in [Ids -> SessionRow \cup {None}]
    BY <2>1, <2>2, SessionRowKept DEF TypeOK
  <2>4. hs' = [hs EXCEPT ![h] = [hs[h] EXCEPT !.at = "owner", !.closing = hs[h].closing]]
    BY <1>6, <2>1 DEF CommitRenewal, Handler
  <2>5. GoodCopy([hs[h] EXCEPT !.at = "owner"]) /\ "owner" \in Places /\ hs[h].closing \in SUBSET Ids
    BY <2>1 DEF GoodCopy, Handler, Places
  <2>6. hs' \in [Handlers -> Handler] /\ CopiesOK'
    BY <2>4, <2>5, HandlerGoesOn
  <2>7. touched' \in [Ids -> Time]
    BY <1>6, <2>1 DEF CommitRenewal, Touched, TypeOK
  <2> QED
    BY <1>6, <2>3, <2>6, <2>7 DEF CommitRenewal, TypeOK
<1>7. ASSUME NEW h \in Handlers, FindOwner(h)
      PROVE  TypeInv'
  <2>1. hs[h].id \in Ids /\ hs[h] \in Handler
    BY <1>7, ClockTypes DEF FindOwner, CopiesOK, GoodCopy
  <2>2. hs' = [hs EXCEPT ![h] = [hs[h] EXCEPT !.at = "served", !.closing = hs[h].closing]]
    BY <1>7, <2>1 DEF FindOwner, Handler
  <2>3. GoodCopy([hs[h] EXCEPT !.at = "served"]) /\ "served" \in Places /\ hs[h].closing \in SUBSET Ids
    BY <2>1 DEF GoodCopy, Handler, Places
  <2>4. hs' \in [Handlers -> Handler] /\ CopiesOK'
    BY <2>2, <2>3, HandlerGoesOn
  <2> QED
    BY <1>7, <2>4 DEF FindOwner, TypeOK, history
<1>8. ASSUME NEW h \in Handlers, Serve(h)
      PROVE  TypeInv'
  BY <1>8, HandlerEnds DEF Serve, TypeOK, history
<1>9. ASSUME NEW h \in Handlers,
             \/ AdminPassword(h) \/ AdminResetTotp(h) \/ AdminUnlock(h)
             \/ \E enable \in BOOLEAN : AdminDisable(h, enable)
      PROVE  TypeInv'
  BY <1>9, CommandsStart, CommandType
<1>10. ASSUME NEW h \in Handlers, CommitCommand(h)
       PROVE  TypeInv'
  <2>1. hs[h].loaded \in AdminRow /\ hs[h].after \in AdminRow /\ admin \in AdminRow
    BY <1>10 DEF CommitCommand, CopiesOK, GoodCopy, TypeOK
  <2>2. admin' \in AdminRow
    BY <1>10, <2>1, WriteBackType DEF CommitCommand
  <2> DEFINE rec == IF hs[h].closes THEN [Idle EXCEPT !.at = "changed"] ELSE Idle
  <2>3. rec \in Handler /\ GoodCopy(rec)
    BY IdleType DEF Handler, GoodCopy, Places
  <2>4. hs' = [hs EXCEPT ![h] = rec]
    BY <1>10 DEF CommitCommand
  <2> HIDE DEF rec
  <2>5. hs' \in [Handlers -> Handler] /\ CopiesOK'
    BY <2>3, <2>4, OneHandlerMoves
  <2> QED
    BY <1>10, <2>2, <2>5 DEF CommitCommand, TypeOK, history
<1>11. ASSUME NEW h \in Handlers, ListSessions(h)
       PROVE  TypeInv'
  <2>1. hs[h] \in Handler
    BY ClockTypes
  <2>2. hs' = [hs EXCEPT ![h] = [hs[h] EXCEPT !.at = "close", !.closing = Live]]
    BY <1>11 DEF ListSessions
  <2>3. GoodCopy([hs[h] EXCEPT !.at = "close"]) /\ "close" \in Places /\ Live \in SUBSET Ids
    BY <2>1 DEF GoodCopy, Handler, Places, Live
  <2>4. hs' \in [Handlers -> Handler] /\ CopiesOK'
    BY <2>2, <2>3, HandlerGoesOn
  <2> QED
    BY <1>11, <2>4 DEF ListSessions, TypeOK, history
<1>12. ASSUME NEW h \in Handlers, CloseAll(h)
       PROVE  TypeInv'
  <2>1. \A i \in Ids : Exists(i) => [rows[i] EXCEPT !.revoked = TRUE] \in SessionRow
    BY ClockTypes, SessionRowKept
  <2>2. Closing(hs[h].closing) \in [Ids -> SessionRow \cup {None}]
    BY <2>1 DEF Closing, TypeOK
  <2>3. hs' \in [Handlers -> Handler] /\ CopiesOK'
    BY <1>12, HandlerEnds DEF CloseAll
  <2> QED
    BY <1>12, <2>2, <2>3 DEF CloseAll, TypeOK, history
<1>13. ASSUME NEW h \in Handlers, Abandon(h)
       PROVE  TypeInv'
  <2>1. interrupted' \in BOOLEAN
    BY <1>13 DEF Abandon, TypeOK
  <2> QED
    BY <1>13, <2>1, HandlerEnds DEF Abandon, TypeOK
<1>14. CASE Tick
  BY <1>14, SessionsAssumption DEF Tick, TypeOK, CopiesOK, Time, history
<1>15. CASE UNCHANGED vars
  BY <1>15 DEF vars, history, TypeOK, CopiesOK
<1> QED
  BY <1>1, <1>2, <1>3, <1>4, <1>5, <1>6, <1>7, <1>8, <1>9, <1>10, <1>11, <1>12, <1>13,
     <1>14, <1>15 DEF Next, Finished

LEMMA TypeInit == Init => TypeInv
<1> SUFFICES ASSUME Init PROVE TypeInv
  OBVIOUS
<1>1. /\ 0 \in Secret /\ 0 \in Time /\ 0 \in 0..(MaxAttempts - 1)
      /\ 0 \in 0..(MaxTime + LockTime) /\ 0 \in 0..MaxSessions /\ 0 \in 0..MaxRuns
      /\ 0 \in 0..MaxChanges
  BY SessionsAssumption DEF Secret, Time
<1>2. PICK outdated \in BOOLEAN :
        admin = [password |-> [set |-> 0, outdated |-> outdated], totp |-> 0,
                 is_active |-> TRUE, failed |-> 0, locked_until |-> 0]
  BY DEF Init
<1>3. admin \in AdminRow
  BY <1>1, <1>2 DEF AdminRow, Hash
<1>4. hs \in [Handlers -> Handler] /\ CopiesOK
  BY IdleType DEF Init, CopiesOK
<1> QED
  BY <1>1, <1>3, <1>4 DEF Init, TypeInv, TypeOK

LEMMA TypeAlways == Spec => []TypeInv
  BY TypeInit, TypeStep, PTL DEF Spec

\* Every variable keeps its type: the copies of the administrator are rows, a
\* failure below the limit never counts beyond it, clocks keep to their range.
THEOREM SessionTypeCorrect == Spec => []TypeOK
  BY TypeAlways, PTL DEF TypeInv

---------------------------------------------------------------------------
(* Rows *)

\* In a step the row of a session stays as it is or is revoked.
KeptOrRevoked(i) ==
  rows'[i] = rows[i] \/ (Exists(i) /\ rows'[i] = [rows[i] EXCEPT !.revoked = TRUE])

\* What a step does to the rows.
LEMMA RowSteps ==
  ASSUME TypeInv, [Next]_vars
  PROVE  \/ \E h \in Handlers : SignIn(h)
         \/ \E h \in Handlers : CommitRenewal(h)
         \/ opened' = opened /\ proof' = proof /\ \A i \in Ids : KeptOrRevoked(i)
<1>1. rows \in [Ids -> SessionRow \cup {None}]
  BY DEF TypeInv, TypeOK
<1>2. ASSUME rows' = rows
      PROVE  \A i \in Ids : KeptOrRevoked(i)
  BY <1>2 DEF KeptOrRevoked
<1>3. ASSUME NEW h \in Handlers, CommitExpired(h) \/ Logout(h)
      PROVE  opened' = opened /\ proof' = proof /\ \A i \in Ids : KeptOrRevoked(i)
  BY <1>1, <1>3 DEF CommitExpired, Logout, KeptOrRevoked, history
<1>4. ASSUME NEW h \in Handlers, CloseAll(h)
      PROVE  opened' = opened /\ proof' = proof /\ \A i \in Ids : KeptOrRevoked(i)
  BY <1>1, <1>4 DEF CloseAll, Closing, KeptOrRevoked, history
<1>5. ASSUME NEW h \in Handlers,
             \/ StartLogin(h) \/ LoginFails(h) \/ (\E i \in Ids : LoadSession(h, i))
             \/ FindOwner(h) \/ Serve(h) \/ CommitCommand(h) \/ ListSessions(h) \/ Abandon(h)
      PROVE  opened' = opened /\ proof' = proof /\ rows' = rows
  BY <1>5 DEF StartLogin, Start, LoginFails, LoadSession, FindOwner, Serve, CommitCommand,
              ListSessions, Abandon, history
<1>6. ASSUME NEW h \in Handlers,
             \/ AdminPassword(h) \/ AdminResetTotp(h) \/ AdminUnlock(h)
             \/ \E enable \in BOOLEAN : AdminDisable(h, enable)
      PROVE  opened' = opened /\ proof' = proof /\ rows' = rows
  BY <1>6, CommandsStart DEF Command, Start
<1>7. Tick \/ UNCHANGED vars => opened' = opened /\ proof' = proof /\ rows' = rows
  BY DEF Tick, vars, history
<1> QED
  BY <1>2, <1>3, <1>4, <1>5, <1>6, <1>7 DEF Next, Finished

\* A renewal touches the row of one session, and only its mark.
LEMMA RenewalRows ==
  ASSUME TypeInv, NEW h \in Handlers, CommitRenewal(h)
  PROVE  /\ hs[h].id \in Ids /\ Exists(hs[h].id) /\ hs[h].clock \in Nat
         /\ rows'[hs[h].id] = [rows[hs[h].id] EXCEPT !.seen = hs[h].clock]
         /\ rows'[hs[h].id] \in SessionRow /\ rows[hs[h].id] \in SessionRow
         /\ rows'[hs[h].id].seen = hs[h].clock
         /\ rows'[hs[h].id].revoked = rows[hs[h].id].revoked
         /\ \A i \in Ids : i # hs[h].id => rows'[i] = rows[i]
         /\ opened' = opened /\ proof' = proof
<1>1. hs[h].id \in Ids /\ Exists(hs[h].id) /\ hs[h].clock \in Nat
  BY ClockTypes DEF CommitRenewal, TypeInv, CopiesOK, GoodCopy
<1>2. rows[hs[h].id] \in SessionRow
  BY <1>1, ClockTypes
<1>3. /\ rows' = [rows EXCEPT ![hs[h].id] = [rows[hs[h].id] EXCEPT !.seen = hs[h].clock]]
      /\ opened' = opened /\ proof' = proof
  BY DEF CommitRenewal
<1>4. [rows[hs[h].id] EXCEPT !.seen = hs[h].clock] \in SessionRow
  BY <1>1, <1>2, SessionRowKept
<1>5. rows'[hs[h].id] = [rows[hs[h].id] EXCEPT !.seen = hs[h].clock]
  BY <1>1, <1>3 DEF TypeInv, TypeOK
<1> QED
  BY <1>1, <1>2, <1>3, <1>4, <1>5 DEF TypeInv, TypeOK, SessionRow

LEMMA OrderStep ==
  ASSUME TypeInv, OpenedInOrder, [Next]_vars
  PROVE  OpenedInOrder'
<1>1. opened \in Nat
  BY ClockTypes
<1>2. ASSUME NEW h \in Handlers, SignIn(h)
      PROVE  OpenedInOrder'
  <2>1. /\ opened' = opened + 1
        /\ \A i \in Ids : i # opened + 1 => rows'[i] \in {rows[i], None}
    BY <1>2, SignInRows
  <2>2. \A i \in Ids : i \in Nat
    BY SessionsAssumption DEF Ids
  <2> QED
    BY <1>1, <2>1, <2>2 DEF OpenedInOrder, Exists
<1>3. ASSUME NEW h \in Handlers, CommitRenewal(h)
      PROVE  OpenedInOrder'
  BY <1>3, RenewalRows DEF OpenedInOrder, Exists
<1>4. ASSUME opened' = opened, \A i \in Ids : KeptOrRevoked(i)
      PROVE  OpenedInOrder'
  BY <1>4 DEF OpenedInOrder, KeptOrRevoked, Exists
<1> QED
  BY <1>2, <1>3, <1>4, RowSteps

ClosedStays ==
  \A i \in Ids : Exists(i) /\ rows[i].revoked => rows'[i] = None \/ rows'[i].revoked

LEMMA ClosedStep ==
  ASSUME TypeInv, OpenedInOrder, [Next]_vars
  PROVE  ClosedStays
<1>1. ASSUME NEW h \in Handlers, SignIn(h)
      PROVE  ClosedStays
  <2>1. /\ opened + 1 \in Ids
        /\ \A i \in Ids : i # opened + 1 => rows'[i] \in {rows[i], None}
    BY <1>1, SignInRows
  <2>2. ~Exists(opened + 1)
    BY <2>1, ClockTypes DEF OpenedInOrder
  <2> QED
    BY <2>1, <2>2 DEF ClosedStays
<1>2. ASSUME NEW h \in Handlers, CommitRenewal(h)
      PROVE  ClosedStays
  BY <1>2, RenewalRows DEF ClosedStays
<1>3. ASSUME \A i \in Ids : KeptOrRevoked(i)
      PROVE  ClosedStays
  <2>1. \A i \in Ids : Exists(i) => [rows[i] EXCEPT !.revoked = TRUE].revoked
    BY ClockTypes DEF SessionRow
  <2> QED
    BY <1>3, <2>1 DEF ClosedStays, KeptOrRevoked
<1> QED
  BY <1>1, <1>2, <1>3, RowSteps

\* A revoked session is never open again: neither the renewal of a page that
\* had read the row before nor a new login brings it back.
THEOREM ClosedCorrect == Spec => ClosedForGood
<1>1. Init => OpenedInOrder
  BY DEF Init, OpenedInOrder, Exists
<1>2. Spec => []OpenedInOrder
  BY <1>1, OrderStep, TypeAlways, PTL DEF Spec
<1>3. TypeInv /\ OpenedInOrder /\ [Next]_vars =>
        [\A i \in Ids : Exists(i) /\ rows[i].revoked
           => rows'[i] = None \/ rows'[i].revoked]_vars
  BY ClosedStep DEF ClosedStays
<1> QED
  BY <1>2, <1>3, TypeAlways, PTL DEF Spec, ClosedForGood

---------------------------------------------------------------------------
(* Marks of activity *)

\* The page that loads a session goes to the place its row and clock ask for.
LEMMA LoadSteps ==
  ASSUME TypeInv, NEW h \in Handlers, NEW i \in Ids, LoadSession(h, i)
  PROVE  /\ hs[h].at = "idle" /\ Exists(i) /\ rows' = rows /\ now' = now
         /\ \A g \in Handlers : g # h => hs'[g] = hs[g]
         /\ hs'[h].id = i /\ hs'[h].clock = now
         /\ hs'[h].at \in {"expire", "renew", "owner"}
         /\ hs'[h].at = "expire" <=> IsExpired(rows[i], now)
         /\ \/ touched' = touched
            \/ touched' = Touched(i, now) /\ now - rows[i].seen < Throttle
<1>1. hs \in [Handlers -> Handler] /\ now \in Nat /\ rows[i] \in SessionRow
  BY ClockTypes DEF TypeInv, TypeOK, LoadSession
<1>2. now - rows[i].seen >= Throttle \/ now - rows[i].seen < Throttle
  BY <1>1, SessionsAssumption DEF SessionRow
<1> QED
  BY <1>1, <1>2 DEF LoadSession, Start, Idle

\* The other steps leave clock and touched alone and put nobody on the way to
\* a renewal or a verdict.
LEMMA QuietSteps ==
  ASSUME TypeInv, [Next]_vars
  PROVE  \/ \E h \in Handlers : SignIn(h)
         \/ \E h \in Handlers, i \in Ids : LoadSession(h, i)
         \/ \E h \in Handlers : CommitRenewal(h)
         \/ Tick
         \/ /\ now' = now /\ touched' = touched
            /\ \A i \in Ids : KeptOrRevoked(i)
            /\ \A g \in Handlers : hs'[g] = hs[g] \/ hs'[g].at \notin {"renew", "expire"}
<1> DEFINE Quiet == /\ now' = now /\ touched' = touched
                    /\ \A g \in Handlers : hs'[g] = hs[g] \/ hs'[g].at \notin {"renew", "expire"}
<1>1. hs \in [Handlers -> Handler]
  BY DEF TypeInv, TypeOK
<1>2. ASSUME NEW h \in Handlers, LoginFails(h) \/ CommitExpired(h) \/ Serve(h) \/ Logout(h)
                                 \/ CloseAll(h) \/ Abandon(h)
      PROVE  Quiet
  BY <1>2, HandlerEnds, IdleType
     DEF LoginFails, CommitExpired, Serve, Logout, CloseAll, Abandon, history
<1>3. ASSUME NEW h \in Handlers, FindOwner(h) \/ ListSessions(h) \/ StartLogin(h)
      PROVE  Quiet
  <2>1. hs[h] \in Handler
    BY <1>1
  <2>2. CASE FindOwner(h)
    BY <1>1, <2>1, <2>2 DEF FindOwner, history, Handler
  <2>3. CASE ListSessions(h)
    BY <1>1, <2>1, <2>3 DEF ListSessions, history, Handler
  <2>4. CASE StartLogin(h)
    BY <1>1, <2>4 DEF StartLogin, Start, Idle
  <2> QED
    BY <1>3, <2>2, <2>3, <2>4
<1>4. ASSUME NEW h \in Handlers, CommitCommand(h)
      PROVE  Quiet
  BY <1>1, <1>4 DEF CommitCommand, history, Idle
<1>5. ASSUME NEW h \in Handlers,
             \/ AdminPassword(h) \/ AdminResetTotp(h) \/ AdminUnlock(h)
             \/ \E enable \in BOOLEAN : AdminDisable(h, enable)
      PROVE  Quiet
  <2>1. PICK after \in AdminRow, closes \in BOOLEAN :
          changes' \in 0..MaxChanges /\ Command(h, after, closes)
    BY <1>5, CommandsStart
  <2>2. hs'[h].at = "command" /\ \A g \in Handlers : g # h => hs'[g] = hs[g]
    BY <1>1, <2>1 DEF Command, Start, Idle
  <2> QED
    BY <2>1, <2>2 DEF Command, Start
<1>6. ASSUME UNCHANGED vars
      PROVE  Quiet
  BY <1>6 DEF vars, history
<1> HIDE DEF Quiet
<1>7. \/ \E h \in Handlers : SignIn(h)
      \/ \E h \in Handlers, i \in Ids : LoadSession(h, i)
      \/ \E h \in Handlers : CommitRenewal(h)
      \/ Tick \/ Quiet
  BY <1>2, <1>3, <1>4, <1>5, <1>6 DEF Next, Finished
<1> QED
  BY <1>7, RowSteps DEF Quiet

LEMMA MarksStep ==
  ASSUME TypeInv, OpenedInOrder, MarksInv, [Next]_vars
  PROVE  MarksInv'
<1>1. /\ now \in Nat /\ Slack \in Nat /\ Lag <= Slack /\ Throttle <= Slack
      /\ \A h \in Handlers : hs[h].clock \in Nat
      /\ \A i \in Ids : touched[i] \in Nat
      /\ \A i \in Ids : Exists(i) => rows[i] \in SessionRow /\ rows[i].seen \in Nat
  <2>1. Slack \in Nat /\ Lag <= Slack /\ Throttle <= Slack
    BY SessionsAssumption DEF Slack
  <2>2. \A i \in Ids : Exists(i) => rows[i] \in SessionRow /\ rows[i].seen \in Nat
    BY ClockTypes DEF SessionRow
  <2> QED
    BY <2>1, <2>2, ClockTypes
<1>2. touched \in [Ids -> Time] /\ hs \in [Handlers -> Handler]
  BY DEF TypeInv, TypeOK
<1>3. ASSUME NEW h \in Handlers, SignIn(h)
      PROVE  MarksInv'
  <2>1. /\ opened + 1 \in Ids
        /\ rows'[opened + 1] = [expires |-> now + Ttl, seen |-> now, revoked |-> FALSE]
        /\ \A i \in Ids : i # opened + 1 => rows'[i] \in {rows[i], None}
    BY <1>3, SignInRows
  <2>2. touched' = [touched EXCEPT ![opened + 1] = now] /\ now' = now
    BY <1>3 DEF SignIn
  <2>3. hs'[h] = Idle /\ \A g \in Handlers : g # h => hs'[g] = hs[g]
    BY <1>3, HandlerEnds DEF SignIn
  <2>4. \A i \in Ids : touched'[i] <= now'
    BY <1>1, <1>2, <2>2 DEF MarksInv
  <2>5. \A i \in Ids : Exists(i)' => touched'[i] - rows'[i].seen <= Slack
    BY <1>1, <1>2, <2>1, <2>2 DEF MarksInv, Exists
  <2>6. \A g \in Handlers : hs'[g].at \in {"renew", "expire"} =>
          hs'[g].clock <= now' /\ now' - hs'[g].clock <= Lag
    BY <2>2, <2>3 DEF MarksInv, Idle
  <2> QED
    BY <2>4, <2>5, <2>6 DEF MarksInv, Slack
<1>4. ASSUME NEW h \in Handlers, NEW i \in Ids, LoadSession(h, i)
      PROVE  MarksInv'
  <2>1. /\ Exists(i) /\ rows' = rows /\ now' = now
        /\ \A g \in Handlers : g # h => hs'[g] = hs[g]
        /\ hs'[h].clock = now
        /\ \/ touched' = touched
           \/ touched' = Touched(i, now) /\ now - rows[i].seen < Throttle
    BY <1>4, LoadSteps
  <2>2. \A j \in Ids : touched'[j] <= now'
    BY <1>1, <1>2, <2>1 DEF MarksInv, Touched
  <2>3. \A j \in Ids : Exists(j) => touched'[j] - rows[j].seen <= Slack
    <3>1. CASE touched' = touched
      BY <3>1 DEF MarksInv
    <3>2. CASE touched' = Touched(i, now) /\ now - rows[i].seen < Throttle
      <4>1. \A j \in Ids : touched'[j] = touched[j] \/ (j = i /\ touched'[j] = now)
        BY <1>2, <3>2 DEF Touched
      <4>2. now - rows[i].seen <= Slack
        BY <1>1, <2>1, <3>2, SessionsAssumption
      <4> QED
        BY <4>1, <4>2 DEF MarksInv
    <3> QED
      BY <2>1, <3>1, <3>2
  <2>4. \A g \in Handlers : hs'[g].at \in {"renew", "expire"} =>
          hs'[g].clock <= now' /\ now' - hs'[g].clock <= Lag
    BY <1>1, <2>1, SessionsAssumption DEF MarksInv
  <2> QED
    BY <2>1, <2>2, <2>3, <2>4 DEF MarksInv, Slack, Exists
<1>5. ASSUME NEW h \in Handlers, CommitRenewal(h)
      PROVE  MarksInv'
  <2> DEFINE i == hs[h].id
  <2>1. /\ i \in Ids /\ Exists(i) /\ rows'[i].seen = hs[h].clock
        /\ \A j \in Ids : j # i => rows'[j] = rows[j]
    BY <1>5, RenewalRows
  <2>2. touched' = Touched(i, hs[h].clock) /\ now' = now /\ hs[h].at = "renew"
    BY <1>5 DEF CommitRenewal
  <2>3. hs' = [hs EXCEPT ![h].at = "owner"]
    BY <1>5 DEF CommitRenewal
  <2>4. hs'[h].at = "owner" /\ \A g \in Handlers : g # h => hs'[g] = hs[g]
    BY <1>2, <2>3 DEF Handler
  <2>5. hs[h].clock <= now /\ now - hs[h].clock <= Lag
    BY <2>2 DEF MarksInv
  <2> HIDE DEF i
  <2>6. /\ \A j \in Ids : j # i => touched'[j] = touched[j]
        /\ touched'[i] = touched[i] \/ touched'[i] = hs[h].clock
    BY <1>2, <2>1, <2>2 DEF Touched
  <2>7. touched'[i] <= now /\ touched'[i] - hs[h].clock <= Slack /\ touched'[i] \in Nat
    BY <1>1, <2>1, <2>5, <2>6, SessionsAssumption DEF MarksInv
  <2>8. \A j \in Ids : touched'[j] <= now'
    BY <2>2, <2>6, <2>7 DEF MarksInv
  <2>9. \A j \in Ids : Exists(j)' => touched'[j] - rows'[j].seen <= Slack
    BY <2>1, <2>6, <2>7 DEF MarksInv, Exists
  <2> QED
    BY <2>2, <2>4, <2>8, <2>9 DEF MarksInv, Slack
<1>6. CASE Tick
  <2>1. now' = now + 1 /\ UNCHANGED <<rows, hs, touched>>
    BY <1>6 DEF Tick, history
  <2>2. \A h \in Handlers : hs[h].at \in {"renew", "expire"} => now + 1 - hs[h].clock <= Lag
    BY <1>6 DEF Tick
  <2>3. \A i \in Ids : touched'[i] <= now'
    BY <1>1, <2>1 DEF MarksInv
  <2>4. \A g \in Handlers : hs'[g].at \in {"renew", "expire"} =>
          hs'[g].clock <= now' /\ now' - hs'[g].clock <= Lag
    BY <1>1, <2>1, <2>2 DEF MarksInv
  <2> QED
    BY <2>1, <2>3, <2>4 DEF MarksInv, Slack, Exists
<1>7. ASSUME now' = now, touched' = touched, \A i \in Ids : KeptOrRevoked(i),
             \A g \in Handlers : hs'[g] = hs[g] \/ hs'[g].at \notin {"renew", "expire"}
      PROVE  MarksInv'
  <2>1. \A i \in Ids : Exists(i)' => Exists(i) /\ rows'[i].seen = rows[i].seen
    BY <1>1, <1>7 DEF KeptOrRevoked, Exists, SessionRow
  <2> QED
    BY <1>7, <2>1 DEF MarksInv, Slack
<1> QED
  BY <1>3, <1>4, <1>5, <1>6, <1>7, QuietSteps

GivenUpIdle ==
  \A h \in Handlers : hs[h].at = "idle" /\ hs'[h].at = "expire" =>
    LET i == hs'[h].id IN
    \/ now >= rows[i].expires
    \/ now - touched[i] > IdleTime - (IF Lag > Throttle THEN Lag ELSE Throttle)

LEMMA IdleStep ==
  ASSUME TypeInv, MarksInv, [Next]_vars
  PROVE  GivenUpIdle
<1> SUFFICES ASSUME NEW h \in Handlers, hs[h].at = "idle", hs'[h].at = "expire"
             PROVE  \/ now >= rows[hs'[h].id].expires
                    \/ now - touched[hs'[h].id] > IdleTime - Slack
  BY DEF GivenUpIdle, Slack
<1>1. PICK i \in Ids : LoadSession(h, i)
  <2>1. ASSUME NEW g \in Handlers, SignIn(g) \/ CommitRenewal(g)
        PROVE  FALSE
    BY <2>1, HandlerEnds, IdleType DEF SignIn, CommitRenewal, TypeInv, TypeOK, Handler
  <2>2. ASSUME NEW g \in Handlers, NEW i \in Ids, LoadSession(g, i)
        PROVE  g = h
    BY <2>2, LoadSteps
  <2>3. ~Tick
    BY DEF Tick
  <2> QED
    BY <2>1, <2>2, <2>3, QuietSteps
<1>2. Exists(i) /\ hs'[h].id = i /\ IsExpired(rows[i], now)
  BY <1>1, LoadSteps
<1>3. /\ now \in Nat /\ touched[i] \in Nat /\ rows[i].seen \in Nat /\ rows[i].expires \in Nat
      /\ Slack \in Nat
  BY <1>2, ClockTypes, SessionRowKept, SessionsAssumption DEF Slack
<1>4. touched[i] - rows[i].seen <= Slack
  BY <1>2 DEF MarksInv
<1> QED
  BY <1>2, <1>3, <1>4, SessionsAssumption DEF IsExpired

\* A session is given up for idleness only after a real pause between its
\* pages, shorter than the idle time by no more than the age of a mark, which
\* the throttle and a late commit of a renewal bound.
THEOREM IdleCorrect == Spec => IdleIsIdle
<1>1. Init => OpenedInOrder /\ MarksInv
  BY SessionsAssumption DEF Init, OpenedInOrder, MarksInv, Exists, Idle
<1>2. Spec => [](OpenedInOrder /\ MarksInv)
  BY <1>1, OrderStep, MarksStep, TypeAlways, PTL DEF Spec
<1>3. TypeInv /\ MarksInv /\ [Next]_vars =>
        [\A h \in Handlers : hs[h].at = "idle" /\ hs'[h].at = "expire" =>
           LET i == hs'[h].id IN
           \/ now >= rows[i].expires
           \/ now - touched[i] > IdleTime - (IF Lag > Throttle THEN Lag ELSE Throttle)]_vars
  BY IdleStep DEF GivenUpIdle
<1> QED
  BY <1>2, <1>3, TypeAlways, PTL DEF Spec, IdleIsIdle

---------------------------------------------------------------------------
(* Sessions and credentials *)

\* Nobody opens sessions, starts or ends closing them, or changes credentials.
LEMMA FollowKept ==
  ASSUME FollowInv, NEW h \in Handlers, \A g \in Handlers : g # h => hs'[g] = hs[g],
         hs[h].at \notin {"changed", "close"}, hs'[h].at # "close",
         Live' \subseteq Live, late' = late, proof' = proof, interrupted' = interrupted,
         admin'.password.set = admin.password.set, admin'.totp = admin.totp,
         admin.is_active => admin'.is_active
  PROVE  ListedInv' /\ SessionsFollowCredentials'
<1>1. ListedInv'
  BY DEF FollowInv, ListedInv
<1>2. MidCommand => MidCommand'
  BY DEF MidCommand
<1>3. \A i \in Live' : Outdated(proof[i])' \/ ~admin'.is_active =>
        Outdated(proof[i]) \/ ~admin.is_active
  BY DEF Outdated
<1> QED
  BY <1>1, <1>2, <1>3 DEF FollowInv, SessionsFollowCredentials

LEMMA ProvedStep ==
  ASSUME TypeInv, ProvedInv, [Next]_vars
  PROVE  ProvedInv'
<1>1. ASSUME NEW h \in Handlers, SignIn(h)
      PROVE  ProvedInv'
  <2>1. \A i \in Ids : i # opened + 1 => rows'[i] \in {rows[i], None}
    BY <1>1, SignInRows
  <2>2. hs[h].loaded \in AdminRow /\ proof \in [Ids -> Credentials \cup {None}]
    BY <1>1 DEF SignIn, TypeInv, CopiesOK, GoodCopy, TypeOK
  <2>3. [password |-> hs[h].loaded.password.set, totp |-> hs[h].loaded.totp] \in Credentials
    BY <2>2 DEF AdminRow, Hash, Credentials
  <2>4. proof' = [proof EXCEPT ![opened + 1] =
                    [password |-> hs[h].loaded.password.set, totp |-> hs[h].loaded.totp]]
    BY <1>1 DEF SignIn
  <2> QED
    BY <2>1, <2>2, <2>3, <2>4 DEF ProvedInv, Exists
<1>2. ASSUME NEW h \in Handlers, CommitRenewal(h)
      PROVE  ProvedInv'
  BY <1>2, RenewalRows DEF ProvedInv, Exists
<1>3. ASSUME proof' = proof, \A i \in Ids : KeptOrRevoked(i)
      PROVE  ProvedInv'
  BY <1>3 DEF ProvedInv, KeptOrRevoked, Exists
<1> QED
  BY <1>1, <1>2, <1>3, RowSteps

\* A handler that goes to a place without a copy disturbs no copy.
LEMMA CopiesKept ==
  ASSUME FollowInv, NEW h \in Handlers, \A g \in Handlers : g # h => hs'[g] = hs[g],
         hs'[h].at \notin {"login", "command"},
         admin'.password.outdated => admin'.password.set = 0
  PROVE  FirstHashInv' /\ OpenCommandsInv'
  BY DEF FollowInv, FirstHashInv, OpenCommandsInv

\* Rows that stay or are revoked make no session live.
LEMMA LiveShrinks ==
  ASSUME TypeInv, \A i \in Ids : KeptOrRevoked(i)
  PROVE  Live' \subseteq Live
<1>1. \A i \in Ids : Exists(i) => [rows[i] EXCEPT !.revoked = TRUE].revoked
  BY ClockTypes DEF SessionRow
<1> QED
  BY <1>1 DEF Live, Exists, KeptOrRevoked

LEMMA FollowSignIn ==
  ASSUME TypeInv, ProvedInv, FollowInv, NEW h \in Handlers, SignIn(h)
  PROVE  FollowInv'
<1> DEFINE before == hs[h].loaded
           new == opened + 1
           proved == [password |-> before.password.set, totp |-> before.totp]
<1>1. /\ hs[h].at = "login" /\ before \in AdminRow /\ admin \in AdminRow /\ new \in Ids
      /\ proof \in [Ids -> Credentials \cup {None}]
  BY SignInRows DEF SignIn, TypeInv, CopiesOK, GoodCopy, TypeOK
<1>2. /\ SignedInRow(before) \in AdminRow
      /\ SignedInRow(before).password.set = before.password.set
      /\ ~SignedInRow(before).password.outdated
      /\ SignedInRow(before).password # before.password => before.password.outdated
      /\ SignedInRow(before).totp = before.totp
      /\ SignedInRow(before).is_active = before.is_active
  BY <1>1, SignedInRowType
<1>3. /\ admin' \in AdminRow /\ admin'.totp = admin.totp /\ admin'.is_active = admin.is_active
      /\ \/ admin'.password = admin.password
         \/ admin'.password.set = 0 /\ ~admin'.password.outdated
  <2>1. admin' = WriteBack(before, SignedInRow(before))
    BY DEF SignIn
  <2>2. before.password.outdated => before.password.set = 0
    BY <1>1 DEF FollowInv, FirstHashInv
  <2> QED
    BY <1>1, <1>2, <2>1, <2>2, WriteBackType
<1>4. admin'.password.set \in Nat /\ admin.password.set \in Nat /\ admin.totp \in Nat
      /\ admin'.password.set <= admin.password.set
  BY <1>1, <1>3, SessionsAssumption DEF AdminRow, Hash, Secret
<1>5. /\ hs'[h] = Idle /\ Idle.at = "idle" /\ \A g \in Handlers : g # h => hs'[g] = hs[g]
  BY HandlerEnds, IdleType DEF SignIn
<1>6. FirstHashInv' /\ OpenCommandsInv'
  <2>1. admin'.password.outdated => admin'.password.set = 0
    BY <1>3 DEF FollowInv, FirstHashInv
  <2> QED
    BY <1>5, <2>1, CopiesKept
<1>7. /\ Live' \subseteq Live \cup {new}
      /\ late \subseteq late'
      /\ \A i \in Ids : i # new => proof'[i] = proof[i]
      /\ proof'[new] = proved /\ interrupted' = interrupted
  <2>1. \A i \in Ids : i # new => rows'[i] \in {rows[i], None}
    BY SignInRows
  <2> QED
    BY <1>1, <2>1 DEF SignIn, Live, Exists
<1>8. /\ (\E g \in Handlers : hs[g].at = "close") => new \in late'
      /\ Outdated(proved) \/ ~admin.is_active => new \in late'
  BY DEF SignIn
<1>9. ListedInv'
  BY <1>5, <1>7, <1>8 DEF FollowInv, ListedInv
<1>10. SessionsFollowCredentials'
  <2>1. MidCommand => MidCommand'
    BY <1>1, <1>5 DEF MidCommand
  <2>2. ASSUME NEW i \in Live', Outdated(proof[i])' \/ ~admin'.is_active
        PROVE  /\ i = new => i \in late'
               /\ i # new => i \in Live /\ (Outdated(proof[i]) \/ ~admin.is_active)
    <3>1. CASE i = new
      <4>1. Outdated(proved) \/ ~admin.is_active
        BY <1>1, <1>3, <1>4, <1>7, <2>2, <3>1 DEF Outdated, AdminRow, Hash, Secret
      <4> QED
        BY <1>8, <3>1, <4>1
    <3>2. CASE i # new
      <4>1. i \in Live /\ i \in Ids /\ proof'[i] = proof[i]
        BY <1>7, <3>2 DEF Live
      <4>2. CASE ~admin'.is_active
        BY <1>3, <3>2, <4>1, <4>2
      <4>3. CASE Outdated(proof[i])'
        <5>1. proof[i].password < admin'.password.set \/ proof[i].totp < admin'.totp
          BY <4>1, <4>3 DEF Outdated
        <5>2. CASE admin'.password = admin.password
          BY <1>3, <3>2, <4>1, <5>1, <5>2 DEF Outdated
        <5>3. CASE admin'.password.set = 0
          <6>1. proof[i].password \in Nat
            BY <4>1, SessionsAssumption DEF ProvedInv, Live, Credentials, Secret
          <6>2. proof[i].totp < admin.totp
            BY <1>3, <5>1, <5>3, <6>1
          <6> QED
            BY <3>2, <4>1, <6>2 DEF Outdated
        <5> QED
          BY <1>3, <5>2, <5>3
      <4> QED
        BY <2>2, <4>2, <4>3
    <3> QED
      BY <3>1, <3>2
  <2> QED
    BY <1>7, <2>1, <2>2 DEF FollowInv, SessionsFollowCredentials
<1> QED
  BY <1>6, <1>9, <1>10 DEF FollowInv

LEMMA LiveKept ==
  ASSUME TypeInv, [Next]_vars, ~\E h \in Handlers : SignIn(h)
  PROVE  Live' \subseteq Live /\ proof' = proof
<1>1. ASSUME NEW h \in Handlers, CommitRenewal(h)
      PROVE  Live' \subseteq Live /\ proof' = proof
  BY <1>1, RenewalRows DEF Live, Exists
<1> QED
  BY <1>1, RowSteps, LiveShrinks

LEMMA FollowOther ==
  ASSUME TypeInv, FollowInv, [Next]_vars, ~\E h \in Handlers : SignIn(h)
  PROVE  FollowInv'
<1>1. /\ Live' \subseteq Live /\ proof' = proof /\ hs \in [Handlers -> Handler]
      /\ admin \in AdminRow /\ (admin.password.outdated => admin.password.set = 0)
  BY LiveKept DEF TypeInv, TypeOK, FollowInv, FirstHashInv
<1>2. ASSUME NEW h \in Handlers, StartLogin(h)
      PROVE  FollowInv'
  <2>1. /\ hs[h].at = "idle" /\ hs'[h].at = "login" /\ hs'[h].loaded = admin
        /\ \A g \in Handlers : g # h => hs'[g] = hs[g]
        /\ UNCHANGED <<admin, late, interrupted>>
    BY <1>1, <1>2 DEF StartLogin, Start, Idle
  <2>2. ListedInv' /\ SessionsFollowCredentials'
    BY <1>1, <2>1, FollowKept
  <2>3. FirstHashInv' /\ OpenCommandsInv'
    BY <2>1 DEF FollowInv, FirstHashInv, OpenCommandsInv
  <2> QED
    BY <2>2, <2>3 DEF FollowInv
<1>3. ASSUME NEW h \in Handlers, LoginFails(h)
      PROVE  FollowInv'
  <2>1. hs[h].loaded \in AdminRow /\ hs[h].clock \in Time /\ hs[h].at = "login"
    BY <1>3, ClockTypes DEF LoginFails, TypeInv, CopiesOK, GoodCopy
  <2>2. LET after == FailedRow(hs[h].loaded, hs[h].clock) IN
        /\ after \in AdminRow
        /\ after.password = hs[h].loaded.password /\ after.totp = hs[h].loaded.totp
        /\ after.is_active = hs[h].loaded.is_active
    BY <2>1, FailedRowType
  <2>3. admin' = WriteBack(hs[h].loaded, FailedRow(hs[h].loaded, hs[h].clock))
    BY <1>3 DEF LoginFails
  <2>4. /\ admin'.password = admin.password /\ admin'.totp = admin.totp
        /\ admin'.is_active = admin.is_active
    BY <1>1, <2>1, <2>2, <2>3, WriteBackType
  <2>5. /\ hs'[h] = Idle /\ Idle.at = "idle" /\ \A g \in Handlers : g # h => hs'[g] = hs[g]
        /\ UNCHANGED <<late, interrupted>>
    BY <1>3, HandlerEnds, IdleType DEF LoginFails, history
  <2>6. ListedInv' /\ SessionsFollowCredentials'
    BY <1>1, <2>1, <2>4, <2>5, FollowKept
  <2>7. FirstHashInv' /\ OpenCommandsInv'
    BY <1>1, <2>4, <2>5, CopiesKept
  <2> QED
    BY <2>6, <2>7 DEF FollowInv
<1>4. ASSUME NEW h \in Handlers,
             hs[h].at \in {"idle", "expire", "renew", "owner", "served"},
             hs'[h].at \in {"idle", "expire", "renew", "owner", "served"},
             \A g \in Handlers : g # h => hs'[g] = hs[g],
             UNCHANGED <<admin, late, interrupted>>
      PROVE  FollowInv'
  <2>1. ListedInv' /\ SessionsFollowCredentials'
    BY <1>1, <1>4, FollowKept
  <2>2. FirstHashInv' /\ OpenCommandsInv'
    BY <1>1, <1>4, CopiesKept
  <2> QED
    BY <2>1, <2>2 DEF FollowInv
<1>5. ASSUME NEW h \in Handlers, NEW i \in Ids, LoadSession(h, i)
      PROVE  FollowInv'
  <2>1. UNCHANGED <<admin, late, interrupted>>
    BY <1>5 DEF LoadSession, Start
  <2> QED
    BY <1>4, <1>5, <2>1, LoadSteps
<1>6. ASSUME NEW h \in Handlers, CommitExpired(h) \/ Serve(h) \/ Logout(h)
      PROVE  FollowInv'
  <2>1. /\ hs'[h] = Idle /\ Idle.at = "idle" /\ \A g \in Handlers : g # h => hs'[g] = hs[g]
        /\ hs[h].at \in {"expire", "served"} /\ UNCHANGED <<admin, late, interrupted>>
    BY <1>6, HandlerEnds, IdleType DEF CommitExpired, Serve, Logout, history
  <2> QED
    BY <1>4, <2>1
<1>7. ASSUME NEW h \in Handlers, CommitRenewal(h) \/ FindOwner(h)
      PROVE  FollowInv'
  <2>1. PICK place \in {"owner", "served"} : hs' = [hs EXCEPT ![h].at = place]
    BY <1>7 DEF CommitRenewal, FindOwner
  <2>2. hs'[h].at = place /\ \A g \in Handlers : g # h => hs'[g] = hs[g]
    BY <1>1, <2>1 DEF Handler
  <2>3. hs[h].at \in {"renew", "owner"} /\ UNCHANGED <<admin, late, interrupted>>
    BY <1>7 DEF CommitRenewal, FindOwner, history
  <2> QED
    BY <1>4, <2>2, <2>3
<1>8. ASSUME NEW h \in Handlers,
             \/ AdminPassword(h) \/ AdminResetTotp(h) \/ AdminUnlock(h)
             \/ \E enable \in BOOLEAN : AdminDisable(h, enable)
      PROVE  FollowInv'
  <2>1. PICK after \in AdminRow, closes \in BOOLEAN :
          /\ Command(h, after, closes)
          /\ after.password.outdated => after.password = admin.password
          /\ ~closes => /\ after.password = admin.password /\ after.totp = admin.totp
                        /\ after.is_active \/ after.is_active = admin.is_active
    BY <1>8, CommandsStart
  <2>2. /\ hs[h].at = "idle" /\ \A g \in Handlers : g # h => hs'[g] = hs[g]
        /\ hs'[h].at = "command" /\ hs'[h].loaded = admin /\ hs'[h].after = after
        /\ hs'[h].closes = closes
        /\ UNCHANGED <<admin, late, interrupted>>
    BY <1>1, <2>1 DEF Command, Start, Idle
  <2>3. ListedInv' /\ SessionsFollowCredentials'
    BY <1>1, <2>2, FollowKept
  <2>4. FirstHashInv' /\ OpenCommandsInv'
    BY <1>1, <2>1, <2>2 DEF FollowInv, FirstHashInv, OpenCommandsInv
  <2> QED
    BY <2>3, <2>4 DEF FollowInv
<1>9. ASSUME NEW h \in Handlers, ListSessions(h)
      PROVE  FollowInv'
  <2>1. /\ hs'[h].at = "close" /\ hs'[h].closing = Live
        /\ \A g \in Handlers : g # h => hs'[g] = hs[g]
        /\ UNCHANGED <<admin, late, interrupted>>
    BY <1>1, <1>9 DEF ListSessions, Handler, history
  <2>2. FirstHashInv' /\ OpenCommandsInv'
    BY <1>1, <2>1, CopiesKept
  <2>3. ListedInv'
    BY <1>1, <2>1 DEF FollowInv, ListedInv
  <2>4. MidCommand'
    BY <2>1 DEF MidCommand
  <2> QED
    BY <2>2, <2>3, <2>4 DEF FollowInv, SessionsFollowCredentials
<1>10. ASSUME NEW h \in Handlers, CloseAll(h)
       PROVE  FollowInv'
  <2>1. /\ hs'[h] = Idle /\ Idle.at = "idle" /\ \A g \in Handlers : g # h => hs'[g] = hs[g]
        /\ hs[h].at = "close" /\ UNCHANGED <<admin, late, interrupted>>
        /\ rows' = Closing(hs[h].closing)
    BY <1>10, HandlerEnds, IdleType DEF CloseAll, history
  <2>2. FirstHashInv' /\ OpenCommandsInv'
    BY <1>1, <2>1, CopiesKept
  <2>3. ListedInv'
    BY <1>1, <2>1 DEF FollowInv, ListedInv
  <2>4. \A i \in Ids : i \in hs[h].closing => i \notin Live'
    <3>1. \A i \in Ids : Exists(i) => [rows[i] EXCEPT !.revoked = TRUE].revoked
      BY ClockTypes DEF SessionRow
    <3> QED
      BY <2>1, <3>1 DEF Closing, Live, Exists
  <2>5. Live' \subseteq late
    BY <1>1, <2>1, <2>4 DEF FollowInv, ListedInv, Live
  <2> QED
    BY <2>1, <2>2, <2>3, <2>5 DEF FollowInv, SessionsFollowCredentials
<1>11. ASSUME NEW h \in Handlers, Abandon(h)
       PROVE  FollowInv'
  <2>1. /\ hs'[h] = Idle /\ Idle.at = "idle" /\ \A g \in Handlers : g # h => hs'[g] = hs[g]
        /\ UNCHANGED <<admin, late>>
        /\ interrupted' = (interrupted \/ hs[h].at \in {"changed", "close"})
    BY <1>11, HandlerEnds, IdleType DEF Abandon
  <2>2. FirstHashInv' /\ OpenCommandsInv'
    BY <1>1, <2>1, CopiesKept
  <2>3. CASE hs[h].at \in {"changed", "close"}
    <3>1. ListedInv' /\ interrupted'
      BY <1>1, <2>1, <2>3 DEF FollowInv, ListedInv
    <3> QED
      BY <2>2, <3>1 DEF FollowInv, SessionsFollowCredentials
  <2>4. CASE hs[h].at \notin {"changed", "close"}
    <3>1. interrupted \in BOOLEAN
      BY DEF TypeInv, TypeOK
    <3>2. ListedInv' /\ SessionsFollowCredentials'
      BY <1>1, <2>1, <2>4, <3>1, FollowKept
    <3> QED
      BY <2>2, <3>2 DEF FollowInv
  <2> QED
    BY <2>3, <2>4
<1>12. ASSUME NEW h \in Handlers, CommitCommand(h)
       PROVE  FollowInv'
  <2>1. /\ hs[h].loaded \in AdminRow /\ hs[h].after \in AdminRow /\ hs[h].at = "command"
        /\ admin' = WriteBack(hs[h].loaded, hs[h].after)
        /\ UNCHANGED <<late, interrupted>>
    BY <1>12 DEF CommitCommand, TypeInv, CopiesOK, GoodCopy, history
  <2>2. /\ \A g \in Handlers : g # h => hs'[g] = hs[g]
        /\ hs'[h].at = IF hs[h].closes THEN "changed" ELSE "idle"
    BY <1>1, <1>12 DEF CommitCommand, Idle
  <2>3. /\ admin'.password \in {hs[h].after.password, admin.password}
        /\ ~hs[h].closes => /\ admin'.password = admin.password /\ admin'.totp = admin.totp
                            /\ admin.is_active => admin'.is_active
    <3>1. LET new == WriteBack(hs[h].loaded, hs[h].after) IN
          /\ new.password = IF hs[h].after.password # hs[h].loaded.password
                            THEN hs[h].after.password ELSE admin.password
          /\ new.totp = IF hs[h].after.totp # hs[h].loaded.totp
                        THEN hs[h].after.totp ELSE admin.totp
          /\ new.is_active = IF hs[h].after.is_active # hs[h].loaded.is_active
                             THEN hs[h].after.is_active ELSE admin.is_active
      BY <1>1, <2>1, WriteBackType
    <3>2. ~hs[h].closes =>
            /\ hs[h].after.password = hs[h].loaded.password
            /\ hs[h].after.totp = hs[h].loaded.totp
            /\ hs[h].after.is_active \/ hs[h].after.is_active = hs[h].loaded.is_active
      BY <2>1 DEF FollowInv, OpenCommandsInv
    <3> QED
      BY <2>1, <3>1, <3>2
  <2>4. FirstHashInv' /\ OpenCommandsInv'
    <3>1. admin'.password.outdated => admin'.password.set = 0
      BY <1>1, <2>1, <2>3 DEF FollowInv, FirstHashInv
    <3> QED
      BY <2>2, <3>1, CopiesKept
  <2>5. CASE hs[h].closes
    <3>1. MidCommand' /\ ListedInv'
      BY <1>1, <2>1, <2>2, <2>5 DEF MidCommand, FollowInv, ListedInv
    <3> QED
      BY <2>4, <3>1 DEF FollowInv, SessionsFollowCredentials
  <2>6. CASE ~hs[h].closes
    <3>1. ListedInv' /\ SessionsFollowCredentials'
      BY <1>1, <2>1, <2>2, <2>3, <2>6, FollowKept
    <3> QED
      BY <2>4, <3>1 DEF FollowInv
  <2> QED
    BY <2>5, <2>6
<1>13. ASSUME UNCHANGED <<admin, hs, late, interrupted>>
       PROVE  FollowInv'
  <2>1. FirstHashInv' /\ OpenCommandsInv'
    BY <1>13 DEF FollowInv, FirstHashInv, OpenCommandsInv
  <2>2. ListedInv'
    BY <1>1, <1>13 DEF FollowInv, ListedInv
  <2>3. SessionsFollowCredentials'
    BY <1>1, <1>13 DEF FollowInv, SessionsFollowCredentials, MidCommand, Outdated
  <2> QED
    BY <2>1, <2>2, <2>3 DEF FollowInv
<1>14. Tick \/ UNCHANGED vars => UNCHANGED <<admin, hs, late, interrupted>>
  BY DEF Tick, vars, history
<1> QED
  BY <1>2, <1>3, <1>5, <1>6, <1>7, <1>8, <1>9, <1>10, <1>11, <1>12, <1>13, <1>14
     DEF Next, Finished

\* New credentials end every session opened with the former ones, and so does
\* disabling, for every number of logins, pages and commands at a time; what
\* survives was opened late or by a command cut in two.
THEOREM FollowCorrect == Spec => []SessionsFollowCredentials
<1>1. Init => ProvedInv /\ FollowInv
  BY DEF Init, ProvedInv, FollowInv, FirstHashInv, OpenCommandsInv, ListedInv,
         SessionsFollowCredentials, Idle, Live, Exists
<1>2. TypeInv /\ ProvedInv /\ FollowInv /\ [Next]_vars => ProvedInv' /\ FollowInv'
  BY ProvedStep, FollowSignIn, FollowOther
<1>3. Spec => [](ProvedInv /\ FollowInv)
  BY <1>1, <1>2, TypeAlways, PTL DEF Spec
<1> QED
  BY <1>3, PTL DEF FollowInv
=============================================================================
