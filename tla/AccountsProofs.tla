----------------------------- MODULE AccountsProofs -----------------------------
(***************************************************************************)
(* What the login, the pages and the host programs cannot do to an         *)
(* account, for any number of each, any passwords and any limits.          *)
(***************************************************************************)
EXTENDS Accounts, TLAPS

Row == [id : Nat, password : Passwords, count : Nat, lockEnd : Nat]

\* What is known of a row, in the table or read by a login or a page: its lock ends
\* no later than LockoutDuration from now, and if it is of the account that was
\* created last, it counts no more failures than there were and its lock is earned.
Bounded(r) ==
    /\ r \in Row /\ r.id <= created /\ r.lockEnd <= now + LockoutDuration
    /\ r.id = created => /\ r.count <= failures
                         /\ r.lockEnd > 0 => failures + 1 >= MaxFailedAttempts

Steps == {"idle", "record", "end", "lock", "reset"}

\* A login has read no lock that runs.  The failure of one that goes on to record it
\* is not among those it has read, and one that goes on to lock has found enough,
\* when there have been n of them.
SoundLogin(x, n) ==
    /\ x \in [step : Steps, seen : Row, until : Nat]
    /\ Bounded(x.seen)
    /\ x.until <= now + LockoutDuration
    /\ x.step # "idle" => x.seen.lockEnd <= now
    /\ x.seen.id = created =>
          /\ x.step = "record" => x.seen.count + 1 <= n
          /\ x.step \in {"end", "lock"} => n + 1 >= MaxFailedAttempts

LoginsOK == \A l \in Logins : SoundLogin(login[l], failures)

EditorsOK ==
    \A e \in Editors :
        editor[e] \in [open : BOOLEAN, seen : Row] /\ Bounded(editor[e].seen)

Inv ==
    /\ created \in 0 .. MaxAccounts
    /\ now \in 1 .. 1 + MaxTime
    /\ failures \in 0 .. MaxFailures
    /\ host \in [Hosts -> {"down", "seeding", "up"}]
    /\ DOMAIN login = Logins
    /\ DOMAIN editor = Editors
    /\ row = NoRow \/ row.id = created
    /\ Bounded(row)
    /\ LoginsOK
    /\ EditorsOK

LEMMA Numbers ==
    ASSUME Inv
    PROVE  /\ created \in Nat /\ now \in Nat /\ now > 0 /\ failures \in Nat
           /\ LockoutDuration \in Nat \ {0} /\ MaxFailedAttempts \in Nat
           /\ MaxAccounts \in Nat /\ MaxTime \in Nat /\ MaxFailures \in Nat
BY AccountsAssumption DEF Inv

LEMMA NoRowIsBounded == created \in Nat /\ now \in Nat /\ failures \in Nat => Bounded(NoRow)
BY AccountsAssumption DEF Bounded, NoRow, Row

LEMMA IdleIsSound == created \in Nat /\ now \in Nat /\ failures \in Nat => SoundLogin(Idle, failures)
BY NoRowIsBounded, AccountsAssumption DEF SoundLogin, Idle, Request, Steps, Bounded

LEMMA InvTypes == Inv => TypeOK
<1> SUFFICES ASSUME Inv PROVE TypeOK
  OBVIOUS
<1>1. \A r : Bounded(r) => Account(r)
  BY Numbers DEF Bounded, Account, Row
<1>2. ASSUME NEW l \in Logins
      PROVE  /\ login[l].step \in Steps /\ Account(login[l].seen)
             /\ login[l].until \in 0 .. now + LockoutDuration
  <2>1. SoundLogin(login[l], failures)
    BY DEF Inv, LoginsOK
  <2>2. login[l].step \in Steps /\ login[l].until \in Nat /\ login[l].until <= now + LockoutDuration
    BY <2>1 DEF SoundLogin
  <2>3. Account(login[l].seen)
    BY <1>1, <2>1 DEF SoundLogin
  <2> QED BY <2>2, <2>3, Numbers
<1> QED BY <1>1, <1>2 DEF Inv, TypeOK, EditorsOK, Steps

LEMMA InitInv == Init => Inv
<1> SUFFICES ASSUME Init PROVE Inv
  OBVIOUS
<1>1. /\ created = 0 /\ now = 1 /\ failures = 0
      /\ created \in 0 .. MaxAccounts /\ now \in 1 .. 1 + MaxTime /\ failures \in 0 .. MaxFailures
  BY AccountsAssumption DEF Init
<1>2. Bounded(NoRow) /\ SoundLogin(Idle, failures)
  BY <1>1, NoRowIsBounded, IdleIsSound
<1>3. host \in [Hosts -> {"down", "seeding", "up"}]
  BY DEF Init
<1>4. \A l \in Logins : login[l] = Idle
  BY DEF Init
<1>5. \A e \in Editors : editor[e] = Closed
  BY DEF Init
<1>6. LoginsOK
  BY <1>2, <1>4 DEF LoginsOK
<1>7. EditorsOK
  <2>1. Closed \in [open : BOOLEAN, seen : Row] /\ Closed.seen = NoRow
    BY <1>2 DEF Closed, Bounded
  <2> QED BY <1>2, <1>5, <2>1, Zenon DEF EditorsOK
<1> QED BY <1>1, <1>2, <1>3, <1>6, <1>7 DEF Init, Inv

\* More failures, or more time, take nothing from a row or a login.
LEMMA StillSound ==
    ASSUME Inv, created' = created, now' \in Nat, now <= now', failures' \in Nat, failures <= failures'
    PROVE  /\ \A r : Bounded(r) => Bounded(r)'
           /\ \A x : SoundLogin(x, failures) => SoundLogin(x, failures)'
<1>1. \A r : Bounded(r) => Bounded(r)'
  BY Numbers DEF Bounded, Row
<1> QED BY <1>1, Numbers DEF SoundLogin, Row

\* Each kind of step keeps the invariant: one that saves the row and ends or
\* advances a login, one that opens, saves or closes a page, one of the programs.
LEMMA LoginSteps ==
    ASSUME Inv, NEW l \in Logins, NEW new, Bounded(row)', row' = NoRow \/ row'.id = created,
           login' = [login EXCEPT ![l] = new], SoundLogin(new, failures'),
           failures' \in 0 .. MaxFailures, failures <= failures',
           UNCHANGED <<created, now, host, editor>>
    PROVE  Inv'
<1>1. failures' \in Nat
  BY Numbers
<1>2. /\ \A r : Bounded(r) => Bounded(r)'
      /\ \A x : SoundLogin(x, failures) => SoundLogin(x, failures)'
  BY <1>1, Numbers, StillSound
<1>3. login'[l] = new /\ \A k \in Logins : k # l => login'[k] = login[k]
  BY DEF Inv
<1>4. LoginsOK'
  <2>1. SoundLogin(login[l], failures)'
    BY <1>1, <1>2, <1>3, Numbers DEF SoundLogin
  <2> QED BY <1>2, <1>3, <2>1 DEF Inv, LoginsOK
<1>5. EditorsOK'
  BY <1>2 DEF Inv, EditorsOK
<1> QED BY <1>4, <1>5 DEF Inv

LEMMA EditorSteps ==
    ASSUME Inv, NEW e \in Editors, NEW new, Bounded(row'), row' = NoRow \/ row'.id = created,
           editor' = [editor EXCEPT ![e] = new], new \in [open : BOOLEAN, seen : Row], Bounded(new.seen),
           UNCHANGED <<created, now, host, login, failures>>
    PROVE  Inv'
<1>1. Bounded(row)' /\ \A r : Bounded(r) => Bounded(r)'
  BY DEF Bounded
<1>2. editor'[e] = new /\ \A k \in Editors : k # e => editor'[k] = editor[k]
  BY DEF Inv
<1>3. EditorsOK'
  BY <1>1, <1>2 DEF Inv, EditorsOK
<1>4. LoginsOK'
  BY <1>1 DEF Inv, LoginsOK, SoundLogin
<1> QED BY <1>1, <1>3, <1>4 DEF Inv

LEMMA ProgramSteps ==
    ASSUME Inv, Bounded(row)', row' = NoRow \/ row'.id = created',
           created' \in 0 .. MaxAccounts, created <= created',
           failures' \in 0 .. MaxFailures, created' = created => failures' = failures,
           now' \in 1 .. 1 + MaxTime, now <= now',
           host' \in [Hosts -> {"down", "seeding", "up"}], UNCHANGED <<login, editor>>
    PROVE  Inv'
<1>1. /\ created \in Nat /\ created' \in Nat /\ now \in Nat /\ now' \in Nat
      /\ LockoutDuration \in Nat /\ failures \in Nat /\ failures' \in Nat
  BY Numbers
<1>2. \A r : Bounded(r) => Bounded(r)'
  BY <1>1 DEF Bounded, Row
<1>3. \A x : SoundLogin(x, failures) => SoundLogin(x, failures)'
  <2> SUFFICES ASSUME NEW x, SoundLogin(x, failures) PROVE SoundLogin(x, failures)'
    OBVIOUS
  <2>1. x.seen \in Row /\ x.seen.id <= created /\ x.until \in Nat
    BY DEF SoundLogin, Bounded
  <2>2. x.seen.id = created' => created' = created
    BY <1>1, <2>1 DEF Row
  <2> QED BY <1>1, <1>2, <2>1, <2>2 DEF SoundLogin, Row
<1>4. LoginsOK' /\ EditorsOK'
  BY <1>2, <1>3 DEF Inv, LoginsOK, EditorsOK
<1> QED BY <1>4 DEF Inv

\* The columns that the login writes.
LEMMA Columns ==
    ASSUME NEW r \in Row, NEW n \in Nat, NEW p
    PROVE  /\ [r EXCEPT !.count = n]
                  = [id |-> r.id, password |-> r.password, count |-> n, lockEnd |-> r.lockEnd]
           /\ [r EXCEPT !.lockEnd = n]
                  = [id |-> r.id, password |-> r.password, count |-> r.count, lockEnd |-> n]
           /\ [r EXCEPT !.count = 0, !.lockEnd = n]
                  = [id |-> r.id, password |-> r.password, count |-> 0, lockEnd |-> n]
           /\ [r EXCEPT !.password = p]
                  = [id |-> r.id, password |-> p, count |-> r.count, lockEnd |-> r.lockEnd]
<1>1. \A m : [r EXCEPT !.count = m]
                = [id |-> r.id, password |-> r.password, count |-> m, lockEnd |-> r.lockEnd]
  BY DEF Row
<1>2. \A m : [r EXCEPT !.lockEnd = m]
                = [id |-> r.id, password |-> r.password, count |-> r.count, lockEnd |-> m]
  BY DEF Row
<1>3. [r EXCEPT !.count = 0, !.lockEnd = n]
          = [id |-> r.id, password |-> r.password, count |-> 0, lockEnd |-> n]
  <2> DEFINE x == [r EXCEPT !.count = 0, !.lockEnd = n]
  <2>1. x \in Row
    BY DEF Row
  <2>2. x.id = r.id /\ x.password = r.password /\ x.count = 0 /\ x.lockEnd = n
    BY DEF Row
  <2> HIDE DEF x
  <2>3. x = [id |-> r.id, password |-> r.password, count |-> 0, lockEnd |-> n]
    BY <2>1, <2>2 DEF Row
  <2> QED BY <2>3 DEF x
<1>4. \A q : [r EXCEPT !.password = q]
                = [id |-> r.id, password |-> q, count |-> r.count, lockEnd |-> r.lockEnd]
  BY DEF Row
<1> QED BY <1>1, <1>2, <1>3, <1>4, Zenon

\* What a login request writes, by what it does next: the row is that of the
\* entity it has read, or it is left alone.
RowAfter(n, lock) ==
    [id |-> row.id, password |-> row.password, count |-> n, lockEnd |-> lock]

LEMMA RecordEffect ==
    ASSUME Inv, NEW l \in Logins, RecordFailedLogin(l)
    PROVE  \/ UNCHANGED row /\ login' = [login EXCEPT ![l] = Idle]
           \/ /\ row # NoRow /\ row.id = login[l].seen.id
              /\ row' = RowAfter(login[l].seen.count + 1, row.lockEnd)
              /\ login' = [login EXCEPT ![l] = AfterFailure(l)]
<1>1. row \in Row /\ login[l].seen \in Row
  BY DEF Inv, LoginsOK, SoundLogin, Bounded
<1>2. Counted(l).count = login[l].seen.count + 1 /\ login[l].seen.count + 1 \in Nat
  <2>1. login[l].seen.count + 1 \in Nat
    BY <1>1 DEF Row
  <2> QED BY <1>1, <2>1, Columns DEF Counted
<1>3. [row EXCEPT !.count = Counted(l).count] = RowAfter(login[l].seen.count + 1, row.lockEnd)
  BY <1>1, <1>2, Columns DEF RowAfter
<1> QED BY <1>3 DEF RecordFailedLogin, SaveColumns, Current

LEMMA LockEffect ==
    ASSUME Inv, NEW l \in Logins, LockoutUser(l)
    PROVE  /\ login' = [login EXCEPT ![l] = Idle]
           /\ \/ UNCHANGED row
              \/ /\ row # NoRow /\ row.id = login[l].seen.id
                 /\ row' = RowAfter(row.count, login[l].until)
<1>1. row \in Row /\ login[l].until \in Nat
  BY DEF Inv, LoginsOK, SoundLogin, Bounded
<1>2. [row EXCEPT !.lockEnd = login[l].until] = RowAfter(row.count, login[l].until)
  BY <1>1, Columns DEF RowAfter
<1> QED BY <1>2 DEF LockoutUser, SaveColumns, Current

LEMMA ResetEffect ==
    ASSUME Inv, NEW l \in Logins, ResetFailedLoginCount(l)
    PROVE  /\ login' = [login EXCEPT ![l] = Idle]
           /\ \/ UNCHANGED row
              \/ /\ row # NoRow /\ row.id = login[l].seen.id
                 /\ row' = RowAfter(0, IF login[l].seen.lockEnd = 0 THEN row.lockEnd ELSE 0)
<1> DEFINE lock == IF login[l].seen.lockEnd = 0 THEN row.lockEnd ELSE 0
<1>1. row \in Row /\ lock \in Nat
  BY DEF Inv, Bounded, Row
<1>2. [row EXCEPT !.count = 0, !.lockEnd = lock] = RowAfter(0, lock)
  <2> HIDE DEF lock
  <2> QED BY <1>1, Columns DEF RowAfter
<1>3. row.lockEnd = row.lockEnd /\ ([row EXCEPT !.count = 0,
                  !.lockEnd = IF login[l].seen.lockEnd = 0 THEN @ ELSE 0] = RowAfter(0, lock))
  BY <1>2
<1> QED BY <1>3 DEF ResetFailedLoginCount, SaveColumns, Current

\* A page that saves writes what it has read, with or without a new password.
LEMMA SaveEffect ==
    ASSUME Inv, NEW e \in Editors, NEW p \in Passwords, UpdateRow(e, p)
    PROVE  LET seen == editor[e].seen
               saved == [id |-> seen.id, password |-> p,
                         count |-> seen.count, lockEnd |-> seen.lockEnd]
           IN  /\ editor[e].open
               /\ UNCHANGED <<created, now, host, login, failures>>
               /\ \/ UNCHANGED row /\ editor' = [editor EXCEPT ![e] = Closed]
                  \/ /\ row # NoRow /\ row.id = seen.id /\ row' = saved
                     /\ editor' = [editor EXCEPT ![e] = [editor[e] EXCEPT !.seen = saved]]
<1> DEFINE seen == editor[e].seen
           saved == [id |-> seen.id, password |-> p,
                     count |-> seen.count, lockEnd |-> seen.lockEnd]
<1>1. seen \in Row
  BY DEF Inv, EditorsOK, Bounded
<1>2. [seen EXCEPT !.password = p] = saved
  <2>1. 0 \in Nat
    OBVIOUS
  <2> QED BY <1>1, <2>1, Columns, Zenon
<1>3. \A x : [editor EXCEPT ![e].seen = x] = [editor EXCEPT ![e] = [editor[e] EXCEPT !.seen = x]]
  OBVIOUS
<1> HIDE DEF saved
<1>4. /\ editor[e].open
      /\ UNCHANGED <<created, now, host, login, failures>>
      /\ \/ UNCHANGED row /\ editor' = [editor EXCEPT ![e] = Closed]
         \/ /\ row # NoRow /\ row.id = seen.id /\ row' = saved
            /\ editor' = [editor EXCEPT ![e].seen = saved]
  BY <1>2, Zenon DEF UpdateRow, Current
<1> QED BY <1>3, <1>4, Zenon DEF saved

\* An account is created where there was none, with the next id.
LEMMA InsertEffect ==
    ASSUME Inv, Insert
    PROVE  /\ row = NoRow /\ created' = created + 1 /\ created' \in 0 .. MaxAccounts
           /\ row'.id = created + 1 /\ failures' = 0
           /\ UNCHANGED now => Bounded(row)'
<1>1. row' = [id |-> created + 1, password |-> InitialPassword, count |-> 0, lockEnd |-> 0]
  BY DEF Insert
<1>2. /\ created \in Nat /\ now \in Nat /\ LockoutDuration \in Nat /\ MaxAccounts \in Nat
      /\ InitialPassword \in Passwords
  BY Numbers, AccountsAssumption
<1> QED BY <1>1, <1>2 DEF Insert, UsernameFree, Row, Bounded

\* A login that has read the row keeps it without the password.
LEMMA ReadEffect ==
    ASSUME Inv, NEW l \in Logins, NEW step \in {"record", "reset"}, LoginReads(l, step),
           failures' \in 0 .. MaxFailures, failures <= failures',
           step = "record" => failures < failures'
    PROVE  Inv'
<1> DEFINE seen == [row EXCEPT !.password = InitialPassword]
<1>1. row \in Row /\ Bounded(row) /\ InitialPassword \in Passwords /\ row.id = created
  BY AccountsAssumption DEF Inv, Bounded, LoginReads
<1>2. seen = [id |-> row.id, password |-> InitialPassword,
              count |-> row.count, lockEnd |-> row.lockEnd]
  <2>1. 0 \in Nat
    OBVIOUS
  <2> QED BY <1>1, <2>1, Columns, Zenon
<1> HIDE DEF seen
<1>3. /\ seen \in Row /\ Bounded(seen) /\ seen.lockEnd <= now
      /\ step = "record" => seen.count + 1 <= failures'
  BY <1>1, <1>2, Numbers DEF Bounded, Row, LoginReads, IsLockedOut
<1> DEFINE new == Request(step, seen, 0)
<1>4. login' = [login EXCEPT ![l] = new]
  BY DEF LoginReads, seen
<1>5. UNCHANGED <<row, created, now, host, editor>>
  BY DEF LoginReads
<1>6. SoundLogin(new, failures')
  BY <1>3, Numbers DEF Steps, SoundLogin, Request
<1>7. Bounded(row)'
  BY <1>1, <1>5, Numbers DEF Bounded, Row
<1> HIDE DEF new
<1> QED BY <1>1, <1>4, <1>5, <1>6, <1>7, LoginSteps

LEMMA StepInv == Inv /\ [Next]_vars => Inv'
<1> SUFFICES ASSUME Inv, [Next]_vars PROVE Inv'
  OBVIOUS
<1>n. /\ created \in Nat /\ now \in Nat /\ LockoutDuration \in Nat
      /\ MaxAccounts \in Nat /\ MaxTime \in Nat /\ failures \in Nat /\ MaxFailures \in Nat
      /\ MaxFailedAttempts \in Nat /\ failures \in 0 .. MaxFailures
  BY Numbers DEF Inv
<1>b. Bounded(row) /\ Bounded(NoRow) /\ (row = NoRow \/ row.id = created)
  BY <1>n, NoRowIsBounded DEF Inv
<1>i. SoundLogin(Idle, failures)
  BY <1>n, IdleIsSound
<1>c. Closed \in [open : BOOLEAN, seen : Row] /\ Closed.seen = NoRow
  BY <1>b DEF Closed, Bounded
<1>1. ASSUME NEW h \in Hosts, HostStarts(h) \/ HostStops(h) PROVE Inv'
  <2>1. host' \in [Hosts -> {"down", "seeding", "up"}]
    BY <1>1 DEF Inv, HostStarts, HostStops
  <2>2. UNCHANGED <<row, created, now, login, editor, failures>>
    BY <1>1 DEF HostStarts, HostStops
  <2>3. Bounded(row)'
    BY <1>b, <2>2 DEF Bounded
  <2> QED BY <1>b, <1>n, <2>1, <2>2, <2>3, ProgramSteps DEF Inv
<1>2. ASSUME Insert, UNCHANGED <<now, login, editor>>,
             host' \in [Hosts -> {"down", "seeding", "up"}]
      PROVE  Inv'
  <2>1. /\ Bounded(row)' /\ row'.id = created'
        /\ created' = created + 1 /\ created' \in 0 .. MaxAccounts
        /\ failures' \in 0 .. MaxFailures
    BY <1>2, <1>n, InsertEffect
  <2> QED BY <1>2, <1>n, <2>1, ProgramSteps DEF Inv
<1>3. ASSUME NEW h \in Hosts, HostSeeds(h) PROVE Inv'
  <2>1. host' \in [Hosts -> {"down", "seeding", "up"}]
    BY <1>3 DEF Inv, HostSeeds
  <2>2. CASE Insert
    BY <1>2, <1>3, <2>1, <2>2 DEF HostSeeds
  <2>3. CASE UNCHANGED <<row, created, failures>>
    <3>1. Bounded(row)' /\ UNCHANGED <<now, login, editor>>
      BY <1>3, <1>b, <2>3 DEF Bounded, HostSeeds
    <3> QED BY <1>b, <1>n, <2>1, <2>3, <3>1, ProgramSteps DEF Inv
  <2> QED BY <1>3, <2>2, <2>3 DEF HostSeeds
<1>4. CASE CreateUser
  BY <1>2, <1>4 DEF CreateUser, Inv
<1>5. CASE DeleteUser
  <2>1. Bounded(row)'
    BY <1>5, <1>b DEF DeleteUser, Bounded, NoRow
  <2> QED BY <1>5, <1>n, <2>1, ProgramSteps DEF DeleteUser, Inv
<1>6. ASSUME NEW l \in Logins, WrongPassword(l) PROVE Inv'
  BY <1>6, <1>n, ReadEffect DEF WrongPassword
<1>7. ASSUME NEW l \in Logins, RightPassword(l) PROVE Inv'
  BY <1>7, <1>n, ReadEffect DEF RightPassword
<1>8. ASSUME NEW n \in Nat, NEW lock \in Nat, lock <= now + LockoutDuration, n <= failures,
             lock > 0 => failures + 1 >= MaxFailedAttempts, row # NoRow,
             UNCHANGED row \/ row' = RowAfter(n, lock), UNCHANGED <<created, now, failures>>
      PROVE  Bounded(row)' /\ (row' = NoRow \/ row'.id = created)
  BY <1>8, <1>b DEF Bounded, Row, RowAfter
<1>k. ASSUME UNCHANGED <<row, created, now, failures>>
      PROVE  Bounded(row)' /\ (row' = NoRow \/ row'.id = created)
  BY <1>k, <1>b DEF Bounded
<1>s. \A l \in Logins : SoundLogin(login[l], failures)
  BY DEF Inv, LoginsOK
<1>10. ASSUME NEW l \in Logins, NEW new, login' = [login EXCEPT ![l] = new],
              SoundLogin(new, failures), Bounded(row)', row' = NoRow \/ row'.id = created,
              UNCHANGED <<created, now, host, editor, failures>>
       PROVE  Inv'
  <2>1. SoundLogin(new, failures') /\ failures' \in 0 .. MaxFailures /\ failures <= failures'
    BY <1>10, <1>n
  <2> QED BY <1>10, <2>1, LoginSteps
<1>9. ASSUME NEW l \in Logins, RecordFailedLogin(l) PROVE Inv'
  <2> DEFINE seen == login[l].seen
  <2>1. seen \in Row /\ Bounded(seen) /\ seen.count + 1 \in Nat /\ seen.lockEnd <= now
    BY <1>9, <1>s DEF SoundLogin, Row, RecordFailedLogin
  <2>2. Counted(l) = [id |-> seen.id, password |-> seen.password,
                      count |-> seen.count + 1, lockEnd |-> seen.lockEnd]
    BY <2>1, Columns, Zenon DEF Counted
  <2>3. seen.id = created => seen.count + 1 <= failures
    BY <1>9, <1>s DEF SoundLogin, RecordFailedLogin
  <2>4. SoundLogin(AfterFailure(l), failures)
    <3>1. Counted(l) \in Row /\ Counted(l).count = seen.count + 1 /\ Counted(l).id = seen.id
          /\ Counted(l).lockEnd = seen.lockEnd
      BY <2>1, <2>2 DEF Row
    <3>2. Bounded(Counted(l))
      BY <2>1, <2>3, <3>1 DEF Bounded
    <3> DEFINE new == Request("end", Counted(l), 0)
    <3>3. seen.count + 1 + 1 >= MaxFailedAttempts => SoundLogin(new, failures)
      BY <1>n, <2>1, <2>3, <3>1, <3>2 DEF SoundLogin, Steps, Row, Request
    <3> HIDE DEF new
    <3> QED BY <1>i, <3>1, <3>3 DEF AfterFailure, new
  <2>5. row.lockEnd \in Nat /\ row.lockEnd <= now + LockoutDuration
    BY <1>b DEF Bounded, Row
  <2>6. UNCHANGED <<created, now, host, editor, failures>>
    BY <1>9 DEF RecordFailedLogin, SaveColumns
  <2>7. CASE UNCHANGED row /\ login' = [login EXCEPT ![l] = Idle]
    BY <1>10, <1>i, <1>k, <2>6, <2>7
  <2>8. CASE /\ row # NoRow /\ row.id = seen.id
             /\ row' = RowAfter(seen.count + 1, row.lockEnd)
             /\ login' = [login EXCEPT ![l] = AfterFailure(l)]
    <3>1. seen.count + 1 <= failures /\ (row.lockEnd > 0 => failures + 1 >= MaxFailedAttempts)
      BY <1>b, <2>3, <2>8 DEF Bounded
    <3>2. Bounded(row)' /\ (row' = NoRow \/ row'.id = created)
      <4> HIDE DEF seen
      <4> QED BY <1>8, <2>1, <2>5, <2>6, <2>8, <3>1
    <3> QED BY <1>10, <2>4, <2>6, <2>8, <3>2
  <2> QED BY <1>9, <2>7, <2>8, RecordEffect
<1>e. ASSUME NEW l \in Logins, LockoutEnd(l) PROVE Inv'
  <2> DEFINE new == Request("lock", login[l].seen, now + LockoutDuration)
  <2>1. login[l].seen \in Row /\ login[l].step = "end"
    BY <1>e, <1>s DEF SoundLogin, LockoutEnd
  <2>2. login' = [login EXCEPT ![l] = new]
    BY <1>e, <2>1 DEF LockoutEnd
  <2>3. SoundLogin(new, failures)
    BY <1>n, <1>s, <2>1 DEF SoundLogin, Steps, Request
  <2>4. UNCHANGED <<row, created, now, host, editor, failures>>
    BY <1>e DEF LockoutEnd
  <2> HIDE DEF new
  <2> QED BY <1>10, <1>k, <2>2, <2>3, <2>4
<1>11. ASSUME NEW l \in Logins, LockoutUser(l) PROVE Inv'
  <2>1. /\ row.count \in Nat /\ login[l].until \in Nat /\ login[l].until <= now + LockoutDuration
        /\ login[l].seen.id = created => failures + 1 >= MaxFailedAttempts
        /\ row.id = created => row.count <= failures
    BY <1>11, <1>b, <1>s DEF Bounded, Row, SoundLogin, LockoutUser
  <2>2. UNCHANGED <<created, now, host, editor, failures>>
    BY <1>11 DEF LockoutUser, SaveColumns
  <2>3. Bounded(row)' /\ (row' = NoRow \/ row'.id = created)
    <3>1. CASE UNCHANGED row
      BY <1>k, <2>2, <3>1
    <3>2. CASE row # NoRow /\ row.id = login[l].seen.id /\ row' = RowAfter(row.count, login[l].until)
      BY <1>8, <1>b, <2>1, <2>2, <3>2
    <3> QED BY <1>11, <3>1, <3>2, LockEffect
  <2> QED BY <1>10, <1>11, <1>i, <2>2, <2>3, LockEffect
<1>12. ASSUME NEW l \in Logins, ResetFailedLoginCount(l) PROVE Inv'
  <2> DEFINE lock == IF login[l].seen.lockEnd = 0 THEN row.lockEnd ELSE 0
  <2>1. /\ lock \in Nat /\ lock <= now + LockoutDuration
        /\ row.id = created => (lock > 0 => failures + 1 >= MaxFailedAttempts)
    BY <1>b, <1>n DEF Bounded, Row
  <2>2. UNCHANGED row \/ (row # NoRow /\ row' = RowAfter(0, lock))
    BY <1>12, ResetEffect
  <2>3. UNCHANGED <<created, now, host, editor, failures>>
    BY <1>12 DEF ResetFailedLoginCount, SaveColumns
  <2>4. Bounded(row)' /\ (row' = NoRow \/ row'.id = created)
    <3> HIDE DEF lock
    <3>1. CASE UNCHANGED row
      BY <1>k, <2>3, <3>1
    <3>2. CASE row # NoRow /\ row' = RowAfter(0, lock)
      BY <1>8, <1>b, <1>n, <2>1, <2>3, <3>2
    <3> QED BY <2>2, <3>1, <3>2
  <2> QED BY <1>10, <1>12, <1>i, <2>3, <2>4, ResetEffect
<1>13. ASSUME NEW l \in Logins, LoginDies(l) PROVE Inv'
  BY <1>10, <1>13, <1>i, <1>k DEF LoginDies
<1>14. ASSUME NEW e \in Editors, EditorOpens(e) PROVE Inv'
  <2> DEFINE new == [open |-> TRUE, seen |-> row]
  <2>1. new \in [open : BOOLEAN, seen : Row] /\ new.seen = row
    BY <1>b DEF Bounded
  <2>2. editor' = [editor EXCEPT ![e] = new] /\ UNCHANGED <<row, created, now, host, login, failures>>
    BY <1>14 DEF EditorOpens
  <2> HIDE DEF new
  <2> QED BY <1>b, <2>1, <2>2, EditorSteps
<1>15. ASSUME NEW e \in Editors, EditorCloses(e) PROVE Inv'
  BY <1>15, <1>b, <1>c, EditorSteps DEF EditorCloses
<1>16. ASSUME NEW e \in Editors, NEW p \in Passwords, UpdateRow(e, p) PROVE Inv'
  <2> DEFINE seen == editor[e].seen
             saved == [id |-> seen.id, password |-> p,
                       count |-> seen.count, lockEnd |-> seen.lockEnd]
             new == [editor[e] EXCEPT !.seen = saved]
  <2>1. editor[e] \in [open : BOOLEAN, seen : Row] /\ Bounded(seen)
    BY DEF Inv, EditorsOK
  <2>2. Bounded(saved) /\ saved \in Row /\ saved.id = seen.id
    BY <2>1 DEF Bounded, Row
  <2>3. new \in [open : BOOLEAN, seen : Row] /\ new.seen = saved
    <3> HIDE DEF saved
    <3> QED BY <2>1, <2>2
  <2>4. /\ UNCHANGED <<created, now, host, login, failures>>
        /\ \/ UNCHANGED row /\ editor' = [editor EXCEPT ![e] = Closed]
           \/ row # NoRow /\ row.id = seen.id /\ row' = saved /\ editor' = [editor EXCEPT ![e] = new]
    BY <1>16, SaveEffect
  <2> HIDE DEF new, saved
  <2>5. CASE UNCHANGED row /\ editor' = [editor EXCEPT ![e] = Closed]
    BY <1>b, <1>c, <2>4, <2>5, EditorSteps
  <2>6. CASE row # NoRow /\ row.id = seen.id /\ row' = saved /\ editor' = [editor EXCEPT ![e] = new]
    BY <1>b, <2>2, <2>3, <2>4, <2>6, EditorSteps
  <2> QED BY <2>4, <2>5, <2>6
<1>17. ASSUME NEW e \in Editors, SaveWithPassword(e) \/ SaveWithBlank(e) PROVE Inv'
  <2>1. editor[e].seen.password \in Passwords
    BY DEF Inv, EditorsOK, Row
  <2> QED BY <1>16, <1>17, <2>1 DEF SaveWithPassword, SaveWithBlank
<1>18. CASE Tick
  <2>1. now' \in 1 .. 1 + MaxTime /\ now <= now' /\ UNCHANGED <<row, created, host, login, editor, failures>>
    BY <1>18, <1>n DEF Tick, Inv
  <2>2. Bounded(row)'
    BY <1>18, <1>b, <1>n DEF Bounded, Row, Tick
  <2> QED BY <1>b, <1>n, <2>1, <2>2, ProgramSteps DEF Inv
<1>19. CASE UNCHANGED vars
  <2>1. Bounded(row)'
    BY <1>19, <1>b DEF Bounded, vars
  <2> QED BY <1>19, <1>b, <1>n, <2>1, ProgramSteps DEF Inv, vars
<1> QED BY <1>1, <1>3, <1>4, <1>5, <1>6, <1>7, <1>9, <1>e, <1>11, <1>12, <1>13, <1>14, <1>15, <1>17,
           <1>18, <1>19 DEF Next

\* Every row that a request or a page holds is an account's, whatever they do.
THEOREM AccountsAreTyped == Spec => []TypeOK
BY InitInv, StepInv, InvTypes, PTL DEF Spec

-------------------------------------------------------------------------------
\* What a step makes of a row that stays: nothing, what a login writes, or what a
\* page had read of the same account.
Unsaved == UNCHANGED row

SavedByLogin(l) ==
    \/ RecordFailedLogin(l) \/ LockoutUser(l) \/ ResetFailedLoginCount(l)

LEMMA RowSteps ==
    ASSUME Inv, [Next]_vars, row # NoRow, row' # NoRow
    PROVE  \/ Unsaved
           \/ \E l \in Logins : SavedByLogin(l) /\ row'.id = row.id
           \/ \E e \in Editors : \E p \in Passwords : UpdateRow(e, p) /\ row'.id = row.id
<1>1. ASSUME NEW l \in Logins, SavedByLogin(l) PROVE Unsaved \/ row'.id = row.id
  <2>1. \A n, lock : RowAfter(n, lock).id = row.id
    BY DEF RowAfter
  <2> QED BY <1>1, <2>1, RecordEffect, LockEffect, ResetEffect DEF SavedByLogin, Unsaved
<1>2. ASSUME NEW e \in Editors, SaveWithPassword(e) \/ SaveWithBlank(e)
      PROVE  \E p \in Passwords : UpdateRow(e, p) /\ (Unsaved \/ row'.id = row.id)
  <2>1. editor[e].seen.password \in Passwords
    BY DEF Inv, EditorsOK, Row
  <2>2. PICK p \in Passwords : UpdateRow(e, p)
    BY <1>2, <2>1 DEF SaveWithPassword, SaveWithBlank
  <2> QED BY <2>2, SaveEffect DEF Unsaved
<1>3. CASE \E h \in Hosts : HostStarts(h) \/ HostSeeds(h) \/ HostStops(h)
  BY <1>3 DEF HostStarts, HostSeeds, HostStops, Insert, UsernameFree, Unsaved
<1>4. CASE CreateUser \/ DeleteUser
  BY <1>4 DEF CreateUser, DeleteUser, Insert, UsernameFree, Unsaved
<1>5. CASE \E l \in Logins : WrongPassword(l) \/ RightPassword(l) \/ LockoutEnd(l) \/ LoginDies(l)
  BY <1>5 DEF WrongPassword, RightPassword, LoginReads, LockoutEnd, LoginDies, Unsaved
<1>6. CASE \E e \in Editors : EditorOpens(e) \/ EditorCloses(e)
  BY <1>6 DEF EditorOpens, EditorCloses, Unsaved
<1>7. CASE Tick \/ UNCHANGED vars
  BY <1>7 DEF Tick, vars, Unsaved
<1> QED BY <1>1, <1>2, <1>3, <1>4, <1>5, <1>6, <1>7 DEF Next, SavedByLogin

\* A row is never overwritten by what was read of another account of its name, and
\* a program that starts never replaces the account of another one.
THEOREM RowsStayApart == Spec => AccountsAreNotMixed
<1> DEFINE Apart == /\ (row # NoRow /\ row' # NoRow) => row'.id = row.id
                    /\ (row = NoRow /\ row' # NoRow) => row'.id > created
<1>1. Inv /\ [Next]_vars => [Apart]_vars
  <2> SUFFICES ASSUME Inv, [Next]_vars PROVE Apart
    OBVIOUS
  <2>1. ASSUME row # NoRow, row' # NoRow PROVE row'.id = row.id
    BY <2>1, RowSteps DEF Unsaved
  <2>2. ASSUME row = NoRow, row' # NoRow PROVE row'.id > created
    <3>1. ASSUME NEW l \in Logins, SavedByLogin(l) PROVE FALSE
      BY <2>2, <3>1, RecordEffect, LockEffect, ResetEffect DEF SavedByLogin
    <3>2. ASSUME NEW e \in Editors, SaveWithPassword(e) \/ SaveWithBlank(e) PROVE FALSE
      BY <2>2, <3>2 DEF SaveWithPassword, SaveWithBlank, UpdateRow, Current
    <3>3. Insert
      BY <2>2, <3>1, <3>2 DEF Next, SavedByLogin, HostStarts, HostSeeds, HostStops, CreateUser,
             DeleteUser, WrongPassword, RightPassword, LoginReads, LockoutEnd, LoginDies, EditorOpens,
             EditorCloses, Tick, vars
    <3> QED BY <3>3, InsertEffect, Numbers
  <2> QED BY <2>1, <2>2
<1> QED BY <1>1, InitInv, StepInv, PTL DEF Spec, AccountsAreNotMixed

\* Who has read an account while it was locked does not lift that lock: the right
\* password is refused then, and a save writes the end of the lock back.  Nor does
\* a login that was let in before the first lock, although it resets the count.
THEOREM LocksHold == Spec => OnlyStaleSavesLift
<1> DEFINE Lifted == SameAccount /\ IsLockedOut(row) /\ row'.lockEnd < row.lockEnd
           Stale == \/ \E l \in Logins :
                         /\ login'[l] # login[l]
                         /\ \/ login[l].step = "reset" /\ login[l].seen.lockEnd \in 1 .. now
                            \/ login[l].step = "lock" /\ login[l].until < row.lockEnd
                    \/ \E e \in Editors : editor[e].open /\ editor[e].seen.lockEnd # row.lockEnd
<1>1. Inv /\ [Next]_vars => [Lifted => Stale]_vars
  <2> SUFFICES ASSUME Inv, [Next]_vars, Lifted PROVE Stale
    OBVIOUS
  <2>n. row.lockEnd \in Nat /\ row.lockEnd > now /\ now \in Nat /\ now > 0
    BY Numbers DEF Inv, Bounded, Row, IsLockedOut
  <2>1. row # NoRow /\ row' # NoRow /\ row'.lockEnd < row.lockEnd
    BY DEF SameAccount
  <2>2. ASSUME NEW l \in Logins, SavedByLogin(l) PROVE Stale
    <3>1. \A n, lock : RowAfter(n, lock).lockEnd = lock
      BY DEF RowAfter
    <3>2. SoundLogin(login[l], failures) /\ DOMAIN login = Logins
      BY DEF Inv, LoginsOK
    <3>3. login'[l] = Idle /\ Idle.step = "idle"
      BY <2>1, <2>2, <2>n, <3>1, <3>2, RecordEffect, LockEffect, ResetEffect
         DEF SavedByLogin, Idle, Request
    <3>4. CASE RecordFailedLogin(l)
      BY <2>1, <2>n, <3>1, <3>4, RecordEffect
    <3>5. CASE LockoutUser(l)
      <4>1. login[l].step = "lock" /\ login[l].until < row.lockEnd
        BY <2>1, <2>n, <3>1, <3>5, LockEffect DEF LockoutUser
      <4> QED BY <3>3, <4>1
    <3>6. CASE ResetFailedLoginCount(l)
      <4>1. login[l].step = "reset" /\ login[l].seen.lockEnd # 0
        <5>1. row' = RowAfter(0, IF login[l].seen.lockEnd = 0 THEN row.lockEnd ELSE 0)
          <6>1. row' # row
            BY <2>1, <2>n
          <6> QED BY <3>6, <6>1, ResetEffect
        <5>2. CASE login[l].seen.lockEnd = 0
          BY <2>1, <2>n, <3>1, <5>1, <5>2
        <5> QED BY <3>6, <5>2 DEF ResetFailedLoginCount
      <4>2. login[l].seen.lockEnd \in 1 .. now
        BY <2>n, <3>2, <4>1 DEF SoundLogin, Row
      <4> QED BY <3>3, <4>1, <4>2
    <3> QED BY <2>2, <3>4, <3>5, <3>6 DEF SavedByLogin
  <2>3. ASSUME NEW e \in Editors, NEW p \in Passwords, UpdateRow(e, p) PROVE Stale
    <3>1. editor[e].open /\ (row' = row \/ row'.lockEnd = editor[e].seen.lockEnd)
      BY <2>3, SaveEffect
    <3>2. row'.lockEnd # row.lockEnd
      <4>1. row.lockEnd \in Nat /\ row'.lockEnd < row.lockEnd
        BY <2>1, <2>n
      <4> QED BY <4>1
    <3> QED BY <2>3, <3>1, <3>2
  <2> QED BY <2>1, <2>2, <2>3, <2>n, RowSteps DEF Unsaved
<1> QED BY <1>1, InitInv, StepInv, PTL DEF Spec, OnlyStaleSavesLift

\* No account is locked without its own failures, although failures overlap, pages
\* put counts back, and requests hold rows of a deleted account of the same name.
THEOREM LocksNeedFailures == Spec => []LocksAreEarned
<1>1. Inv => LocksAreEarned
  <2> SUFFICES ASSUME Inv, row.lockEnd > 0 PROVE failures + 1 >= MaxFailedAttempts
    BY DEF LocksAreEarned
  <2>1. row # NoRow
    BY DEF NoRow
  <2> QED BY <2>1 DEF Inv, Bounded
<1> QED BY <1>1, InitInv, StepInv, PTL DEF Spec
===============================================================================
