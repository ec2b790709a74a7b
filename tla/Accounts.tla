------------------------------- MODULE Accounts -------------------------------
(***************************************************************************)
(* One user account: the logins that count failures and lock it, the pages *)
(* and the API that save it, and the start of the host programs that       *)
(* creates it.  Web and Desktop share the database; no row has a           *)
(* concurrency token.                                                      *)
(*                                                                         *)
(* A request or page keeps the entity it has read, and the repository      *)
(* finds that very instance again (FindAsync).  Two kinds of saves follow: *)
(* the login's write the columns it has changed, UpdateAsync writes the    *)
(* whole row as it was read.  An UPDATE that finds no row of the id throws *)
(* (DbUpdateConcurrencyException), and the request ends.                   *)
(***************************************************************************)
EXTENDS Naturals

CONSTANTS
    Logins,               \* bound: login requests at one time
    Editors,              \* bound: pages and requests that save the account
    Hosts,                \* programs on the database
    Passwords,            \* passwords of the account
    InitialPassword,      \* Security:InitialAdminPassword
    MaxFailedAttempts,    \* Security:AccountLockout
    LockoutDuration,
    MaxFailures,          \* bound: wrong passwords tried on one account
    MaxTime,              \* bound: the clock
    MaxAccounts           \* bound: how often the account is created

ASSUME AccountsAssumption ==
    /\ InitialPassword \in Passwords
    /\ {MaxFailedAttempts, LockoutDuration} \subseteq Nat \ {0}
    /\ {MaxFailures, MaxTime, MaxAccounts} \subseteq Nat

VARIABLES
    row,       \* the account, or NoRow
    created,   \* how many accounts of this name there have been; the last id
    now,       \* the clock
    host,      \* each program
    login,     \* each login request: what it does next, the entity it read, lockoutEnd
    editor,    \* each page: whether it is open, and the entity it read
    failures   \* auxiliary: wrong passwords tried on the last account created

vars == <<row, created, now, host, login, editor, failures>>

NoRow == [id |-> 0, password |-> InitialPassword, count |-> 0, lockEnd |-> 0]

\* LockoutEndUtc is 0 for null.
IsLockedOut(r) == r.lockEnd > now

Account(r) ==
    /\ r.id \in 0 .. created
    /\ r.password \in Passwords
    /\ r.count \in Nat
    /\ r.lockEnd \in 0 .. now + LockoutDuration

TypeOK ==
    /\ created \in 0 .. MaxAccounts
    /\ now \in 1 .. 1 + MaxTime
    /\ Account(row)
    /\ host \in [Hosts -> {"down", "seeding", "up"}]
    /\ \A l \in Logins :
          /\ login[l].step \in {"idle", "record", "end", "lock", "reset"}
          /\ Account(login[l].seen)
          /\ login[l].until \in 0 .. now + LockoutDuration
    /\ \A e \in Editors : editor[e].open \in BOOLEAN /\ Account(editor[e].seen)
    /\ failures \in 0 .. MaxFailures

Request(step, seen, until) == [step |-> step, seen |-> seen, until |-> until]
Idle == Request("idle", NoRow, 0)
Closed == [open |-> FALSE, seen |-> NoRow]

Init ==
    /\ row = NoRow
    /\ created = 0
    /\ now = 1
    /\ host = [h \in Hosts |-> "down"]
    /\ login = [l \in Logins |-> Idle]
    /\ editor = [e \in Editors |-> Closed]
    /\ failures = 0

-------------------------------------------------------------------------------
\* Variant, to be rejected: rows are told apart by their username.
SameName(seen) == row # NoRow

\* The row a tracked entity was read from is still there.
Current(seen) == row # NoRow /\ row.id = seen.id

\* The unique index on Username.
UsernameFree == row = NoRow

Insert ==
    /\ UsernameFree
    /\ created < MaxAccounts
    /\ created' = created + 1
    /\ row' = [id |-> created + 1, password |-> InitialPassword, count |-> 0, lockEnd |-> 0]
    /\ failures' = 0

\* A program asks whether any user exists.
HostStarts(h) ==
    /\ host[h] = "down"
    /\ host' = [host EXCEPT ![h] = IF row = NoRow THEN "seeding" ELSE "up"]
    /\ UNCHANGED <<row, created, now, login, editor, failures>>

\* It creates the first administrator, or the insertion fails and it ends.
HostSeeds(h) ==
    /\ host[h] = "seeding"
    /\ \/ Insert /\ host' = [host EXCEPT ![h] = "up"]
       \/ /\ ~ UsernameFree
          /\ host' = [host EXCEPT ![h] = "down"]
          /\ UNCHANGED <<row, created, failures>>
    /\ UNCHANGED <<now, login, editor>>

HostStops(h) ==
    /\ host[h] # "down"
    /\ host' = [host EXCEPT ![h] = "down"]
    /\ UNCHANGED <<row, created, now, login, editor, failures>>

Serving == \E h \in Hosts : host[h] = "up"

\* The account is created again, or deleted, by the page or the API.
CreateUser == Serving /\ Insert /\ UNCHANGED <<now, host, login, editor>>

DeleteUser ==
    /\ Serving /\ row # NoRow
    /\ row' = NoRow
    /\ UNCHANGED <<created, now, host, login, editor, failures>>

-------------------------------------------------------------------------------
\* HandleLoginAsync reads the account; the password plays no part any more once it
\* is compared, and is left out of what the request keeps.  Who finds it locked is
\* refused at once, and who knows the password of an account without failures is let
\* in at once.
LoginReads(l, step) ==
    /\ Serving /\ login[l] = Idle /\ row # NoRow /\ ~ IsLockedOut(row)
    /\ login' = [login EXCEPT ![l] = Request(step, [row EXCEPT !.password = InitialPassword], 0)]
    /\ UNCHANGED <<row, created, now, host, editor>>

WrongPassword(l) ==
    /\ failures < MaxFailures
    /\ failures' = failures + 1
    /\ LoginReads(l, "record")

RightPassword(l) == row.count > 0 /\ LoginReads(l, "reset") /\ UNCHANGED failures

\* The columns that the request has changed in its entity are written.
SaveColumns(l, written, next) ==
    /\ IF Current(login[l].seen)
       THEN row' = written /\ login' = [login EXCEPT ![l] = next]
       ELSE login' = [login EXCEPT ![l] = Idle] /\ UNCHANGED row
    /\ UNCHANGED <<created, now, host, editor, failures>>

\* RecordFailedLoginAsync counts in the entity that the login page has read,
\* and the page adds one to that once more before it compares.
Counted(l) == [login[l].seen EXCEPT !.count = @ + 1]

AfterFailure(l) ==
    IF Counted(l).count + 1 >= MaxFailedAttempts
    THEN Request("end", Counted(l), 0)
    ELSE Idle

RecordFailedLogin(l) ==
    /\ login[l].step = "record"
    /\ SaveColumns(l, [row EXCEPT !.count = Counted(l).count], AfterFailure(l))

\* The end of the lock is fixed before LockoutUserAsync is awaited.
LockoutEnd(l) ==
    /\ login[l].step = "end"
    /\ login' = [login EXCEPT ![l] = Request("lock", @.seen, now + LockoutDuration)]
    /\ UNCHANGED <<row, created, now, host, editor, failures>>

\* Variant, to be rejected: the duration is added to a lock that runs.
ExtendLock(l) ==
    /\ login[l].step = "lock"
    /\ SaveColumns(l, [row EXCEPT !.lockEnd = LockoutDuration + IF @ > now THEN @ ELSE now], Idle)

LockoutUser(l) ==
    /\ login[l].step = "lock"
    /\ SaveColumns(l, [row EXCEPT !.lockEnd = login[l].until], Idle)

\* Variant, to be rejected: both columns are written, changed or not.
ResetBoth(l) ==
    /\ login[l].step = "reset"
    /\ SaveColumns(l, [row EXCEPT !.count = 0, !.lockEnd = 0], Idle)

\* A lock that the request has not seen is no change of its entity.
ResetFailedLoginCount(l) ==
    /\ login[l].step = "reset"
    /\ SaveColumns(l, [row EXCEPT !.count = 0,
                                  !.lockEnd = IF login[l].seen.lockEnd = 0 THEN @ ELSE 0], Idle)

\* A database error, or the end of the process.
LoginDies(l) ==
    /\ login[l] # Idle
    /\ login' = [login EXCEPT ![l] = Idle]
    /\ UNCHANGED <<row, created, now, host, editor, failures>>

-------------------------------------------------------------------------------
\* Users/Edit (from its first rendering on), ChangePassword and PUT api/users.
EditorOpens(e) ==
    /\ Serving /\ editor[e] = Closed /\ row # NoRow
    /\ editor' = [editor EXCEPT ![e] = [open |-> TRUE, seen |-> row]]
    /\ UNCHANGED <<row, created, now, host, login, failures>>

\* UpdateAsync; the page stays open with the entity it has saved.
UpdateRow(e, password) ==
    LET saved == [editor[e].seen EXCEPT !.password = password]
    IN  /\ editor[e].open
        /\ IF Current(editor[e].seen)
           THEN row' = saved /\ editor' = [editor EXCEPT ![e].seen = saved]
           ELSE editor' = [editor EXCEPT ![e] = Closed] /\ UNCHANGED row
        /\ UNCHANGED <<created, now, host, login, failures>>

\* (every hash has a salt of its own, so a new one differs)
SaveWithPassword(e) == \E p \in Passwords \ {editor[e].seen.password} : UpdateRow(e, p)

\* Another field is changed, the password left blank.
SaveWithBlank(e) == UpdateRow(e, editor[e].seen.password)

EditorCloses(e) ==
    /\ editor[e].open
    /\ editor' = [editor EXCEPT ![e] = Closed]
    /\ UNCHANGED <<row, created, now, host, login, failures>>

Tick ==
    /\ now <= MaxTime
    /\ now' = now + 1
    /\ UNCHANGED <<row, created, host, login, editor, failures>>

Next ==
    \/ \E h \in Hosts : HostStarts(h) \/ HostSeeds(h) \/ HostStops(h)
    \/ CreateUser \/ DeleteUser
    \/ \E l \in Logins :
          \/ WrongPassword(l) \/ RightPassword(l) \/ RecordFailedLogin(l)
          \/ LockoutEnd(l) \/ LockoutUser(l) \/ ResetFailedLoginCount(l) \/ LoginDies(l)
    \/ \E e \in Editors :
          EditorOpens(e) \/ SaveWithPassword(e) \/ SaveWithBlank(e) \/ EditorCloses(e)
    \/ Tick

Spec == Init /\ [][Next]_vars

-------------------------------------------------------------------------------
SameAccount == row # NoRow /\ row' # NoRow /\ row'.id = row.id

\* A lock is lifted or shortened before its end only by a save that is stale: that
\* of a page that read the account in another state of its lock; that of a login
\* with the right password that read it before the lock, and with an earlier one
\* that was over; or that of a failed login that fixed its own lock's end earlier.
\* So no other login lifts the first lock of an account, though it resets the count.
OnlyStaleSavesLift ==
    [][(SameAccount /\ IsLockedOut(row) /\ row'.lockEnd < row.lockEnd) =>
          \/ \E l \in Logins :
                /\ login'[l] # login[l]
                /\ \/ login[l].step = "reset" /\ login[l].seen.lockEnd \in 1 .. now
                   \/ login[l].step = "lock" /\ login[l].until < row.lockEnd
          \/ \E e \in Editors : editor[e].open /\ editor[e].seen.lockEnd # row.lockEnd]_vars

\* An account has been locked only if wrong passwords were tried on itself, as many
\* as the limit less one (the page counts one of them twice), however failures
\* overlap, pages put counts back and accounts of its name are created anew.
LocksAreEarned == row.lockEnd > 0 => failures + 1 >= MaxFailedAttempts

\* The row of an account is never overwritten by what was read of another of the
\* same name, and a second program that starts does not replace the account that
\* the first one has created.
AccountsAreNotMixed ==
    [][/\ (row # NoRow /\ row' # NoRow) => row'.id = row.id
       /\ (row = NoRow /\ row' # NoRow) => row'.id > created]_vars

-------------------------------------------------------------------------------
\* Three statements that the code does not keep.

\* "A password left blank is not changed" (Users/Edit.razor 66, web-manual.md 421).
BlankKeepsPassword ==
    [][\A e \in Editors : (SameAccount /\ SaveWithBlank(e)) => row'.password = row.password]_vars

\* "MaxFailedAttempts failures in a row lock the account" (configuration-guide.md
\* 304): no lock comes before as many have been counted.
LocksAtTheLimit ==
    [][\A l \in Logins : LockoutUser(l) => login[l].seen.count >= MaxFailedAttempts]_vars

\* "... locks the account for LockoutDurationMinutes" (configuration-guide.md 304): a
\* failed login does not shorten the lock that another one has set.
FailuresKeepLocks ==
    [][\A l \in Logins : (SameAccount /\ LockoutUser(l)) => row'.lockEnd >= row.lockEnd]_vars
===============================================================================
