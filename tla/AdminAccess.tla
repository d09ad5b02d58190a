----------------------------- MODULE AdminAccess -----------------------------
(***************************************************************************)
(* The administrator's password, sessions and failed logins:               *)
(* internal/web/admin_security.go and the login handlers of                *)
(* internal/web/server.go.  Everything in memory is under the server's     *)
(* mutex, which a handler takes several times, writing the password's file *)
(* in between.  Every browser has an address and a session cookie of its   *)
(* own.  Expired sessions are dropped when they expire, not at the next    *)
(* look; cookies, delays and the shape of a new password are left out.     *)
(***************************************************************************)
EXTENDS Naturals, Sequences, SequencesExt, FiniteSets

CONSTANTS
    Browsers,
    Passwords, Default,   \* the passwords in play; "admin123"
    Bootstrap,            \* M365_ADMIN_PASSWORD, or Default when it is not set
    MaxFailures,          \* 5 in the code
    MaxSessions,          \* maxAdminSessions, 4096 in the code
    MaxAttempts,          \* maxLoginAttemptEntries, 4096 in the code
    MaxLogins,            \* bound: sessions ever opened
    PasswordSaveFails

ASSUME AccessAssumption ==
    /\ {Default, Bootstrap} \subseteq Passwords /\ PasswordSaveFails \in BOOLEAN
    /\ {MaxFailures, MaxSessions, MaxAttempts, MaxLogins} \subseteq Nat \ {0}

VARIABLES
    adminPassword, mustChangePassword,
    passwordFile,    \* contents of admin-password, a sequence of at most one
    adminSessions,   \* a sequence of [id, password], the oldest first
    loginAttempts,   \* of each address: [failures, window, locked]
    browser,         \* what each browser's request is doing, and its cookie
    opened,          \* sessions opened so far
    crossed          \* history: the latest change crossed another, or a login
accessVars == <<adminPassword, mustChangePassword, passwordFile, adminSessions, loginAttempts,
                browser, opened, crossed>>

NoAttempt == [failures |-> 0, window |-> FALSE, locked |-> FALSE]
AtRest(cookie) == [at |-> "idle", given |-> Default, new |-> Default, cookie |-> cookie, clean |-> TRUE]
Loaded(file) == IF file = <<>> \/ file = <<Default>> THEN Bootstrap ELSE file[1]

(* loadAdminPassword: a persisted password wins, a persisted default only  *)
(* if the environment has no other, which then replaces it.                *)
LoadPassword(file) ==
    /\ adminPassword' = Loaded(file) /\ mustChangePassword' = (Loaded(file) = Default)
    /\ passwordFile' = IF file = <<Default>> THEN <<Bootstrap>> ELSE file

AccessInit ==
    /\ passwordFile \in {<<>>, <<Bootstrap>>}
    /\ adminPassword = Bootstrap /\ mustChangePassword = (Bootstrap = Default)
    /\ adminSessions = <<>> /\ opened = 0 /\ crossed = FALSE
    /\ loginAttempts = [b \in Browsers |-> NoAttempt]
    /\ browser = [b \in Browsers |-> AtRest(0)]

Live(b) == \E s \in ToSet(adminSessions) : s.id = browser[b].cookie
To(b, at) == browser' = [browser EXCEPT ![b].at = at]
Done(b, cookie) == browser' = [browser EXCEPT ![b] = AtRest(cookie)]
Rest(b) == Done(b, browser[b].cookie)

-----------------------------------------------------------------------------
(* loginAllowed: a locked address is turned away; the entry of one whose   *)
(* window is over is forgotten.                                            *)
AskLogin(b, password) ==
    /\ browser[b].at = "idle" /\ ~loginAttempts[b].locked
    /\ loginAttempts' = IF loginAttempts[b].window THEN loginAttempts
                        ELSE [loginAttempts EXCEPT ![b] = NoAttempt]
    /\ browser' = [browser EXCEPT ![b].at = "login", ![b].given = password]
    /\ UNCHANGED <<adminPassword, mustChangePassword, passwordFile, adminSessions, opened, crossed>>

(* recordLoginFailure: a full table drops what is over, and if it is still *)
(* full the failure is not counted.                                        *)
Failure(attempts, b) ==
    LET over(x) == ~attempts[x].window /\ ~attempts[x].locked
        known == {x \in Browsers : attempts[x] # NoAttempt}
        full == b \notin known /\ Cardinality(known) >= MaxAttempts
        swept == IF full THEN [x \in Browsers |-> IF over(x) THEN NoAttempt ELSE attempts[x]] ELSE attempts
        n == (IF swept[b].window THEN swept[b].failures ELSE 0) + 1
        count == IF n > MaxFailures THEN MaxFailures ELSE n
    IN IF full /\ Cardinality({x \in Browsers : swept[x] # NoAttempt}) >= MaxAttempts THEN swept
       ELSE [swept EXCEPT ![b] = [failures |-> count, window |-> TRUE, locked |-> count = MaxFailures]]

CheckLogin(b) ==
    /\ browser[b].at = "login"
    /\ IF browser[b].given = adminPassword
       THEN loginAttempts' = [loginAttempts EXCEPT ![b] = NoAttempt] /\ To(b, "open")
       ELSE loginAttempts' = Failure(loginAttempts, b) /\ Rest(b)
    /\ UNCHANGED <<adminPassword, mustChangePassword, passwordFile, adminSessions, opened, crossed>>

(* The session is opened later, under the mutex again, the oldest leaving  *)
(* a full table.                                                           *)
OpenSession(b) ==
    LET kept == IF Len(adminSessions) >= MaxSessions THEN Tail(adminSessions) ELSE adminSessions
    IN /\ browser[b].at = "open" /\ opened < MaxLogins
       /\ opened' = opened + 1
       /\ adminSessions' = Append(kept, [id |-> opened', password |-> browser[b].given])
       /\ Done(b, opened')
       /\ UNCHANGED <<adminPassword, mustChangePassword, passwordFile, loginAttempts, crossed>>

(* Every session has an id of its own.                                     *)
Logout(b) ==
    /\ browser[b].at = "idle" /\ browser[b].cookie # 0
    /\ \/ ~Live(b) /\ UNCHANGED adminSessions
       \/ \E i \in DOMAIN adminSessions :
             /\ adminSessions[i].id = browser[b].cookie
             /\ adminSessions' = RemoveAt(adminSessions, i)
    /\ Done(b, 0)
    /\ UNCHANGED <<adminPassword, mustChangePassword, passwordFile, loginAttempts, opened, crossed>>

-----------------------------------------------------------------------------
(* adminChangePassword: session, then the current password, then the file, *)
(* then the memory.                                                        *)
AskChange(b, current, new) ==
    /\ browser[b].at = "idle" /\ Live(b)
    /\ browser' = [browser EXCEPT ![b].at = "check", ![b].given = current, ![b].new = new]
    /\ UNCHANGED <<adminPassword, mustChangePassword, passwordFile, adminSessions, loginAttempts, opened, crossed>>

CheckCurrent(b) ==
    /\ browser[b].at = "check"
    /\ IF browser[b].given = adminPassword /\ browser[b].new # Default THEN To(b, "save") ELSE Rest(b)
    /\ UNCHANGED <<adminPassword, mustChangePassword, passwordFile, adminSessions, loginAttempts, opened, crossed>>

SavePassword(b) ==
    /\ browser[b].at = "save"
    /\ \/ passwordFile' = <<browser[b].new>> /\ To(b, "set")
       \/ PasswordSaveFails /\ Rest(b) /\ UNCHANGED passwordFile
    /\ UNCHANGED <<adminPassword, mustChangePassword, adminSessions, loginAttempts, opened, crossed>>

(* A change takes effect while another change or a login is past its check *)
(* or did so since this change passed its own.                             *)
Crossing(b) ==
    LET others(ats) == {x \in Browsers \ {b} : browser[x].at \in ats}
    IN /\ crossed' = (~browser[b].clean \/ others({"open", "save", "set"}) # {})
       /\ browser' = [x \in Browsers |-> IF x = b THEN AtRest(0)
                                        ELSE [browser[x] EXCEPT !.clean = @ /\ x \notin others({"save", "set"})]]

(* Variant: the sessions of the old password stay. *)
SetPasswordOnly(b) ==
    /\ browser[b].at = "set"
    /\ adminPassword' = browser[b].new /\ mustChangePassword' = FALSE
    /\ Crossing(b)
    /\ UNCHANGED <<passwordFile, adminSessions, loginAttempts, opened>>
SetPassword(b) ==
    /\ browser[b].at = "set"
    /\ adminPassword' = browser[b].new /\ mustChangePassword' = FALSE
    /\ adminSessions' = <<>>
    /\ Crossing(b)
    /\ UNCHANGED <<passwordFile, loginAttempts, opened>>

-----------------------------------------------------------------------------
(* Fifteen minutes: from the first failure for the window, from the last   *)
(* one for the lock, so the window of a lock that ends is over as well.    *)
TimePasses(b) ==
    /\ \/ loginAttempts[b].window /\ loginAttempts' = [loginAttempts EXCEPT ![b].window = FALSE]
       \/ /\ loginAttempts[b].locked /\ ~loginAttempts[b].window
          /\ loginAttempts' = [loginAttempts EXCEPT ![b].locked = FALSE]
    /\ UNCHANGED <<adminPassword, mustChangePassword, passwordFile, adminSessions, browser, opened, crossed>>
SessionExpires ==
    /\ adminSessions # <<>> /\ adminSessions' = Tail(adminSessions)
    /\ UNCHANGED <<adminPassword, mustChangePassword, passwordFile, loginAttempts, browser, opened, crossed>>

(* The process ends at any moment and is started again.                    *)
RestartAccess ==
    /\ LoadPassword(passwordFile)
    /\ adminSessions' = <<>> /\ loginAttempts' = [b \in Browsers |-> NoAttempt]
    /\ browser' = [b \in Browsers |-> AtRest(browser[b].cookie)]
    /\ crossed' = FALSE /\ UNCHANGED opened

AccessNext ==
    \/ \E b \in Browsers :
          \/ \E p \in Passwords : AskLogin(b, p) \/ \E q \in Passwords : AskChange(b, p, q)
          \/ CheckLogin(b) \/ OpenSession(b) \/ Logout(b)
          \/ CheckCurrent(b) \/ SavePassword(b) \/ SetPassword(b) \/ TimePasses(b)
    \/ SessionExpires \/ RestartAccess
AccessSpec == AccessInit /\ [][AccessNext]_accessVars

-----------------------------------------------------------------------------
(* With no change under way, the password that is accepted is the one a    *)
(* restart would accept, the console asks for a new one only if it is the  *)
(* default, and every session was opened with it, unless the latest change *)
(* crossed another change or a login (admin_security.go:158-177).          *)
PasswordAgrees ==
    \/ crossed
    \/ \E b \in Browsers : browser[b].at = "set"
    \/ /\ adminPassword = Loaded(passwordFile)
       /\ mustChangePassword = (adminPassword = Default)
       /\ \A s \in ToSet(adminSessions) : s.password = adminPassword
=============================================================================
