-------------------------- MODULE PatientSessions --------------------------
(***************************************************************************)
(* The patient registry on devices whose users sign out and in, step by    *)
(* step.  The SDK keeps one queue of mutations per user, the null user     *)
(* included: when the user changes, the queue of the one who leaves is set *)
(* aside and that of the one who comes is taken up, under calls of the app *)
(* that go on.  The provider, its list and the cache are shared by all.    *)
(* The createdBy of a patient stays the device.                            *)
(***************************************************************************)
EXTENDS PatientProvider

CONSTANTS Accounts, NoUser

ASSUME NoUserAssumption == NoUser \notin Accounts

VARIABLES user,   \* per device, FirebaseAuth's current user
          home,   \* per device, does the root widget show the HomeScreen?
          aside   \* per device and user, the queue while another one is used

sessionVars == <<user, home, aside>>
allVars == <<vars, sessionVars>>

Users == Accounts \cup {NoUser}

SessionTypeOK ==
  /\ TypeOK
  /\ user \in [Clients -> Users]
  /\ home \in [Clients -> BOOLEAN]
  /\ aside \in [Clients -> [Users -> Seq(Mutation)]]

\* The app starts with somebody signed in.
SessionInit ==
  /\ Init
  /\ user \in [Clients -> Accounts]
  /\ home = [c \in Clients |-> TRUE]
  /\ aside = [c \in Clients |-> [u \in Users |-> <<>>]]

\* Mutation: the queue of the user who leaves is dropped.
ChangeUserDropping(c, u) ==
  /\ user' = [user EXCEPT ![c] = u]
  /\ queue' = [queue EXCEPT ![c] = aside[c][u]]
  /\ aside' = [aside EXCEPT ![c][u] = <<>>]

\* The queues are swapped; the futures of the queue set aside stay with it.
ChangeUser(c, u) ==
  /\ user' = [user EXCEPT ![c] = u]
  /\ queue' = [queue EXCEPT ![c] = aside[c][u]]
  /\ aside' = [aside EXCEPT ![c][user[c]] = queue[c], ![c][u] = <<>>]

\* The logout button, which the screens pushed over the list cover.
SignOut(c) ==
  /\ home[c] /\ screen[c].at = "list"
  /\ user[c] # NoUser
  /\ ChangeUser(c, NoUser)
  /\ UNCHANGED <<server, cache, online, appVars, home>>

\* The stream of the root widget has delivered the null user.
LeaveHome(c) ==
  /\ home[c] /\ user[c] = NoUser
  /\ home' = [home EXCEPT ![c] = FALSE]
  /\ screen' = [screen EXCEPT ![c] = ListScreen]
  /\ calls' = [calls EXCEPT ![c] = Unmounted(c)]
  /\ UNCHANGED <<storeVars, patients, loads, clock, saves, visits, user, aside>>

SignIn(c, a) ==
  /\ ~home[c] /\ user[c] = NoUser
  /\ online[c]
  /\ visits < MaxVisits
  /\ visits' = visits + 1
  /\ ChangeUser(c, a)
  /\ UNCHANGED <<server, cache, online, patients, screen, calls, loads, clock,
                 saves, home>>

\* The stream delivers the user, and a new HomeScreen loads the patients.
\* Bound: no earlier load is in flight.
EnterHome(c) ==
  /\ ~home[c] /\ user[c] # NoUser
  /\ loads[c].stage = "idle"
  /\ home' = [home EXCEPT ![c] = TRUE]
  /\ loads' = [loads EXCEPT ![c] = AskedLoad]
  /\ UNCHANGED <<storeVars, patients, screen, calls, clock, saves, visits, user, aside>>

\* The app is killed and started: user, cache and all queues are on disk.
RestartSession(c) ==
  /\ visits < MaxVisits
  /\ visits' = visits + 1
  /\ patients' = [patients EXCEPT ![c] = <<>>]
  /\ screen' = [screen EXCEPT ![c] = ListScreen]
  /\ calls' = [calls EXCEPT ![c] = [s \in Slots |-> IdleCall]]
  /\ loads' = [loads EXCEPT ![c] = IdleLoad]
  /\ home' = [home EXCEPT ![c] = FALSE]
  /\ ForgetWaiters(c)
  /\ aside' = [aside EXCEPT ![c] =
                [u \in Users |->
                   [i \in DOMAIN @[u] |-> [@[u][i] EXCEPT !.waiter = {}]]]]
  /\ UNCHANGED <<server, cache, online, clock, saves, user>>

\* Without a user getUserName answers null, and a tap saves nothing.
HomeStep(c) ==
  /\ home[c]
  /\ ScreenStep(c) \/ \E s \in Slots : user[c] # NoUser /\ TapSave(c, s)

\* Calls that are under way go on whoever is signed in, over the queue in use.
ClientStep(c) ==
  \/ HomeStep(c)
  \/ \E s \in Slots : SaveStep(c, s)
  \/ LoadStep(c)
  \/ WriteStep(c)
  \/ Network(c)

SessionStep(c) ==
  SignOut(c) \/ LeaveHome(c) \/ (\E a \in Accounts : SignIn(c, a)) \/ EnterHome(c)

SessionNext ==
  \E c \in Clients :
    \/ ClientStep(c) /\ UNCHANGED sessionVars
    \/ SessionStep(c)
    \/ RestartSession(c)

SessionSpec == SessionInit /\ [][SessionNext]_allVars

----------------------------------------------------------------------------
(* Properties *)

\* The queues of device c, by user.
Queues(c) == [aside[c] EXCEPT ![user[c]] = queue[c]]

(***************************************************************************)
(* A save that awaits set() has its write in the queue of one user, who    *)
(* need not be the one signed in, and no other write in any queue answers  *)
(* it: signing out, another user, saves in the window between them, kills  *)
(* and lost acknowledgements neither lose the write of a save that waits   *)
(* nor let it go on with the confirmation of another.                      *)
(***************************************************************************)
SavesAwaitOneQueue ==
  \A c \in Clients, s \in Slots : \E u \in Users :
    /\ Awaits(Queues(c)[u], s, calls[c][s])
    /\ \A v \in Users \ {u} : Awaits(Queues(c)[v], s, IdleCall)

\* Has a user who is not signed in a write of this patient queued?
PendingAside(c, id) == \E u \in Users \ {user[c]} : Pending(aside[c][u], id)

(***************************************************************************)
(* What one device reads is what the server will hold once the queue of    *)
(* the user signed in is sent, but for the patients that another user's    *)
(* queue on this device still has a write for: the shared cache is right   *)
(* for everybody, although each queue may have been sent in part, its      *)
(* confirmations lost, and set aside.  No write is refused.                *)
(***************************************************************************)
SharedCacheCurrent ==
  \A c \in Clients :
    {d \in View(c) : ~PendingAside(c, d.id)}
      = {d \in Overlay(server, queue[c]) : ~PendingAside(c, d.id)}
=============================================================================
