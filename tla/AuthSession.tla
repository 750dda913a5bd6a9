---------------------------- MODULE AuthSession ----------------------------
(***************************************************************************)
(* Signing up, in and out: the authentication screen with its one call in  *)
(* flight, the session FirebaseAuth keeps on the device, the stream that   *)
(* tells the root widget which screen to show, and the two stores on the   *)
(* server that a sign-up writes one after the other: the accounts and the  *)
(* profiles (collection 'users').  An account is its email; its profile is *)
(* present or not.                                                         *)
(***************************************************************************)
EXTENDS Sequences, Naturals

CONSTANTS Devices,
          Accounts,   \* email addresses
          NoUser,     \* the null of currentUser and of the stream
          MayThrow,   \* can a call end with another error than FirebaseAuthException?
          MayReject   \* can the server refuse a profile for good?

ASSUME NoUserAssumption == NoUser \notin Accounts
ASSUME FaultsAssumption == MayThrow \in BOOLEAN /\ MayReject \in BOOLEAN

VARIABLES accounts,  \* on the server: the accounts there are
          profiles,  \* on the server: the accounts that have a document in 'users'
          user,      \* per device, currentUser, kept on disk
          online,    \* per device, does it reach the server?
          writes,    \* per device, queued profile writes, kept on disk
          events,    \* per device, what authStateChanges has still to deliver
          shown,     \* per device, the screen under the StreamBuilder
          form,      \* per device, isLogin and _isAuthenticating of the AuthScreen
          call       \* per device, the _submit in flight

serverVars == <<accounts, profiles>>
diskVars == <<user, writes>>
appVars == <<events, shown, form, call>>
vars == <<serverVars, diskVars, online, appVars>>

Users == Accounts \cup {NoUser}

(***************************************************************************)
(* A profile write is queued for the user signed in when set() is called   *)
(* and sent while that user is signed in.                                  *)
(***************************************************************************)
Write == [owner : Users, uid : Accounts]

(***************************************************************************)
(* A sign-up is created once the server has the account and answered once  *)
(* the native client has its answer, which Dart has still to be told.      *)
(***************************************************************************)
Stages == {"signingIn", "signingUp", "created", "answered"}
IdleCall == [stage |-> "idle", emails |-> {}]
Call == [stage : {"idle"} \cup Stages, emails : SUBSET Accounts]

FreshForm == [isLogin |-> TRUE, busy |-> FALSE]

TypeOK ==
  /\ accounts \in SUBSET Accounts
  /\ profiles \in SUBSET Accounts
  /\ user \in [Devices -> Users]
  /\ online \in [Devices -> BOOLEAN]
  /\ writes \in [Devices -> SUBSET Write]
  /\ events \in [Devices -> Seq(Users)]
  /\ shown \in [Devices -> {"splash", "home", "auth"}]
  /\ form \in [Devices -> [isLogin : BOOLEAN, busy : BOOLEAN]]
  /\ call \in [Devices -> Call]

\* A new installation: the stream begins with the user there is, none.
Init ==
  /\ accounts = {}
  /\ profiles = {}
  /\ user = [d \in Devices |-> NoUser]
  /\ online = [d \in Devices |-> TRUE]
  /\ writes = [d \in Devices |-> {}]
  /\ events = [d \in Devices |-> <<NoUser>>]
  /\ shown = [d \in Devices |-> "splash"]
  /\ form = [d \in Devices |-> FreshForm]
  /\ call = [d \in Devices |-> IdleCall]

\* currentUser changes and the stream will say so.
SetUser(d, u) ==
  /\ user' = [user EXCEPT ![d] = u]
  /\ events' = [events EXCEPT ![d] = Append(@, u)]

Advance(d, stage) == call' = [call EXCEPT ![d].stage = stage]
EndCall(d) == call' = [call EXCEPT ![d] = IdleCall]

----------------------------------------------------------------------------
(* The screens *)

\* Mutation: only the first value decides, as with a FutureBuilder.
DeliverFirstState(d) ==
  /\ events[d] # <<>>
  /\ events' = [events EXCEPT ![d] = Tail(@)]
  /\ IF shown[d] = "splash"
     THEN shown' = [shown EXCEPT ![d] = IF Head(events[d]) = NoUser THEN "auth" ELSE "home"]
     ELSE UNCHANGED shown
  /\ UNCHANGED <<serverVars, diskVars, online, form, call>>

\* The StreamBuilder replaces the AuthScreen, or builds a new one.
DeliverAuthState(d) ==
  /\ events[d] # <<>>
  /\ events' = [events EXCEPT ![d] = Tail(@)]
  /\ IF Head(events[d]) = NoUser
     THEN shown' = [shown EXCEPT ![d] = "auth"] /\ UNCHANGED form
     ELSE /\ shown' = [shown EXCEPT ![d] = "home"]
          /\ form' = [form EXCEPT ![d] = FreshForm]
  /\ UNCHANGED <<serverVars, diskVars, online, call>>

Toggle(d) ==
  /\ shown[d] = "auth"
  /\ ~form[d].busy
  /\ form' = [form EXCEPT ![d].isLogin = ~@]
  /\ UNCHANGED <<serverVars, diskVars, online, events, shown, call>>

\* _submit up to its request.  Bound: the call of an earlier screen is over.
Submit(d) ==
  /\ shown[d] = "auth"
  /\ ~form[d].busy
  /\ call[d].stage = "idle"
  /\ form' = [form EXCEPT ![d].busy = TRUE]
  /\ \E e \in Accounts :
       call' = [call EXCEPT ![d] =
         [stage |-> IF form[d].isLogin THEN "signingIn" ELSE "signingUp", emails |-> {e}]]
  /\ UNCHANGED <<serverVars, diskVars, online, events, shown>>

\* The logout button of the HomeScreen; without a user nothing changes.
SignOut(d) ==
  /\ shown[d] = "home"
  /\ user[d] # NoUser
  /\ SetUser(d, NoUser)
  /\ UNCHANGED <<serverVars, writes, online, shown, form, call>>

----------------------------------------------------------------------------
(* The call *)

\* signIn succeeds.  The busy flag stays: the stream will replace the screen.
SignedIn(d) ==
  /\ call[d].stage = "signingIn"
  /\ online[d]
  /\ \E e \in call[d].emails \cap accounts : SetUser(d, e)
  /\ EndCall(d)
  /\ UNCHANGED <<serverVars, writes, online, shown, form>>

\* Mutation: an account there is already counts as created.
CreateAccountAgain(d) ==
  /\ call[d].stage = "signingUp"
  /\ online[d]
  /\ accounts' = accounts \cup call[d].emails
  /\ Advance(d, "created")
  /\ UNCHANGED <<profiles, diskVars, online, events, shown, form>>

\* The server creates the account; the answer is on its way.
CreateAccount(d) ==
  /\ call[d].stage = "signingUp"
  /\ online[d]
  /\ call[d].emails \cap accounts = {}
  /\ accounts' = accounts \cup call[d].emails
  /\ Advance(d, "created")
  /\ UNCHANGED <<profiles, diskVars, online, events, shown, form>>

\* createUserWithEmailAndPassword signs the new user in.
CreateAnswered(d) ==
  /\ call[d].stage = "created"
  /\ online[d]
  /\ \E e \in call[d].emails : SetUser(d, e)
  /\ Advance(d, "answered")
  /\ UNCHANGED <<serverVars, writes, online, shown, form>>

\* Mutation: the profile is written only while the AuthScreen is mounted.
WriteProfileIfMounted(d) ==
  /\ call[d].stage = "answered"
  /\ writes' = IF shown[d] = "auth"
               THEN [writes EXCEPT ![d] = @ \cup [owner : {user[d]}, uid : call[d].emails]]
               ELSE writes
  /\ EndCall(d)
  /\ UNCHANGED <<serverVars, user, online, events, shown, form>>

\* Mutation: the profile is that of currentUser, not of the account created.
WriteProfileOfCurrent(d) ==
  /\ call[d].stage = "answered"
  /\ writes' = [writes EXCEPT ![d] = @ \cup [owner : {user[d]}, uid : {user[d]}]]
  /\ EndCall(d)
  /\ UNCHANGED <<serverVars, user, online, events, shown, form>>

\* _submit goes on with set(), also if its screen has been replaced.  What
\* becomes of that write, _submit leaves everything as it is.
WriteProfile(d) ==
  /\ call[d].stage = "answered"
  /\ writes' = [writes EXCEPT ![d] = @ \cup [owner : {user[d]}, uid : call[d].emails]]
  /\ EndCall(d)
  /\ UNCHANGED <<serverVars, user, online, events, shown, form>>

\* Mutation: the busy flag is not taken back.
SubmitFailsBusy(d) ==
  /\ call[d].stage \in {"signingIn", "signingUp", "created"}
  /\ EndCall(d)
  /\ UNCHANGED <<serverVars, diskVars, online, events, shown, form>>

\* A FirebaseAuthException: a wrong password, an email in use, no network, or
\* an answer that got lost after the account was created.
SubmitFails(d) ==
  /\ call[d].stage \in {"signingIn", "signingUp", "created"}
  /\ form' = [form EXCEPT ![d].busy = FALSE]
  /\ EndCall(d)
  /\ UNCHANGED <<serverVars, diskVars, online, events, shown>>

\* Any other error ends _submit with the busy flag set.
SubmitThrows(d) ==
  /\ MayThrow
  /\ call[d].stage \in {"signingIn", "signingUp", "created"}
  /\ EndCall(d)
  /\ UNCHANGED <<serverVars, diskVars, online, events, shown, form>>

----------------------------------------------------------------------------
(* The device *)

\* The queued writes of the user signed in; a signed-out device has its own.
Sendable(d) == {w \in writes[d] : w.owner = user[d]}

StoreProfile(d) ==
  /\ online[d]
  /\ \E w \in Sendable(d) :
       /\ profiles' = profiles \cup {w.uid}
       /\ writes' = [writes EXCEPT ![d] = @ \ {w}]
  /\ UNCHANGED <<accounts, user, online, appVars>>

\* The error reaches nobody: _submit only catches FirebaseAuthException.
RefuseProfile(d) ==
  /\ MayReject
  /\ online[d]
  /\ \E w \in Sendable(d) : writes' = [writes EXCEPT ![d] = @ \ {w}]
  /\ UNCHANGED <<serverVars, user, online, appVars>>

Network(d) ==
  /\ online' = [online EXCEPT ![d] = ~@]
  /\ UNCHANGED <<serverVars, diskVars, appVars>>

\* Mutation: the queue is lost with the app.
RestartForgetting(d) ==
  /\ events' = [events EXCEPT ![d] = <<user[d]>>]
  /\ shown' = [shown EXCEPT ![d] = "splash"]
  /\ form' = [form EXCEPT ![d] = FreshForm]
  /\ writes' = [writes EXCEPT ![d] = {}]
  /\ EndCall(d)
  /\ UNCHANGED <<serverVars, user, online>>

\* The app is killed and started again: the session and the queue are on disk.
Restart(d) ==
  /\ events' = [events EXCEPT ![d] = <<user[d]>>]
  /\ shown' = [shown EXCEPT ![d] = "splash"]
  /\ form' = [form EXCEPT ![d] = FreshForm]
  /\ EndCall(d)
  /\ UNCHANGED <<serverVars, diskVars, online>>

CallStep(d) ==
  \/ SignedIn(d) \/ CreateAccount(d) \/ CreateAnswered(d) \/ WriteProfile(d)
  \/ SubmitFails(d) \/ SubmitThrows(d)

WriteStep(d) == StoreProfile(d) \/ RefuseProfile(d)

Next ==
  \E d \in Devices :
    \/ DeliverAuthState(d) \/ Toggle(d) \/ Submit(d) \/ SignOut(d)
    \/ CallStep(d) \/ WriteStep(d) \/ Network(d) \/ Restart(d)

Spec == Init /\ [][Next]_vars

(***************************************************************************)
(* Streams deliver, calls are answered or fail, and a queued write of the  *)
(* signed-in user is sent if the device is online time and again.          *)
(***************************************************************************)
Fairness ==
  \A d \in Devices :
    WF_vars(DeliverAuthState(d)) /\ WF_vars(CallStep(d)) /\ SF_vars(WriteStep(d))

FairSpec == Spec /\ Fairness

----------------------------------------------------------------------------
(* Properties *)

\* A sign-up of e has written its profile, or still will.
Underway(e) ==
  \/ e \in profiles
  \/ \E d \in Devices : \E w \in writes[d] : w.uid = e
  \/ \E d \in Devices : call[d].stage \in {"created", "answered"} /\ e \in call[d].emails

(***************************************************************************)
(* What the user sees is the session: once the stream has delivered, the   *)
(* HomeScreen is shown exactly if somebody is signed in, however sign-ups, *)
(* sign-outs, late answers and restarts follow each other.                 *)
(***************************************************************************)
ShownMatchesUser ==
  \A d \in Devices :
    events[d] = <<>> => shown[d] = IF user[d] = NoUser THEN "auth" ELSE "home"

(***************************************************************************)
(* A sign-up that has created its account goes on to write the profile,    *)
(* also after the screen was replaced, the user signed out or the device   *)
(* went offline.  Only a lost answer, another error, the end of the app in *)
(* the middle or a refusal by the server cuts it off.                      *)
(***************************************************************************)
ProfileFollowsAccount ==
  [][\A e \in accounts' :
       e \notin accounts \/ Underway(e) =>
         \/ Underway(e)'
         \/ \E d \in Devices :
              SubmitFails(d) \/ SubmitThrows(d) \/ Restart(d) \/ RefuseProfile(d)]_vars

(***************************************************************************)
(* A sign-up that was cut off stays cut off: an account without a profile  *)
(* never gets one, neither by signing in nor by signing up again, on this  *)
(* device or another, so that getUserName answers null for ever.           *)
(***************************************************************************)
NoSecondSignUp ==
  [][\A e \in accounts : Underway(e)' => Underway(e)]_vars

(***************************************************************************)
(* The spinner that replaces the buttons goes away again, because the call *)
(* fails or because the stream replaces the screen.  (Not if a call ends   *)
(* with an error that is no FirebaseAuthException.)                        *)
(***************************************************************************)
SpinnerEnds == \A d \in Devices : form[d].busy ~> ~form[d].busy

(***************************************************************************)
(* Nobody waits at a spinner for nothing: while it turns, a call is under  *)
(* way whose failure takes it back, or the stream still has a user to      *)
(* deliver, whose screen replaces it, whatever sign-outs and restarts come *)
(* between.  (Again unless a call ends with another error.)                *)
(***************************************************************************)
SpinnerAwaited ==
  \A d \in Devices : form[d].busy =>
    \/ call[d].stage \in {"signingIn", "signingUp", "created"}
    \/ \E i \in DOMAIN events[d] : events[d][i] # NoUser

(***************************************************************************)
(* A queued profile reaches the server if the user it was queued for is    *)
(* signed in with a connection time and again, across restarts and with    *)
(* other users in between.                                                 *)
(***************************************************************************)
ProfileStored ==
  \A d \in Devices, u \in Users, e \in Accounts :
    []<>(online[d] /\ user[d] = u) =>
      ([owner |-> u, uid |-> e] \in writes[d] ~> e \in profiles)
=============================================================================
