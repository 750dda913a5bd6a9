------------------------- MODULE AuthSessionProofs --------------------------
(***************************************************************************)
(* Theorems about the session, for any number of devices and accounts.     *)
(***************************************************************************)
EXTENDS AuthSession, SequenceTheorems, TLAPS

(***************************************************************************)
(* What the stream has still to deliver ends with the user there is.       *)
(***************************************************************************)
StreamEndsWithUser ==
  \A d \in Devices :
    events[d] # <<>> => events[d][Len(events[d])] = user[d]

IInv == TypeOK /\ StreamEndsWithUser /\ ShownMatchesUser

----------------------------------------------------------------------------
(* Type correctness *)

\* The initial state is well typed.
LEMMA InitType ==
  ASSUME Init
  PROVE  TypeOK
  <1>1. <<NoUser>> \in Seq(Users)
    BY DEF Users
  <1>2. FreshForm \in [isLogin : BOOLEAN, busy : BOOLEAN] /\ IdleCall \in Call
    BY DEF FreshForm, IdleCall, Call
  <1> QED BY <1>1, <1>2 DEF Init, TypeOK, Users

\* A change of the signed-in user keeps the types of user and events.
LEMMA SetUserType ==
  ASSUME TypeOK, NEW d \in Devices, NEW u \in Users, SetUser(d, u)
  PROVE  /\ user' \in [Devices -> Users]
         /\ events' \in [Devices -> Seq(Users)]
         /\ user'[d] = u
         /\ events'[d] # <<>>
         /\ events'[d][Len(events'[d])] = u
         /\ \A e \in Devices \ {d} : user'[e] = user[e] /\ events'[e] = events[e]
  <1>1. events[d] \in Seq(Users)
    BY DEF TypeOK
  <1>2. Append(events[d], u) \in Seq(Users) /\ Len(Append(events[d], u)) = Len(events[d]) + 1
        /\ Append(events[d], u)[Len(events[d]) + 1] = u /\ Append(events[d], u) # <<>>
    BY <1>1
  <1> QED BY <1>1, <1>2 DEF SetUser, TypeOK

\* Every step keeps the types.
LEMMA StepType ==
  ASSUME TypeOK, [Next]_vars
  PROVE  TypeOK'
  <1>1. CASE UNCHANGED vars
    BY <1>1 DEF vars, serverVars, diskVars, appVars, TypeOK
  <1>2. ASSUME NEW d \in Devices,
               \/ DeliverAuthState(d) \/ Toggle(d) \/ Submit(d) \/ SignOut(d)
               \/ CallStep(d) \/ WriteStep(d) \/ Network(d) \/ Restart(d)
        PROVE  TypeOK'
    <2>1. IdleCall \in Call /\ call[d] \in Call
          /\ \A s \in Stages : [call[d] EXCEPT !.stage = s] \in Call
      BY DEF IdleCall, Call, TypeOK
    <2>2. FreshForm \in [isLogin : BOOLEAN, busy : BOOLEAN]
          /\ form[d] \in [isLogin : BOOLEAN, busy : BOOLEAN]
      BY DEF FreshForm, TypeOK
    <2>3. call[d].emails \subseteq Accounts /\ NoUser \in Users /\ Accounts \subseteq Users
          /\ user[d] \in Users
      BY <2>1 DEF Call, Users, TypeOK
    <2>4. CASE DeliverAuthState(d)
      <3>1. Tail(events[d]) \in Seq(Users)
        BY <2>4 DEF DeliverAuthState, TypeOK
      <3> QED BY <2>2, <2>4, <3>1 DEF DeliverAuthState, TypeOK, serverVars, diskVars
    <2>5. CASE Toggle(d)
      BY <2>2, <2>5 DEF Toggle, TypeOK, serverVars, diskVars
    <2>6. CASE Submit(d)
      <3>1. PICK e \in Accounts :
              call' = [call EXCEPT ![d] =
                [stage |-> IF form[d].isLogin THEN "signingIn" ELSE "signingUp", emails |-> {e}]]
        BY <2>6 DEF Submit
      <3>2. [stage |-> IF form[d].isLogin THEN "signingIn" ELSE "signingUp", emails |-> {e}] \in Call
        BY <2>2 DEF Call, Stages
      <3> QED BY <2>2, <2>6, <3>1, <3>2 DEF Submit, TypeOK, serverVars, diskVars
    <2>7. CASE SignOut(d)
      BY <2>3, <2>7, SetUserType DEF SignOut, TypeOK, serverVars
    <2>8. CASE SignedIn(d)
      <3>1. PICK e \in Accounts : SetUser(d, e)
        BY <2>3, <2>8 DEF SignedIn
      <3> QED BY <2>1, <2>3, <2>8, <3>1, SetUserType DEF SignedIn, EndCall, TypeOK, serverVars
    <2>9. CASE CreateAccount(d)
      BY <2>1, <2>3, <2>9 DEF CreateAccount, Advance, Stages, TypeOK, diskVars
    <2>10. CASE CreateAnswered(d)
      <3>1. PICK e \in Accounts : SetUser(d, e)
        BY <2>3, <2>10 DEF CreateAnswered
      <3> QED BY <2>1, <2>3, <2>10, <3>1, SetUserType
              DEF CreateAnswered, Advance, Stages, TypeOK, serverVars
    <2>11. CASE WriteProfile(d)
      <3>1. [owner : {user[d]}, uid : call[d].emails] \subseteq Write
        BY <2>3 DEF Write
      <3> QED BY <2>1, <2>11, <3>1 DEF WriteProfile, EndCall, TypeOK, serverVars
    <2>12. CASE SubmitFails(d)
      BY <2>1, <2>2, <2>12 DEF SubmitFails, EndCall, TypeOK, serverVars, diskVars
    <2>13. CASE SubmitThrows(d)
      BY <2>1, <2>13 DEF SubmitThrows, EndCall, TypeOK, serverVars, diskVars
    <2>14. CASE StoreProfile(d)
      BY <2>14 DEF StoreProfile, Sendable, Write, TypeOK, appVars
    <2>15. CASE RefuseProfile(d)
      BY <2>15 DEF RefuseProfile, TypeOK, serverVars, appVars
    <2>16. CASE Network(d)
      BY <2>16 DEF Network, TypeOK, serverVars, diskVars, appVars
    <2>17. CASE Restart(d)
      <3>1. <<user[d]>> \in Seq(Users)
        BY <2>3
      <3> QED BY <2>1, <2>2, <2>17, <3>1 DEF Restart, EndCall, TypeOK, serverVars, diskVars
    <2> QED BY <1>2, <2>4, <2>5, <2>6, <2>7, <2>8, <2>9, <2>10, <2>11, <2>12, <2>13,
               <2>14, <2>15, <2>16, <2>17 DEF CallStep, WriteStep
  <1> QED BY <1>1, <1>2 DEF Next

----------------------------------------------------------------------------
(* What the user sees *)

\* The invariant of the session holds at first.
LEMMA InitIInv ==
  ASSUME Init
  PROVE  IInv
  BY InitType DEF Init, IInv, StreamEndsWithUser, ShownMatchesUser

\* Only four steps touch the session, the stream or the screen shown.
LEMMA SessionSteps ==
  ASSUME IInv, [Next]_vars
  PROVE  \/ UNCHANGED <<user, events, shown>>
         \/ \E d \in Devices :
              \/ DeliverAuthState(d)
              \/ Restart(d)
              \/ UNCHANGED shown /\ \E u \in Users : SetUser(d, u)
  <1>1. CASE UNCHANGED vars
    BY <1>1 DEF vars, diskVars, appVars
  <1>2. ASSUME NEW d \in Devices, SignedIn(d) \/ CreateAnswered(d)
        PROVE  UNCHANGED shown /\ \E u \in Users : SetUser(d, u)
    <2>1. call[d].emails \subseteq Users
      BY DEF IInv, TypeOK, Call, Users
    <2> QED BY <1>2, <2>1 DEF SignedIn, CreateAnswered
  <1>3. ASSUME NEW d \in Devices, SignOut(d)
        PROVE  UNCHANGED shown /\ \E u \in Users : SetUser(d, u)
    BY <1>3 DEF SignOut, Users
  <1>4. ASSUME NEW d \in Devices,
               \/ Toggle(d) \/ Submit(d) \/ CreateAccount(d) \/ WriteProfile(d)
               \/ SubmitFails(d) \/ SubmitThrows(d) \/ WriteStep(d) \/ Network(d)
        PROVE  UNCHANGED <<user, events, shown>>
    BY <1>4 DEF Toggle, Submit, CreateAccount, WriteProfile, SubmitFails, SubmitThrows,
                WriteStep, StoreProfile, RefuseProfile, Network, diskVars, appVars
  <1> QED BY <1>1, <1>2, <1>3, <1>4 DEF Next, CallStep

\* The last of a sequence is its head if nothing follows the head.
LEMMA LastOne ==
  ASSUME NEW S, NEW q \in Seq(S), q # <<>>, Tail(q) = <<>>
  PROVE  Head(q) = q[Len(q)]
  <1>1. Len(Tail(q)) = Len(q) - 1 /\ Len(q) \in Nat
    BY HeadTailProperties
  <1>2. Len(Tail(q)) = 0
    BY EmptySeq
  <1>3. Len(q) = 1
    BY <1>1, <1>2
  <1> QED BY <1>3

\* Every step keeps it.
LEMMA StepIInv ==
  ASSUME IInv, [Next]_vars
  PROVE  IInv'
  <1> USE DEF StreamEndsWithUser, ShownMatchesUser
  <1>1. TypeOK'
    BY StepType DEF IInv
  <1>2. CASE UNCHANGED <<user, events, shown>>
    BY <1>1, <1>2 DEF IInv
  <1>3. ASSUME NEW d \in Devices, DeliverAuthState(d)
        PROVE  StreamEndsWithUser' /\ ShownMatchesUser'
    <2> DEFINE q == events[d]
    <2>1. q \in Seq(Users) /\ q # <<>> /\ Len(q) \in Nat \ {0} /\ q[Len(q)] = user[d]
      BY <1>3 DEF IInv, TypeOK, DeliverAuthState
    <2>2. /\ events' = [events EXCEPT ![d] = Tail(q)]
          /\ shown' = [shown EXCEPT ![d] = IF Head(q) = NoUser THEN "auth" ELSE "home"]
          /\ user' = user
      BY <1>3 DEF DeliverAuthState, diskVars
    <2>3. events \in [Devices -> Seq(Users)] /\ shown \in [Devices -> {"splash", "home", "auth"}]
      BY DEF IInv, TypeOK
    <2>4. Tail(q) # <<>> => Tail(q)[Len(Tail(q))] = q[Len(q)]
      BY <2>1
    <2>5. ASSUME Tail(q) = <<>> PROVE Head(q) = q[Len(q)]
      BY <2>1, <2>5, LastOne
    <2> HIDE DEF q
    <2>6. ASSUME NEW e \in Devices
          PROVE  /\ events'[e] # <<>> => events'[e][Len(events'[e])] = user'[e]
                 /\ events'[e] = <<>> => shown'[e] = IF user'[e] = NoUser THEN "auth" ELSE "home"
      <3>1. CASE e = d
        BY <2>1, <2>2, <2>3, <2>4, <2>5, <3>1
      <3>2. CASE e # d
        <4>1. events'[e] = events[e] /\ shown'[e] = shown[e] /\ user'[e] = user[e]
          BY <2>2, <2>3, <3>2
        <4> QED BY <4>1 DEF IInv
      <3> QED BY <3>1, <3>2
    <2> QED BY <2>6
  <1>4. ASSUME NEW d \in Devices, Restart(d)
        PROVE  StreamEndsWithUser' /\ ShownMatchesUser'
    <2>1. /\ events' = [events EXCEPT ![d] = <<user[d]>>]
          /\ shown' = [shown EXCEPT ![d] = "splash"]
          /\ user' = user
          /\ events \in [Devices -> Seq(Users)]
          /\ shown \in [Devices -> {"splash", "home", "auth"}]
      BY <1>4 DEF Restart, diskVars, IInv, TypeOK
    <2>2. ASSUME NEW e \in Devices
          PROVE  /\ events'[e] # <<>> => events'[e][Len(events'[e])] = user'[e]
                 /\ events'[e] = <<>> => shown'[e] = IF user'[e] = NoUser THEN "auth" ELSE "home"
      <3>1. CASE e = d
        BY <2>1, <3>1
      <3>2. CASE e # d
        <4>1. events'[e] = events[e] /\ shown'[e] = shown[e] /\ user'[e] = user[e]
          BY <2>1, <3>2
        <4> QED BY <4>1 DEF IInv
      <3> QED BY <3>1, <3>2
    <2> QED BY <2>2
  <1>5. ASSUME NEW d \in Devices, NEW u \in Users, SetUser(d, u), UNCHANGED shown
        PROVE  StreamEndsWithUser' /\ ShownMatchesUser'
    <2>1. /\ user'[d] = u /\ events'[d] # <<>> /\ events'[d][Len(events'[d])] = u
          /\ \A e \in Devices \ {d} : user'[e] = user[e] /\ events'[e] = events[e]
      BY <1>5, SetUserType DEF IInv
    <2>2. ASSUME NEW e \in Devices
          PROVE  /\ events'[e] # <<>> => events'[e][Len(events'[e])] = user'[e]
                 /\ events'[e] = <<>> => shown'[e] = IF user'[e] = NoUser THEN "auth" ELSE "home"
      <3>1. CASE e = d
        BY <2>1, <3>1
      <3>2. CASE e # d
        <4>1. events'[e] = events[e] /\ shown'[e] = shown[e] /\ user'[e] = user[e]
          BY <1>5, <2>1, <3>2
        <4> QED BY <4>1 DEF IInv
      <3> QED BY <3>1, <3>2
    <2> QED BY <2>2
  <1> QED BY <1>1, <1>2, <1>3, <1>4, <1>5, SessionSteps DEF IInv

----------------------------------------------------------------------------
(* The theorems *)

\* The types of the session are kept.
THEOREM SessionTypeCorrect == Spec => []TypeOK
  BY InitType, StepType, PTL DEF Spec

(***************************************************************************)
(* The screen follows the session on any number of devices.                *)
(***************************************************************************)
THEOREM ScreenFollowsSession == Spec => []ShownMatchesUser
  <1>1. IInv => ShownMatchesUser
    BY DEF IInv
  <1> QED BY <1>1, InitIInv, StepIInv, PTL DEF Spec

\* The steps of a device that can begin or end the way to a profile.
LEMMA UnderwaySteps ==
  ASSUME TypeOK, [Next]_vars
  PROVE  \/ UNCHANGED <<accounts, profiles, writes>> /\
            \E d \in Devices : \E c : 
              /\ call' = [call EXCEPT ![d] = c]
              /\ call[d].stage \notin {"created", "answered"}
              /\ c.stage \notin {"created", "answered"}
         \/ UNCHANGED <<accounts, profiles, writes, call>>
         \/ \E d \in Devices :
              \/ CreateAccount(d) \/ CreateAnswered(d) \/ WriteProfile(d) \/ StoreProfile(d)
              \/ SubmitFails(d) \/ SubmitThrows(d) \/ Restart(d) \/ RefuseProfile(d)
  <1>1. CASE UNCHANGED vars
    BY <1>1 DEF vars, serverVars, diskVars, appVars
  <1>2. ASSUME NEW d \in Devices,
               DeliverAuthState(d) \/ Toggle(d) \/ SignOut(d) \/ Network(d)
        PROVE  UNCHANGED <<accounts, profiles, writes, call>>
    BY <1>2 DEF DeliverAuthState, Toggle, SignOut, Network, serverVars, diskVars, appVars
  <1>3. ASSUME NEW d \in Devices, Submit(d)
        PROVE  /\ UNCHANGED <<accounts, profiles, writes>>
               /\ \E c : /\ call' = [call EXCEPT ![d] = c]
                         /\ call[d].stage \notin {"created", "answered"}
                         /\ c.stage \notin {"created", "answered"}
    <2>1. PICK e \in Accounts :
            call' = [call EXCEPT ![d] =
              [stage |-> IF form[d].isLogin THEN "signingIn" ELSE "signingUp", emails |-> {e}]]
      BY <1>3 DEF Submit
    <2>2. [stage |-> IF form[d].isLogin THEN "signingIn" ELSE "signingUp", emails |-> {e}].stage
            \notin {"created", "answered"}
      OBVIOUS
    <2>3. call[d].stage = "idle" /\ UNCHANGED <<accounts, profiles, writes>>
      BY <1>3 DEF Submit, serverVars, diskVars
    <2> QED BY <2>1, <2>2, <2>3
  <1>4. ASSUME NEW d \in Devices, SignedIn(d)
        PROVE  /\ UNCHANGED <<accounts, profiles, writes>>
               /\ \E c : /\ call' = [call EXCEPT ![d] = c]
                         /\ call[d].stage \notin {"created", "answered"}
                         /\ c.stage \notin {"created", "answered"}
    <2>1. /\ UNCHANGED <<accounts, profiles, writes>>
          /\ call' = [call EXCEPT ![d] = IdleCall]
          /\ call[d].stage = "signingIn"
      BY <1>4 DEF SignedIn, EndCall, serverVars
    <2>2. IdleCall.stage = "idle"
      BY DEF IdleCall
    <2> QED BY <2>1, <2>2
  <1> QED BY <1>1, <1>2, <1>3, <1>4 DEF Next, CallStep, WriteStep

\* Whatever a device does to its own call, the calls of the others stay.
LEMMA OtherCalls ==
  ASSUME TypeOK, NEW d \in Devices, NEW c, call' = [call EXCEPT ![d] = c], NEW e
  PROVE  /\ call'[d] = c
         /\ \A b \in Devices \ {d} : call'[b] = call[b]
  BY DEF TypeOK

\* The writes of the other devices stay as they are.
LEMMA OtherWrites ==
  ASSUME TypeOK, NEW d \in Devices, NEW W, writes' = [writes EXCEPT ![d] = W]
  PROVE  writes'[d] = W /\ \A b \in Devices \ {d} : writes'[b] = writes[b]
  BY DEF TypeOK

\* A sign-up under way stays under way, unless one of four steps cuts it off.
LEMMA ProfileStep ==
  ASSUME TypeOK, [Next]_vars, NEW e \in accounts', e \notin accounts \/ Underway(e)
  PROVE  \/ Underway(e)'
         \/ \E d \in Devices :
              SubmitFails(d) \/ SubmitThrows(d) \/ Restart(d) \/ RefuseProfile(d)
  <1>1. CASE UNCHANGED <<accounts, profiles, writes, call>>
    BY <1>1 DEF Underway
  <1>2. ASSUME UNCHANGED <<accounts, profiles, writes>>, NEW d \in Devices, NEW c,
               call' = [call EXCEPT ![d] = c],
               call[d].stage \notin {"created", "answered"}
        PROVE  Underway(e)'
    BY <1>2, OtherCalls DEF Underway
  <1>3. ASSUME NEW d \in Devices, CreateAccount(d) PROVE Underway(e)'
    <2>1. /\ accounts' = accounts \cup call[d].emails
          /\ call' = [call EXCEPT ![d].stage = "created"]
          /\ UNCHANGED <<profiles, writes>>
          /\ call[d].stage = "signingUp"
      BY <1>3 DEF CreateAccount, Advance, diskVars
    <2>2. call'[d].stage = "created" /\ call'[d].emails = call[d].emails
          /\ \A b \in Devices \ {d} : call'[b] = call[b]
      BY <2>1 DEF TypeOK, Call
    <2> QED BY <2>1, <2>2 DEF Underway
  <1>4. ASSUME NEW d \in Devices, CreateAnswered(d) PROVE Underway(e)'
    <2>1. /\ UNCHANGED <<accounts, profiles, writes>>
          /\ call' = [call EXCEPT ![d].stage = "answered"]
      BY <1>4 DEF CreateAnswered, Advance, serverVars
    <2>2. call'[d].stage = "answered" /\ call'[d].emails = call[d].emails
          /\ \A b \in Devices \ {d} : call'[b] = call[b]
      BY <2>1 DEF TypeOK, Call
    <2> QED BY <2>1, <2>2 DEF Underway
  <1>5. ASSUME NEW d \in Devices, WriteProfile(d) PROVE Underway(e)'
    <2>1. /\ UNCHANGED <<accounts, profiles>>
          /\ call' = [call EXCEPT ![d] = IdleCall]
          /\ writes' = [writes EXCEPT ![d] =
               writes[d] \cup [owner : {user[d]}, uid : call[d].emails]]
      BY <1>5 DEF WriteProfile, EndCall, serverVars
    <2>2. \A b \in Devices : writes[b] \subseteq writes'[b]
      BY <2>1, OtherWrites
    <2>3. CASE e \in call[d].emails
      <3>1. [owner |-> user[d], uid |-> e] \in [owner : {user[d]}, uid : call[d].emails]
        BY <2>3
      <3>2. writes'[d] = writes[d] \cup [owner : {user[d]}, uid : call[d].emails]
        BY <2>1, OtherWrites
      <3> DEFINE w == [owner |-> user[d], uid |-> e]
      <3>3. w \in writes'[d] /\ w.uid = e
        BY <3>1, <3>2
      <3> HIDE DEF w
      <3> QED BY <3>3 DEF Underway
    <2>4. CASE e \notin call[d].emails
      BY <2>1, <2>2, <2>4, OtherCalls DEF Underway
    <2> QED BY <2>3, <2>4
  <1>6. ASSUME NEW d \in Devices, StoreProfile(d) PROVE Underway(e)'
    <2>1. PICK w \in Sendable(d) :
            profiles' = profiles \cup {w.uid} /\ writes' = [writes EXCEPT ![d] = writes[d] \ {w}]
      BY <1>6 DEF StoreProfile
    <2>2. UNCHANGED <<accounts, call>>
      BY <1>6 DEF StoreProfile, appVars
    <2> QED BY <2>1, <2>2, OtherWrites DEF Underway
  <1> QED BY <1>1, <1>2, <1>3, <1>4, <1>5, <1>6, UnderwaySteps

\* No step puts the sign-up of an existing account under way.
LEMMA NoSecondStep ==
  ASSUME TypeOK, [Next]_vars, NEW e \in accounts, Underway(e)'
  PROVE  Underway(e)
  <1>1. CASE UNCHANGED <<accounts, profiles, writes, call>>
    BY <1>1 DEF Underway
  <1>2. ASSUME UNCHANGED <<accounts, profiles, writes>>, NEW d \in Devices, NEW c,
               call' = [call EXCEPT ![d] = c], c.stage \notin {"created", "answered"}
        PROVE  Underway(e)
    BY <1>2, OtherCalls DEF Underway
  <1>3. ASSUME NEW d \in Devices, CreateAccount(d) PROVE Underway(e)
    <2>1. /\ call' = [call EXCEPT ![d].stage = "created"]
          /\ UNCHANGED <<profiles, writes>>
          /\ e \notin call[d].emails
      BY <1>3 DEF CreateAccount, Advance, diskVars
    <2>2. call'[d].emails = call[d].emails /\ \A b \in Devices \ {d} : call'[b] = call[b]
      BY <2>1 DEF TypeOK, Call
    <2> QED BY <2>1, <2>2 DEF Underway
  <1>4. ASSUME NEW d \in Devices, CreateAnswered(d) PROVE Underway(e)
    <2>1. /\ UNCHANGED <<accounts, profiles, writes>>
          /\ call' = [call EXCEPT ![d].stage = "answered"]
          /\ call[d].stage = "created"
      BY <1>4 DEF CreateAnswered, Advance, serverVars
    <2>2. call'[d].emails = call[d].emails /\ \A b \in Devices \ {d} : call'[b] = call[b]
      BY <2>1 DEF TypeOK, Call
    <2> QED BY <2>1, <2>2 DEF Underway
  <1>5. ASSUME NEW d \in Devices, WriteProfile(d) PROVE Underway(e)
    <2>1. /\ UNCHANGED profiles
          /\ call[d].stage = "answered"
          /\ call' = [call EXCEPT ![d] = IdleCall]
          /\ writes' = [writes EXCEPT ![d] =
               writes[d] \cup [owner : {user[d]}, uid : call[d].emails]]
      BY <1>5 DEF WriteProfile, EndCall, serverVars
    <2>2. IdleCall.stage = "idle"
      BY DEF IdleCall
    <2>3. CASE e \in call[d].emails
      BY <2>1, <2>3 DEF Underway
    <2>4. CASE e \notin call[d].emails
      <3>1. \A w \in writes'[d] : w.uid = e => w \in writes[d]
        BY <2>1, <2>4, OtherWrites
      <3> QED BY <2>1, <2>2, <3>1, OtherWrites, OtherCalls DEF Underway
    <2> QED BY <2>3, <2>4
  <1>6. ASSUME NEW d \in Devices, StoreProfile(d) PROVE Underway(e)
    <2>1. PICK w \in Sendable(d) :
            profiles' = profiles \cup {w.uid} /\ writes' = [writes EXCEPT ![d] = writes[d] \ {w}]
      BY <1>6 DEF StoreProfile
    <2>2. UNCHANGED <<accounts, call>>
      BY <1>6 DEF StoreProfile, appVars
    <2>3. w \in writes[d]
      BY DEF Sendable
    <2> QED BY <2>1, <2>2, <2>3, OtherWrites DEF Underway
  <1>7. ASSUME NEW d \in Devices, SubmitFails(d) \/ SubmitThrows(d) \/ Restart(d)
        PROVE  Underway(e)
    <2>1. UNCHANGED <<profiles, writes>> /\ call' = [call EXCEPT ![d] = IdleCall]
      BY <1>7 DEF SubmitFails, SubmitThrows, Restart, EndCall, serverVars, diskVars
    <2>2. IdleCall.stage = "idle"
      BY DEF IdleCall
    <2> QED BY <2>1, <2>2, OtherCalls DEF Underway
  <1>8. ASSUME NEW d \in Devices, RefuseProfile(d) PROVE Underway(e)
    <2>1. PICK w : writes' = [writes EXCEPT ![d] = writes[d] \ {w}]
      BY <1>8 DEF RefuseProfile
    <2>2. UNCHANGED <<profiles, call>>
      BY <1>8 DEF RefuseProfile, serverVars, appVars
    <2> QED BY <2>1, <2>2, OtherWrites DEF Underway
  <1> QED BY <1>1, <1>2, <1>3, <1>4, <1>5, <1>6, <1>7, <1>8, UnderwaySteps

(***************************************************************************)
(* On any number of devices only a lost answer, another error, a restart   *)
(* or a refusal keeps a created account from getting its profile.          *)
(***************************************************************************)
THEOREM SignUpsComplete == Spec => ProfileFollowsAccount
  <1>1. TypeOK /\ [Next]_vars =>
          [\A e \in accounts' :
             e \notin accounts \/ Underway(e) =>
               \/ Underway(e)'
               \/ \E d \in Devices :
                    SubmitFails(d) \/ SubmitThrows(d) \/ Restart(d) \/ RefuseProfile(d)]_vars
    BY ProfileStep
  <1> QED BY <1>1, SessionTypeCorrect, PTL DEF Spec, ProfileFollowsAccount

(***************************************************************************)
(* On any number of devices an account that has lost the way to its        *)
(* profile never finds it again.                                           *)
(***************************************************************************)
THEOREM CutOffForGood == Spec => NoSecondSignUp
  <1>1. TypeOK /\ [Next]_vars => [\A e \in accounts : Underway(e)' => Underway(e)]_vars
    BY NoSecondStep
  <1> QED BY <1>1, SessionTypeCorrect, PTL DEF Spec, NoSecondSignUp

----------------------------------------------------------------------------
(* The spinner *)

\* A stream that still delivers a user does so after its head, if that is none,
\* and when more is to follow.
LEMMA UserToCome ==
  ASSUME NEW q \in Seq(Users), NEW i \in DOMAIN q, q[i] # NoUser
  PROVE  /\ Head(q) = NoUser => \E j \in DOMAIN Tail(q) : Tail(q)[j] # NoUser
         /\ \A u \in Users : \E j \in DOMAIN Append(q, u) : Append(q, u)[j] # NoUser
  <1>1. ASSUME Head(q) = NoUser
        PROVE  \E j \in DOMAIN Tail(q) : Tail(q)[j] # NoUser
    <2>1. i \in 1 .. Len(q) /\ Head(q) = q[1] /\ i # 1
      BY <1>1
    <2>2. i - 1 \in DOMAIN Tail(q) /\ Tail(q)[i - 1] = q[(i - 1) + 1]
      BY <2>1
    <2>3. Tail(q)[i - 1] # NoUser
      BY <2>1, <2>2
    <2> QED BY <2>2, <2>3
  <1>2. ASSUME NEW u \in Users
        PROVE  \E j \in DOMAIN Append(q, u) : Append(q, u)[j] # NoUser
    <2>1. i \in DOMAIN Append(q, u) /\ Append(q, u)[i] = q[i]
      OBVIOUS
    <2> QED BY <2>1
  <1> QED BY <1>1, <1>2

\* What makes the spinner of one device go away.
Awaited(busy, stage, q) ==
  busy => \/ stage \in {"signingIn", "signingUp", "created"}
          \/ \E i \in DOMAIN q : q[i] # NoUser

\* A step that leaves all devices but d alone.
LEMMA SpinnerStep ==
  ASSUME TypeOK, SpinnerAwaited, NEW d \in Devices,
         \A e \in Devices \ {d} :
           /\ form'[e].busy = form[e].busy
           /\ call'[e].stage = call[e].stage
           /\ events'[e] = events[e],
         Awaited(form'[d].busy, call'[d].stage, events'[d])
  PROVE  SpinnerAwaited'
  BY DEF SpinnerAwaited, Awaited

\* The steps of the screen and the stream.
LEMMA ScreenSpinner ==
  ASSUME TypeOK, SpinnerAwaited, NEW d \in Devices,
         DeliverAuthState(d) \/ Toggle(d) \/ Submit(d) \/ SignOut(d) \/ Restart(d)
  PROVE  SpinnerAwaited'
  <1>1. /\ Awaited(form[d].busy, call[d].stage, events[d])
        /\ events[d] \in Seq(Users)
        /\ form[d] \in [isLogin : BOOLEAN, busy : BOOLEAN] /\ call[d] \in Call
        /\ ~FreshForm.busy
    BY DEF SpinnerAwaited, Awaited, TypeOK, FreshForm
  <1>2. CASE DeliverAuthState(d)
    <2>1. /\ events'[d] = Tail(events[d]) /\ call' = call
          /\ form'[d] = IF Head(events[d]) = NoUser THEN form[d] ELSE FreshForm
          /\ \A e \in Devices \ {d} : form'[e] = form[e] /\ events'[e] = events[e]
      BY <1>2 DEF DeliverAuthState, TypeOK
    <2>2. Awaited(form'[d].busy, call'[d].stage, events'[d])
      BY <1>1, <2>1, UserToCome DEF Awaited
    <2> QED BY <2>1, <2>2, SpinnerStep
  <1>3. CASE Toggle(d)
    <2>1. /\ form'[d].busy = form[d].busy /\ UNCHANGED <<events, call>>
          /\ \A e \in Devices \ {d} : form'[e] = form[e]
      BY <1>3 DEF Toggle, TypeOK
    <2> QED BY <1>1, <2>1, SpinnerStep
  <1>4. CASE Submit(d)
    <2>1. PICK a \in Accounts :
            call' = [call EXCEPT ![d] =
              [stage |-> IF form[d].isLogin THEN "signingIn" ELSE "signingUp", emails |-> {a}]]
      BY <1>4 DEF Submit
    <2>2. /\ call'[d].stage \in {"signingIn", "signingUp"} /\ events' = events
          /\ \A e \in Devices \ {d} : form'[e] = form[e] /\ call'[e] = call[e]
      BY <1>4, <2>1 DEF Submit, TypeOK
    <2> QED BY <2>2, SpinnerStep DEF Awaited
  <1>5. CASE SignOut(d)
    <2>1. /\ events'[d] = Append(events[d], NoUser) /\ UNCHANGED <<form, call>>
          /\ \A e \in Devices \ {d} : events'[e] = events[e]
      BY <1>5 DEF SignOut, SetUser, TypeOK
    <2>2. NoUser \in Users
      BY DEF Users
    <2>3. Awaited(form'[d].busy, call'[d].stage, events'[d])
      BY <1>1, <2>1, <2>2, UserToCome DEF Awaited
    <2> QED BY <2>1, <2>3, SpinnerStep
  <1>6. CASE Restart(d)
    <2>1. /\ form'[d] = FreshForm
          /\ \A e \in Devices \ {d} :
               form'[e] = form[e] /\ call'[e] = call[e] /\ events'[e] = events[e]
      BY <1>6 DEF Restart, EndCall, TypeOK
    <2> QED BY <1>1, <2>1, SpinnerStep DEF Awaited
  <1> QED BY <1>2, <1>3, <1>4, <1>5, <1>6

\* The steps of the call: an answer gives the stream a user, a failure takes
\* the spinner back.
LEMMA CallSpinner ==
  ASSUME TypeOK, SpinnerAwaited, ~MayThrow, NEW d \in Devices, CallStep(d)
  PROVE  SpinnerAwaited'
  <1>1. /\ Awaited(form[d].busy, call[d].stage, events[d])
        /\ events[d] \in Seq(Users)
        /\ form[d] \in [isLogin : BOOLEAN, busy : BOOLEAN] /\ call[d] \in Call
    BY DEF SpinnerAwaited, Awaited, TypeOK
  <1>2. CASE SignedIn(d) \/ CreateAnswered(d)
    <2>1. PICK u \in call[d].emails : SetUser(d, u)
      BY <1>2 DEF SignedIn, CreateAnswered
    <2>2. u \in Users /\ u # NoUser
      BY <1>1, <2>1, NoUserAssumption DEF Call, Users
    <2>3. /\ events'[d] = Append(events[d], u) /\ form' = form
          /\ \A e \in Devices \ {d} : events'[e] = events[e] /\ call'[e] = call[e]
      BY <1>2, <2>1 DEF SignedIn, CreateAnswered, SetUser, EndCall, Advance, TypeOK
    <2>4. \E i \in DOMAIN events'[d] : events'[d][i] # NoUser
      <3>1. /\ Len(events[d]) + 1 \in DOMAIN Append(events[d], u)
            /\ Append(events[d], u)[Len(events[d]) + 1] = u
        BY <1>1, <2>2
      <3> QED BY <2>2, <2>3, <3>1
    <2> QED BY <2>3, <2>4, SpinnerStep DEF Awaited
  <1>3. CASE CreateAccount(d)
    <2>1. /\ call'[d].stage = "created" /\ UNCHANGED <<form, events>>
          /\ \A e \in Devices \ {d} : call'[e] = call[e]
      BY <1>1, <1>3 DEF CreateAccount, Advance, TypeOK, Call
    <2> QED BY <2>1, SpinnerStep DEF Awaited
  <1>4. CASE WriteProfile(d)
    <2>1. /\ call[d].stage = "answered" /\ UNCHANGED <<form, events>>
          /\ \A e \in Devices \ {d} : call'[e] = call[e]
      BY <1>4 DEF WriteProfile, EndCall, TypeOK
    <2>2. Awaited(form'[d].busy, call'[d].stage, events'[d])
      BY <1>1, <2>1 DEF Awaited
    <2> QED BY <2>1, <2>2, SpinnerStep
  <1>5. CASE SubmitFails(d)
    <2>1. /\ ~form'[d].busy /\ events' = events
          /\ \A e \in Devices \ {d} : form'[e] = form[e] /\ call'[e] = call[e]
      BY <1>1, <1>5 DEF SubmitFails, EndCall, TypeOK
    <2> QED BY <2>1, SpinnerStep DEF Awaited
  <1> QED BY <1>2, <1>3, <1>4, <1>5 DEF CallStep, SubmitThrows

(***************************************************************************)
(* While every failure of a call is a FirebaseAuthException a spinner has  *)
(* always something that will end it, on any number of devices.            *)
(***************************************************************************)
THEOREM SpinnersAwaited ==
  ASSUME ~MayThrow
  PROVE  Spec => []SpinnerAwaited
  <1>1. Init => SpinnerAwaited
    BY DEF Init, SpinnerAwaited, FreshForm
  <1>2. IInv /\ SpinnerAwaited /\ [Next]_vars => SpinnerAwaited'
    <2>1. ASSUME SpinnerAwaited, UNCHANGED <<form, call, events>> PROVE SpinnerAwaited'
      BY <2>1 DEF SpinnerAwaited
    <2>2. CASE UNCHANGED vars
      BY <2>1, <2>2 DEF vars, appVars
    <2>3. ASSUME NEW d \in Devices, WriteStep(d) \/ Network(d)
          PROVE  UNCHANGED <<form, call, events>>
      BY <2>3 DEF WriteStep, StoreProfile, RefuseProfile, Network, appVars
    <2> QED BY <2>1, <2>2, <2>3, ScreenSpinner, CallSpinner DEF Next, IInv
  <1> QED BY <1>1, <1>2, InitIInv, StepIInv, PTL DEF Spec
=============================================================================
