# Verification of the clinic app

This directory holds TLA+ specifications of the app in `src/lib` (Flutter,
Riverpod, Cloud Firestore, Firebase Auth), the TLC configurations that check
them, and proofs checked by TLAPS. The app keeps the patients and the staff of
an Ayurvedic clinic. Several people use it at once, on phones that are
sometimes offline, over one Firestore database.

## 1. Inventory

| Part | State | Operations | Code |
|---|---|---|---|
| Patient record | a patient; its map in Firestore | `toJson`, `fromMap` | `lib/patients/models/patient.dart` |
| Patient provider | the list shown (`StateNotifier<List<Patient>>`) | `addPatients` (load 25), `addPatient`, `updatePatient`, `removePatient`, `generateId`, `upsertPatientToFireStore` | `lib/patients/providers/patient_provider.dart` |
| Patient screens | route on top, form fields, the patient a screen was built with | open form, open details, edit, save, delete, back | `lib/patients/screens`, `lib/patients/widgets` |
| Firestore client | cache of server documents, queue of local mutations, connection; all but the connection on disk | `get`, `set`, `delete`; acknowledgement, rejection, reconnection | vendored, `ios/Pods/FirebaseFirestore` |
| Firestore server | the documents | applies writes, answers queries | not in the repository |
| Authentication | signed-in user, busy flag, profile in `users/uid` | sign in, sign up, sign out, `getUserName` | `lib/authentication` |
| Home, start, routing | selected tab; splash, auth or home | mount (loads the patients), sign out | `lib/main.dart`, `lib/utilities/home_screen.dart` |
| Doctors | list of staff | as the patients' provider; no screen deletes | `lib/users` |
| Appointments | slot length of a sample calendar | choose a slot length | `lib/appointments` |
| Rest | none | therapists stub, unused image picker, splash, generated options, template test, platform runners | |

How they interact. A screen calls a method of a provider and awaits it. The
provider awaits Firestore. Between two awaits anything else may run: another
tap, the answer of an earlier load, a navigation that disposes of the screen, a
lost connection, another device. `set()` and `delete()` take effect locally at
once; their futures complete when the server has confirmed or refused them,
perhaps much later. `get()` waits for the server while the device is online and
reads the cache when it is not. Signing in mounts `HomeScreen`, which loads the
patients into a provider that outlives the session.

What is hard here, in the order of how much depends on it:

1. `generateId`: the next number is the newest patient's number plus one, asked
   for with a query and used after an await. It depends on the dates, on what
   the device can see, and on who else registers.
2. Dates do not survive the way back from Firestore (`DateTime.tryParse` of a
   `Timestamp`'s text is null), and an edit writes the whole document, null
   date included.
3. State read before an await and used after it: the widget's patient in the
   form, the index in `updatePatient`, the form key after `getUserName`.
4. The answer of a load replaces the list whatever happened since it was asked.
5. Errors of writes are swallowed; offline writes do not complete.
6. Kills and restarts between a queued write and what follows it.

`PROJECT.json` lists each hazard at its line with the properties that watch it.

What makes a component correct: of the record, that conversions keep the
identity of a patient. Of the Firestore client, that what the app reads is what
the server will hold. Of the provider, that numbers and dates identify one
registration, that a registration does not replace a patient, that a deleted
patient stays deleted, and that a save ends. Of the session, that an account
always has the profile its saves need, and that a busy screen becomes usable
again.

## 2. Modules

| Module | What it models |
|---|---|
| `PatientRecord` | a patient in memory, a document, `fromMap`, `toJson` |
| `Documents` | a collection as a query sees it: its order, its pages, the number made from the newest document |
| `Firestore` | server, cache, queue, connection; queries and writes |
| `PatientProvider` | provider, screens, saves and loads in flight, on every device; its properties |
| `PatientSessions` | the same with users who sign out and in, each with a queue of his own |
| `PatientHistory` | `PatientProvider` with a memory of confirmed deletions |
| `SerialRegistry` | abstract: what one user of the app would say it does, one step per save |
| `PatientSerial` | `PatientProvider` on one device, mapped to `SerialRegistry` |
| `StaffProvider` | the doctors: the steps of `PatientProvider` again, and what differs |
| `AuthSession` | signing up, in and out on every device; accounts and profiles |
| `...MC` | values of the constants for TLC |
| `...Proofs` | lemmas and theorems about the module of that name |
| `PatientSaveProofs` | lemmas about the saves of one device: what `PatientSerialProofs` and, through an instance, `StaffProviderProofs` build on |
| `SavesAwaitProofs` | saves and the writes they await |

`PatientProvider` EXTENDS `Firestore`, which EXTENDS `Documents`, which
EXTENDS `PatientRecord`; `SerialRegistry` EXTENDS `Documents` only.
`PatientSessions` and `PatientHistory` EXTEND `PatientProvider` and build a
next-state relation of their own from its actions. `PatientSerial` instantiates
`SerialRegistry` with the documents the device reads, and `StaffProvider` instantiates `PatientProvider` with the staff form
as its form. `AuthSession` stands alone: a save needs from it only the user
name, which `PatientProvider` lets be there or not.

### The patients

`patients[c]` is the notifier's `state` on device `c`. `screen[c]` is the route
on top and the patient its widget was built with. `calls[c][s]` is one run of
`_saveAndValidate`, from the tap to its end, with the stage it awaits in:

| Stage | Awaiting | Next actions |
|---|---|---|
| `userName` | `getUserName()` | `StartAdd`, `StartUpdate`, `SaveAborted` |
| `idQuery` | the query of `generateId` | `ServeIdQuery`, `IdQueryFails` |
| `idReady` | the return of `generateId` to `addPatient` | `AddWrite` |
| `writing` | the future of `set()` | `WriteAcknowledged`, `WriteRejected` |
| `written` | the return to `addPatient` or `updatePatient` | `FinishAdd`, `FinishUpdate`, `UpdateFindsNothing` |

`mounted` says whether the form is still on screen; the code throws where it
needs a form that is gone (`SaveAborted`, the pop in `PopForm`). `loads[c]` is
the run of `addPatients`: asked, answered, then `FinishLoad` replaces the list.

`server`, `cache[c]` and `queue[c]` are sets of documents and a sequence of
mutations. A query reads `Overlay(base, queue[c])`. Online, `base` is the cache
after the server's page for the query has come in and every document of the
answer that only the cache knew (a limbo document) has been looked up; offline
it is the cache. Documents are ordered by `createdAt` descending, null last,
ties by name as text (`NameBefore`, so that `P-10` comes before `P-9`), and
`limit` takes the first ones.

`WriteAcknowledged` takes the server's application of a write and the arrival
of its acknowledgement as one step. When the connection is lost in between,
`AcknowledgementLost` has the server apply any number of the queued writes,
and they stay queued to be sent again. `Restart` keeps cache and queue and
forgets list, screens, calls and futures. `SignInAgain` is a sign-out and a
sign-in of the same account in one step, from the list, since the screens pushed
over it cover the logout button: the provider's list stays and a new load is
asked for. It is left out while a save is between its query and its write; what
a sign-out does there is `PatientSessions`' matter.

Abstractions. The fields a user types are one value of `Forms`; `dob`,
`updatedAt` and `updatedBy` are part of it, since nothing orders or identifies
by them. Time counts registrations, so two registrations never have the same
date; clocks do not differ. `createdBy` is the device, as if each had an account
of its own, also in `PatientSessions`, where nothing depends on it. A save that validates, finds no user name or fails
before `generateId` is one choice at the stage `userName`. A popped form is gone
at once. Documents are never evicted from the cache.

### The patients and their users

`PatientSessions` takes `SignInAgain` and `Restart` apart. `user[c]` is the SDK's
current user, an account or `NoUser`; `home[c]` says whether the root widget
still shows the `HomeScreen`. The SDK keeps one queue per user, the null user
included, and `queue[c]` is that of `user[c]`; `aside[c][u]` holds the others.

| Step | Code |
|---|---|
| `SignOut` | the logout button: the queue is set aside and the null user's taken up (`LocalStore::HandleUserChange`); the screen stays |
| `LeaveHome` | the stream delivers the null user, the `HomeScreen` goes |
| `SignIn` | another account or the same one, online: its queue is taken up |
| `EnterHome` | the stream delivers the user, a new `HomeScreen` loads the patients |
| `RestartSession` | the app is killed: user, cache and all queues are kept, all futures forgotten |

Saves, loads and the write stream are `PatientProvider`'s and go on all the
time, also while nobody is signed in, over whatever queue is in use: a `set()`
in that window goes into the null user's queue. A future belongs to its user
(`SyncEngine::NotifyUser`), so a save whose write has been set aside waits until
that user is back.

### The serial registry

`SerialRegistry` holds the documents `records`, one per number, and
`snapshot`, the documents as the last registration left them. `Register` takes
the number of the newest document plus one and writes the new document in the
same step. `Change` replaces a document's form and leaves a date that is
remembered for that patient, or none: a loaded patient has lost its date, an
unloaded one still has the date it was registered with. `Remove` takes a
document away.

`PatientSerial` adds the history variable `snapshot` to `PatientProvider` and
maps `records` to what the one device reads, `View(c)`. A save takes effect in
the registry when `set()` is called. Between the query of `generateId` and that
moment lie an await, perhaps a load, a lost connection, a restart of the query
offline; that the number is still the next one is what the refinement says.

### The doctors

`DoctorsNotifier` repeats `PatientsNotifier`, so `addDoctor`, `updateDoctor` and
`generateId` are `PatientProvider`'s actions under `Registry!`. What differs
is written out. The form of an edit is one `fields[c]`: the value of each field
and the set of those typed into. `ShownIn(k)` is the field of the doctor that
is the initial value of field `k`; for Education and Role the code takes
another one. `StartUpdate` writes what the form holds when the account name has
come, not when save was tapped. `loads[c]` has a place for each `addDoctors` in flight: every
visit of the Staff tab starts one and none is cancelled, so their answers
arrive in any order. No screen deletes a doctor.

### The session

`user[d]` is `currentUser`, kept on disk. `events[d]` is what
`authStateChanges` has still to deliver, `shown[d]` the screen the root widget
built from the last value, `form[d]` the `isLogin` and `_isAuthenticating` of the
`AuthScreen`. `call[d]` is the `_submit` in flight:

| Stage | Meaning | Next actions |
|---|---|---|
| `signingIn` | `signInWithEmailAndPassword` asked | `SignedIn`, `SubmitFails`, `SubmitThrows` |
| `signingUp` | `createUserWithEmailAndPassword` asked | `CreateAccount`, `SubmitFails`, `SubmitThrows` |
| `created` | the server has the account, the answer is on its way | `CreateAnswered`, `SubmitFails`, `SubmitThrows` |
| `answered` | the user is signed in, Dart has still to go on | `WriteProfile` |

`SubmitFails` is the `FirebaseAuthException` that is caught, `SubmitThrows` any
other error, which leaves the busy flag set. `WriteProfile` queues
`users/uid` for the user signed in at that moment; `StoreProfile` sends it only
while that user is signed in, because the SDK keeps one queue per user.
`_submit` goes on when its screen has been replaced, so the stream may show the
`HomeScreen`, and the user may sign out, before the profile is queued. An
account is its email; passwords, user names and the text of errors are left
out. `Restart` begins the stream with the user kept on disk.

## 3. Runs

| Run | Instance | Checks |
|---|---|---|
| `one_device` | 1 device, 2 saves in flight, 3 saves, 1 restart or sign-in, deletions | `TypeOK`, `ViewIsCurrent`, `SavesAwaitTheirWrite`, `IdsBounded`, `StampIdentifiesRegistration` |
| `sessions` | 1 device, 2 accounts, 2 saves in flight, 2 saves, 2 sign-ins or restarts, deletions | `SessionTypeOK`, `SavesAwaitOneQueue`, `SharedCacheCurrent` |
| `serial` | 1 device, 1 save at a time, 4 saves, 2 restarts or sign-ins | `DatesOrderNumbers`, `RegistrationKept`, `SavesAreSerial` |
| `digits` | the serial registry, 11 registrations, removals, at most 3 documents | `TypeOK`, `DatesOrderNumbers`, `RegistrationKept`, `ReplacedNumber` |
| `staff` | 1 device, 2 loads in flight, 4 saves, 2 visits or restarts | `TypeOK`, `ListedDoctorsExist`, `DatedDoctorsKept` |
| `staff_edit` | 1 device, 3 saves, 2 values of 1 field, refused writes | `UpdateWritesItsForm` |
| `sign_up` | 2 devices, 2 accounts, uncaught errors, refused profiles | `TypeOK`, `ShownMatchesUser`, `ProfileFollowsAccount`, `NoSecondSignUp` |
| `sign_up_ends` | 1 device, 2 accounts, fairness | `SpinnerAwaited`, `SpinnerEnds`, `ProfileStored` |
| `liveness` | 1 device, 2 saves, 1 restart, deletions, refused writes, fairness | `SavesComplete` |
| `staff_form` | 1 device, 1 save, all four fields | `UntypedFieldsKept`: violated |
| `deleted_patient` | 2 devices, 2 saves, deletions, no lost acknowledgements | `DeletedPatientGone`: violated |
| `number_reused` | as `serial`, 1 restart | `NumberFresh`: violated |

What each property says:

- `ViewIsCurrent`: what a device reads from cache and queue is what the server
  will hold once the queue is sent. `generateId` depends on it offline. It
  needs a single writing device and no refused writes.
- `SavesAwaitTheirWrite`: a save that awaits `set()` has exactly one write in the
  queue that will answer it, that of its own patient; every other save has
  none. It is the safety half of `SavesComplete`: no save waits for nothing,
  and none goes on with the confirmation of another.
- `SavesAwaitOneQueue`: the same with users who come and go: the write a save
  waits for is in exactly one user's queue, and nobody else waits for it.
- `SharedCacheCurrent`: `ViewIsCurrent` with users who come and go: it holds but
  for the patients that a queue set aside still has a write for.
- `IdsBounded`: no number and no date, in any copy on any device, is beyond the
  registrations made.
- `StampIdentifiesRegistration`: two records with the same creation date have
  the same number and author; edits, loads and resent writes mix no patients.
- `SavesAreSerial`: the code on one device implements `SerialRegistry`.
- `DatesOrderNumbers`: among the documents that still have a date, the newer
  has the greater number. This is what makes "newest plus one" a free number.
- `RegistrationKept`: a registration replaces no dated document. Stated of the
  code in `serial` and of the abstract registry in `digits`.
- `ReplacedNumber`: whom a registration replaces. If some document has a date,
  only an undated patient with the number after the greatest dated one, as in
  `number_reused`. If none has a date any more, `generateId` goes by names, and
  somebody is replaced only where the numbers get a digit longer: with `P-9` and
  `P-10` both undated, `P-10` is handed out again.
- `ListedDoctorsExist`: a doctor in the list has a document the device can
  read, whatever the order in which loads, registrations and edits end.
- `DatedDoctorsKept`: `RegistrationKept` for the doctors, with lists of several
  visits replacing each other.
- `UpdateWritesItsForm`: an update writes the doctor it was tapped for, and
  changes only the fields typed into (Education and Role apart), although the
  form can be left and another doctor's opened while the save awaits the user
  name.
- `ShownMatchesUser`: once the stream is drained, the `HomeScreen` is shown
  exactly to a signed-in user.
- `ProfileFollowsAccount`: a sign-up that has created its account goes on to
  write the profile; only a lost answer, another error, a kill or a refusal
  cuts it off, not a replaced screen, a sign-out or a lost connection.
- `NoSecondSignUp`: what was cut off stays so. Neither signing in nor signing
  up again, on any device, gives the account a profile. Its saves then find no
  user name for ever.
- `SpinnerAwaited`: while the spinner turns, a call is under way whose failure
  takes it back, or the stream is about to deliver a user, whose screen
  replaces it. It is the safety half of `SpinnerEnds`.
- `SpinnerEnds`, `ProfileStored`, `SavesComplete`: the busy flag goes away, a
  queued profile reaches the server, a tap on save comes to an end.

Conditions, and what happens without them. With two slots (a double tap) or
two devices two saves can be given one number: neither query sees what the other
save will write. So it is in `PatientSessions`, on one device with one save at a
time, when a patient waits in the queue of a user who has signed out: the query
of the next user, or of a save that the sign-out has overtaken, does not see
him. With deletions a slow load can
bring back a deleted patient as a card, and editing the card brings back the
document with its old date. With refused writes the list keeps a patient or a
doctor the server never stored. In these cases `RegistrationKept`,
`SavesAreSerial` or `ListedDoctorsExist` fail: this is how the code behaves,
and the runs' constants (`Slots`, `Clients`, `MaxPending`, `MayReject`), with the
guard of `SignInAgain`, state the conditions under which they hold. Of a doctor
who was registered while a list was loading nothing is claimed but that his
document stays: he is missing from the list until the next visit. `SpinnerEnds` and `SpinnerAwaited` need
`MayThrow` FALSE: an error that is no `FirebaseAuthException` leaves the
spinner for good.

The three violations:

- `staff_form`. Open the form of a doctor: the field labelled "Education" holds
  the specialization and "Role" the registration number
  (`add_doctor_screen.dart`, `initialValue`), so a save that changes nothing
  writes them over the record.
- `deleted_patient`. One device registers a patient and saves an edit of it,
  whose write is still queued; another device has loaded the patient and deletes
  it, and the server confirms that; then the edit is sent, and `set()` creates
  the document again. It makes no difference whether the form is saved before
  the deletion or after it. The dialog promises "The deleted patient can't be
  recovered". A registration whose acknowledgement was lost is sent again and
  brings the patient back without any edit; the run leaves this shorter trace out
  (`ACTION_CONSTRAINT AcknowledgementsArrive`).
- `number_reused`. Register two patients; reload; edit the second, whose date
  is null in memory, so the edit erases it on the server; register a third. The
  newest dated patient is the first, so the third is given number 2 and its
  `set()` replaces the second patient's document. The comment says the id is
  regenerated. The same trace shows why `RegistrationKept` speaks of dated
  documents only.

Bounds, and why they are enough. `MaxSaves` bounds taps on the save button,
`MaxVisits` restarts, repeated sign-ins and visits of the Staff tab,
`MaxPending` the queue length up to which a deletion is confirmed (0: no
deletions). Queues are bounded by these. Three saves cover register, register,
edit, or register and two edits; four add the registration after an edit, which
the reuse of a number needs. Two saves suffice in `sessions` for one write that
is set aside and another save in the window or under the next user; two sign-ins
bring the first user back. `PageSize` is 1, 2 or 3 in place of 25. The limit of
a load leaves documents out in `one_device` and `staff_edit` (page size 2, up to
three documents), in `sessions` (1 and two) and in `serial`, `number_reused` and
`staff` (3 and four); in `liveness` and `deleted_patient`, with two saves, only
the `limit(1)` of `generateId` cuts anything. More than one device is left to the
theorems, which hold for any number (`IdsBounded`, `StampIdentifiesRegistration`,
`SavesAwaitTheirWrite`), and to `deleted_patient`.

These numbers stay below 10. `digits` goes past the change of text order from
`P-9` to `P-10` in the abstract registry, which `serial` and a theorem connect
with the code: `TenRegistrations` lets registrations follow each other up to
the eleventh, and the state constraint `FewDocuments` explores only states
with at most three documents (removals keep the registry small; three
documents suffice for two that are out of order and one that is replaced).

Two loads in flight are the least that can overtake each other. Two values
of a field tell two doctors and an edit apart, and three saves are the least that
register two doctors and edit one of them. Two accounts on two devices suffice for
one sign-up to meet another one's answer or session; a device has one
`_submit` in flight, since the screen offers no buttons while it is busy
(`Submit` names the one exception it leaves out). The queue of sign-up is
bounded by the accounts.

`Permutations` of devices, slots, loads and accounts are sound: nothing
distinguishes them. Deadlock is checked in every run: a user
can always navigate.

Fairness, in `liveness`. `WF` on the steps of a save and of a load: the Dart
event loop runs what is ready, and a query ends with an answer or an error.
`SF` on the write stream: it retries with backoff for as long as the queue
holds a write, so a device that is online time and again gets an answer
(`remote_store.cc`, `OnWriteStreamClose` restarts the stream). Nothing is
assumed of users, network and restarts; the property supposes the network
comes back.

Fairness, in `sign_up_ends`. `WF` on `DeliverAuthState` and on the steps of the
call, for the same reason: a stream delivers and a request is answered or
fails. `SF` on the write stream of the signed-in user. `ProfileStored` supposes
that this user is signed in and online time and again.

## 4. Proofs

All theorems hold for any sets of devices, slots and forms, finite or not, and
all values of the bounds, under the conditions given.

| Module | Theorem | Statement |
|---|---|---|
| `PatientProviderProofs` | `TypeCorrect` | `Spec => []TypeOK` |
| | `OneDeviceViewCurrent` | with `Clients = {c0}` and `~MayReject`: `Spec => []ViewIsCurrent` |
| | `NumbersNeverRunAhead` | `Spec => []IdsBounded` |
| | `StampsIdentify` | `Spec => []StampIdentifiesRegistration` |
| `SerialRegistryProofs` | `SerialTypeCorrect` | `Spec => []TypeOK` |
| | `DatesAndNumbersAgree` | `Spec => []DatesOrderNumbers` |
| | `DatedPatientsKept` | `Spec => RegistrationKept` |
| | `ReplacementsLocated` | `Spec => ReplacedNumber` |
| `PatientSerialProofs` | `DeviceImplementsRegistry` | with `Alone(c0, s0)`: `SerialSpec => SavesAreSerial` |
| | `DeviceDatesOrderNumbers` | with `Alone(c0, s0)`: `SerialSpec => []DatesOrderNumbers` |
| | `DeviceRegistrationKept` | with `Alone(c0, s0)`: `SerialSpec => RegistrationKept` |
| `SavesAwaitProofs` | `SavesAwait` | `Spec => []SavesAwaitTheirWrite` |
| `StaffProviderProofs` | `StaffTypeCorrect` | `Spec => []TypeOK` |
| | `NoGhostDoctors` | with `~MayReject`: `Spec => []ListedDoctorsExist` |
| | `FormsWritten` | `Spec => UpdateWritesItsForm` |
| | `DatedDoctorsStay` | with `Clients = {c0}`, `Slots = {s0}`, `~MayReject`: `Spec => DatedDoctorsKept` |
| `AuthSessionProofs` | `SessionTypeCorrect` | `Spec => []TypeOK` |
| | `ScreenFollowsSession` | `Spec => []ShownMatchesUser` |
| | `SpinnersAwaited` | with `~MayThrow`: `Spec => []SpinnerAwaited` |
| | `SignUpsComplete` | `Spec => ProfileFollowsAccount` |
| | `CutOffForGood` | `Spec => NoSecondSignUp` |

`Alone(c, s)` is `Clients = {c}`, `Slots = {s}`, `MaxPending = 0`, `~MayReject`: one
device, one save at a time, no deletions, no refused writes.

Assumptions: that a form can be filled in (`FormsAssumption`,
`FieldsAssumption`), that page sizes and counts are naturals
(`PageSizeAssumption`, `CountsAssumption`), that the fault switches are Booleans
(`MayRejectAssumption`, `FaultsAssumption`), that the null user is no account
(`NoUserAssumption`). TLC evaluates them in the runs.

`ViewIsCurrent` is not inductive: that two overlays agree says nothing of a
cached document hidden by a queued write. `Agreement` is: a document whose id
has no queued write is cached exactly when the server has it. A new write hides
more; an acknowledged one is applied to both; writes whose acknowledgements are
lost stay pending and hide what they did; an answer only brings the cache
closer to the server.

`IdsBounded` and `StampIdentifiesRegistration` are proved together
(`RegistrationInv`), since a page of documents must be bounded for the number
made from it to be. The argument: every step but `AddWrite` only copies,
forgets or undates records that some variable already holds (`CopyingStep`),
and `AddWrite` brings one new record whose date is beyond all of them
(`RegisteringStep`).

`DatesOrderNumbers` is not inductive either: an edit can bring back a date that
an earlier edit erased, and nothing in the documents says that this date is in
order. `Numbering` (`DocumentsProofs`) keeps the documents as the last
registration left them, `snapshot`, which are in order, and says that every
dated document has its date from there. A registration makes a new snapshot:
its number follows the newest document's, which has the greatest date and so
the greatest number of the dated ones. Nothing that is older than the
snapshot can come back, because a registration replaces only undated documents.

For the code, `SaveInv` (`PatientSaveProofs`) adds what the app remembers while
it waits (`Memory`): every copy of a patient, in list, form or call, has a
document, and its date, if any, is one the snapshot has (`Remembered`); a number
that `generateId` has found is still the next one when `addPatient` uses it
(`NumberInStep`), since with one save at a time only loads and the network run
in between and by `Agreement` they change nothing the device reads; and of
several entries of one patient in the list only the first has a date
(`ListInStep`), which is the one an edit replaces. Each action then is a
registration, an edit or quiet (`StepKinds`), and these are the steps of the
registry (`StepRefines`).

`DatedDoctorsKept` is proved from the same lemmas: `StaffProviderProofs` has an
instance `Device` of `PatientSaveProofs` with the staff form as form. Three
things differ. The doctors have no history variable, so the invariant
(`DatedInv`) says that some snapshot fits. Their loads are not those of the
patients: the instance gets a load that never moves, and `PagesRead` says
instead that the page of every load, however old, holds only doctors that have
documents; a page loses all dates when it becomes the list, so an old one brings
none back. And a step of the saves, the queue or the network has to be shown to
be the same step in both instances (`SameSteps`, `SharedStep`), a step of list
and loads to change nothing that can be read (`OwnStepSaves`).

`ReplacedNumber` has two cases. If some document is dated, the newest one is the
dated one with the greatest number, by `DatesOrderNumbers`, and the new number
follows it. The other case rests on what decimal names are. While no document is
dated, the page of `generateId` holds the document with the last name
(`LastName`). The next number is taken only by a document whose name comes
before that name, so `n + 1` sorts before `n`, and it does so only with a digit
more (`NextNameBefore`). The prover knows nothing of `^`, so `PowerOfTen` is
a recursive function; that a function with these equations exists is proved
(`PowerOfTenDef`) from the functions on `0 .. k` that satisfy them
(`Approximated`, `Agreeing`), by induction in the form of a least number
outside a set (`Induction`).

`SavesAwaitTheirWrite` is inductive beside `TypeOK`. The steps that could hurt it
are those where waiters leave the queue: the oldest write is answered
(`AwaitsAnswer`), the queue is sent again after a lost acknowledgement, the app
is killed (`RestartWaits`); and the one where a save calls `set()`, whose slot
may have been used before: that no write of an earlier save is left in the queue
to answer it is the half of the invariant about saves that await nothing
(`OwnWrite`).

`UpdateWritesItsForm` needs `FormInv`: the form on screen holds the plain
fields of the doctor it was opened on wherever nothing was typed, one doctor at
most, and a save that is still mounted has the doctor on screen as its widget.
Hence a save that passes the await of the account name while another form is
open finds itself unmounted, and writes nothing.

`ListedDoctorsExist` follows from `Exist`: whatever the app holds of doctors, in
list, form, call or page, is cached or queued, and what is cached the server
has. The second half is what makes an answer harmless: it replaces cached
documents by the server's and so takes none away. A call that writes holds a
doctor whose write has been queued, before the list shows it. That a query
finds every number that is queued needs the last write of it, which is found
by well-founded induction on the distance from the end of the queue
(`LastWrite`).

Where writes are refused none of this holds, but numbers and types do: there
`Allowed` is every number, and the same proof gives `StaffTypeCorrect` for both
cases.

`ShownMatchesUser` needs `StreamEndsWithUser`: the last value still to be
delivered is the current user. `SpinnerAwaited` is inductive beside `TypeOK`:
only `Submit` sets the busy flag, and the answer that ends its call queues a
user, which no sign-out takes out of the stream again. `ProfileFollowsAccount`
and `NoSecondSignUp` are step properties: the first looks at each step that
could take the profile, its queued write or the call away (`ProfileStep`), the
second at the only steps that could start a sign-up, which the server refuses
for an account there is (`NoSecondStep`).

Only model-checked: `SavesComplete`, `SpinnerEnds` and `ProfileStored`, since
liveness under fairness is beyond the prover, and the properties of
`PatientSessions`. Of the first two, the safety half is proved: `SavesAwait` and
`SpinnersAwaited` exclude that somebody waits for nothing. The theorems about the
patients are about `PatientProvider`, so they suppose that nobody signs out
between a save's query and its write and that the account stays the same. Every
other property of a passing run is the property of a
theorem.

## 5. Not modelled

- Clocks that differ between devices, and the calendar time of dates: one
  global count stands for all clocks. The hazard is listed without a property.
- The exit transition of a popped route, during which a second pop or tap can
  still reach it, and the delete dialog as a route of its own: what such a pop
  closes depends on the frame it falls into, and the models take a popped
  screen as gone.
- The selected tab of the home screen, except that visits of the Staff tab
  load; `removeDoctor`, which no screen calls.
- Sign-out and account in the doctors' model and in the runs of
  `PatientProvider` and `PatientSerial`, but for `SignInAgain`; `PatientSessions`
  has them for the patients and `AuthSession` for the profiles. In
  `PatientSessions` a new `HomeScreen` waits for an earlier load to end.
- The appointments: a calendar over constant sample events, whose only state is
  the slot length.
- The write stream's pipeline of up to ten writes, Firestore's transactions,
  open listeners, cache collection and multi-tab code: the app uses none of
  it, or the queue of `Firestore` stands for it.
- Layout, wording, field validation and snackbars: no property is about them.
- Therapists stub, unused image picker, splash, generated options, template
  test, platform runners: no state of the program's own.

## 6. Plan

Done: the patients' core over Firestore, the users who come and go over it, the
serial registry and its refinement, the doctors, the session; the proofs of section 4.

What could follow:

1. Proofs of `SavesAwaitOneQueue` and `SharedCacheCurrent`: the invariants of
   `SavesAwait` and `Agreement`, over the queues of all users.
2. `Navigation`: nested navigators, the delete dialog, the exit transition.
3. `WritePipeline`: the write stream with several writes under way,
   implementing the queue of `Firestore`.
4. Clocks apart: a date per device in place of the global count, and how far
   `DatesOrderNumbers` survives.
5. More proofs: that the doctors on one device implement `SerialRegistry` with
   several loads, for which `StaffProvider` needs the history variable that
   `PatientSerial` has; and theorems for the modules above as they come.
