---------------------------- MODULE HarnessProofs ----------------------------
(***************************************************************************)
(* Theorems about two parts of the agent harness: FileMutationQueue, for   *)
(* any number of calls and paths and whatever the links between the paths; *)
(* and JsonlStorage.                                                       *)
(*                                                                         *)
(* Of JsonlStorage: its types, and that forks are faithful, for any number *)
(* of storages; and, for a file that one storage at a time is opened on    *)
(* and appends that fail cleanly, that no acknowledged mutation is ever    *)
(* lost, whatever crashes, failures and repairs there are.                 *)
(***************************************************************************)
EXTENDS FileMutationQueue, JsonlStorage, SequenceTheorems, FiniteSetTheorems, TLAPS

\* Shortening the registration by its first call.
LEMMA TailProperties ==
  ASSUME NEW S, NEW s \in Seq(S), s # <<>>
  PROVE  /\ Tail(s) \in Seq(S) /\ Head(s) \in S
         /\ 1 \in DOMAIN s /\ s[1] = Head(s)
         /\ \A i \in DOMAIN Tail(s) : i + 1 \in DOMAIN s /\ Tail(s)[i] = s[i + 1]
BY HeadTailProperties

LEMMA KeyTypes ==
  ASSUME QueueTypeOK, NEW p \in Path
  PROVE  KeyOf(p) \in Path
BY PathAssumption DEF KeyOf, QueueTypeOK

LEMMA QueueInitTypes == QueueInit => QueueTypeOK
BY PathAssumption DEF QueueInit, QueueTypeOK, Status

LEMMA QueueNextTypes == QueueTypeOK /\ [QueueNext]_queueVars => QueueTypeOK'
<1> SUFFICES ASSUME QueueTypeOK, [QueueNext]_queueVars PROVE QueueTypeOK' OBVIOUS
<1> USE DEF QueueTypeOK, Status, SettledStatus
<1>1. ASSUME NEW c \in Caller, Call(c) PROVE QueueTypeOK' BY <1>1 DEF Call
<1>2. ASSUME NEW c \in Caller, IsRegistering(c) PROVE Tail(registration) \in Seq(Caller)
  BY <1>2, TailProperties DEF IsRegistering
<1>3. ASSUME NEW c \in Caller, ResolveKey(c) PROVE QueueTypeOK'
  BY <1>3, KeyTypes DEF ResolveKey
<1>4. ASSUME NEW c \in Caller, RejectKey(c) PROVE QueueTypeOK' BY <1>2, <1>4 DEF RejectKey
<1>5. ASSUME NEW c \in Caller, Register(c) PROVE QueueTypeOK' BY <1>2, <1>5 DEF Register
<1>6. ASSUME NEW c \in Caller, Enter(c) PROVE QueueTypeOK' BY <1>6 DEF Enter
<1>7. ASSUME NEW c \in Caller, Leave(c) PROVE QueueTypeOK' BY <1>7 DEF Leave, Clears, Releases
<1>8. ASSUME NEW c \in Caller, ResolveChained(c) PROVE QueueTypeOK' BY <1>8 DEF ResolveChained
<1>9. ASSUME NEW p \in Path, FileSystemStep(p) PROVE QueueTypeOK' BY <1>9 DEF FileSystemStep
<1>10. CASE UNCHANGED queueVars BY <1>10 DEF queueVars
<1> QED BY <1>1, <1>3, <1>4, <1>5, <1>6, <1>7, <1>8, <1>9, <1>10 DEF QueueNext, CallerStep

\* Every variable keeps its type (TypeOK).
THEOREM QueueTypeCorrect == QueueSpec => []QueueTypeOK
BY QueueInitTypes, QueueNextTypes, PTL DEF QueueSpec
-----------------------------------------------------------------------------
LEMMA InitOrder == QueueInit => QueueOrder /\ OneAtATimeInOrder
BY DEF QueueInit, QueueOrder, RegistrationInOrder, MapNamesYoungest, WaitsForNextOlder,
       ReleasedHaveLeft, OneAtATimeInOrder, Linked, Before

\* The registration stays a queue in the order of the calls.
LEMMA NextRegistration ==
  ASSUME QueueTypeOK, RegistrationInOrder, [QueueNext]_queueVars
  PROVE  RegistrationInOrder'
<1> USE DEF QueueTypeOK, RegistrationInOrder, Linked, Status, SettledStatus
<1>1. ASSUME NEW c \in Caller, Call(c) PROVE RegistrationInOrder'
  <2>1. /\ status[c] = "new" /\ status' = [status EXCEPT ![c] = "registering"]
        /\ ticket' = [ticket EXCEPT ![c] = made] /\ made' = made + 1
        /\ registration' = Append(registration, c)
    BY <1>1 DEF Call
  <2> DEFINE n == Len(registration)
  <2>2. /\ n \in Nat /\ DOMAIN registration = 1..n /\ DOMAIN registration' = 1..(n + 1)
        /\ registration'[n + 1] = c
        /\ \A i \in 1..n : registration'[i] = registration[i]
    BY <2>1, AppendProperties, LenProperties
  <2>3. \A i \in 1..n : /\ registration[i] \in Caller /\ registration[i] # c
                       /\ ticket'[registration[i]] = ticket[registration[i]]
                       /\ ticket[registration[i]] < made
    <3> TAKE i \in 1..n
    <3>1. i \in DOMAIN registration /\ registration[i] \in Caller BY <2>2
    <3>2. status[registration[i]] \in {"registering", "keyed"} BY <3>1
    <3>3. registration[i] # c BY <2>1, <3>2
    <3> QED BY <2>1, <3>1, <3>2, <3>3
  <2>4. ticket'[c] = made BY <2>1
  <2> HIDE DEF n
  <2>5. \A i \in DOMAIN registration' : status'[registration'[i]] \in {"registering", "keyed"}
    BY <2>1, <2>2, <2>3
  <2>6. \A i, j \in DOMAIN registration' :
          i < j => ticket'[registration'[i]] < ticket'[registration'[j]]
    <3> TAKE i, j \in DOMAIN registration'
    <3> HAVE i < j
    <3>1. i \in 1..n /\ i \in DOMAIN registration BY <2>2
    <3>2. CASE j = n + 1 BY <2>2, <2>3, <2>4, <3>1, <3>2
    <3>3. CASE j # n + 1
      <4>1. j \in 1..n /\ j \in DOMAIN registration BY <2>2, <3>3
      <4> QED BY <2>2, <2>3, <3>1, <4>1
    <3> QED BY <3>2, <3>3
  <2>7. ASSUME NEW d \in Caller, NEW i \in DOMAIN registration', Linked(d)'
        PROVE  ticket'[d] < ticket'[registration'[i]]
    <3>1. d # c /\ Linked(d) /\ ticket'[d] = ticket[d] /\ ticket[d] < made BY <2>1, <2>7
    <3> QED BY <2>2, <2>3, <2>4, <3>1
  <2>8. \A d \in Caller : status'[d] # "new" => ticket'[d] < made' BY <2>1
  <2>9. \A d, e \in Caller :
          d # e /\ status'[d] # "new" /\ status'[e] # "new" => ticket'[d] # ticket'[e]
    BY <2>1
  <2> QED BY <2>5, <2>6, <2>7, <2>8, <2>9
<1>2. ASSUME NEW c \in Caller, ResolveKey(c) PROVE RegistrationInOrder'
  BY <1>2 DEF ResolveKey
<1>3. ASSUME NEW c \in Caller, RejectKey(c) \/ Register(c) PROVE RegistrationInOrder'
  <2>1. /\ registration # <<>> /\ Head(registration) = c /\ registration' = Tail(registration)
        /\ status[c] \in {"registering", "keyed"}
        /\ status' = [status EXCEPT ![c] = "rejected"] \/ status' = [status EXCEPT ![c] = "waiting"]
        /\ UNCHANGED <<ticket, made>>
    BY <1>3 DEF RejectKey, Register, IsRegistering
  <2>2. /\ 1 \in DOMAIN registration /\ registration[1] = c
        /\ DOMAIN registration \subseteq Nat
        /\ \A i \in DOMAIN registration' : /\ i \in Nat /\ 1 < i + 1 /\ i + 1 \in DOMAIN registration
                                         /\ registration'[i] = registration[i + 1]
    BY <2>1, TailProperties
  <2>3. \A i \in DOMAIN registration' : ticket[c] < ticket[registration'[i]]
    <3> TAKE i \in DOMAIN registration'
    <3> QED BY <2>2
  <2>4. \A i \in DOMAIN registration' : registration'[i] \in Caller /\ registration'[i] # c
    BY <2>2, <2>3
  <2>5. \A i, j \in DOMAIN registration' :
          i < j => ticket[registration'[i]] < ticket[registration'[j]]
    BY <2>2
  <2>6. ASSUME NEW d \in Caller, NEW i \in DOMAIN registration', Linked(d)'
        PROVE  ticket[d] < ticket[registration'[i]]
    <3>1. CASE d = c BY <2>3, <3>1
    <3>2. CASE d # c
      <4>1. Linked(d) BY <2>1, <2>6, <3>2
      <4> QED BY <2>2, <4>1
    <3> QED BY <3>1, <3>2
  <2>7. \A i \in DOMAIN registration' : status'[registration'[i]] \in {"registering", "keyed"}
    BY <2>1, <2>2, <2>4
  <2>8. \A d \in Caller : status'[d] # "new" => status[d] # "new" BY <2>1
  <2> HIDE DEF QueueTypeOK
  <2> QED BY <2>1, <2>5, <2>6, <2>7, <2>8
<1>4. ASSUME NEW c \in Caller, Enter(c) \/ Leave(c) PROVE RegistrationInOrder'
  <2>1. /\ status[c] \in {"waiting", "running"}
        /\ \E new \in {"running", "returned", "threw"} : status' = [status EXCEPT ![c] = new]
        /\ UNCHANGED <<registration, ticket, made>>
    BY <1>4 DEF Enter, Leave
  <2> QED BY <2>1
<1>5. ASSUME NEW c \in Caller, ResolveChained(c) PROVE RegistrationInOrder'
  BY <1>5 DEF ResolveChained
<1>6. ASSUME NEW p \in Path, FileSystemStep(p) PROVE RegistrationInOrder'
  BY <1>6 DEF FileSystemStep
<1>7. CASE UNCHANGED queueVars BY <1>7 DEF queueVars
<1> QED BY <1>1, <1>2, <1>3, <1>4, <1>5, <1>6, <1>7 DEF QueueNext, CallerStep
-----------------------------------------------------------------------------
LinkOrder == MapNamesYoungest /\ WaitsForNextOlder /\ ReleasedHaveLeft /\ OneAtATimeInOrder

\* A step that changes nothing about the calls that are linked, and links none.
LEMMA LinksUntouched ==
  ASSUME QueueTypeOK, LinkOrder, UNCHANGED <<queues, currentQueue, released, chained>>,
         \A c \in Caller : Linked(c)' = Linked(c),
         \A c \in Caller : Linked(c) =>
           status'[c] = status[c] /\ key'[c] = key[c] /\ ticket'[c] = ticket[c]
  PROVE  LinkOrder'
<1> USE PathAssumption DEF QueueTypeOK
<1>1. \A c, d \in Caller : Before(d, c)' <=> Before(d, c) BY DEF Before
<1>2. \A c \in Caller : Left(c)' <=> Left(c) BY DEF Left, Linked
<1>3. MapNamesYoungest'
  <2>1. \A k \in Path : queues[k] # None => queues[k] \in Caller /\ Linked(queues[k])
    BY DEF LinkOrder, MapNamesYoungest, Linked
  <2> QED BY <1>2, <2>1 DEF LinkOrder, MapNamesYoungest
<1>4. WaitsForNextOlder'
  <2>1. \A c \in Caller : Linked(c) /\ currentQueue[c] # None =>
          currentQueue[c] \in Caller /\ Linked(currentQueue[c])
    BY DEF LinkOrder, WaitsForNextOlder, Before
  <2>2. \A c, d \in Caller : Before(d, c) => Linked(c) /\ Linked(d) BY DEF Before
  <2> QED BY <1>1, <1>2, <2>1, <2>2 DEF LinkOrder, WaitsForNextOlder
<1>5. ReleasedHaveLeft' BY <1>2 DEF LinkOrder, ReleasedHaveLeft
<1>6. OneAtATimeInOrder' BY <1>1, <1>2 DEF LinkOrder, OneAtATimeInOrder, Before
<1> QED BY <1>3, <1>4, <1>5, <1>6 DEF LinkOrder

\* Register puts the call behind every linked call of its key.
LEMMA RegisterKeepsOrder ==
  ASSUME QueueTypeOK, RegistrationInOrder, LinkOrder, NEW c \in Caller, Register(c)
  PROVE  LinkOrder'
<1> USE PathAssumption DEF QueueTypeOK
<1>1. /\ status[c] = "keyed" /\ status' = [status EXCEPT ![c] = "waiting"]
      /\ currentQueue' = [currentQueue EXCEPT ![c] = queues[key[c]]]
      /\ queues' = [queues EXCEPT ![key[c]] = c]
      /\ UNCHANGED <<key, ticket, released, chained>>
  BY DEF Register
<1>2. \A d \in Caller : Linked(d) => ticket[d] < ticket[c]
  <2>1. 1 \in DOMAIN registration /\ registration[1] = c
    BY TailProperties DEF Register, IsRegistering
  <2> QED BY <2>1 DEF RegistrationInOrder
<1>3. /\ ~Linked(c) /\ Linked(c)' /\ ~Left(c)'
      /\ \A d \in Caller : d # c => (Linked(d)' <=> Linked(d)) /\ (Left(d)' <=> Left(d))
  BY <1>1 DEF Linked, Left
<1>4. \A d, e \in Caller : Before(d, e)' =>
        /\ d # c /\ Linked(d) /\ ~(ticket[c] < ticket[d])
        /\ IF e = c THEN key[d] = key[c] ELSE Before(d, e)
  BY <1>1, <1>2, <1>3 DEF Before
<1>5. OneAtATimeInOrder' BY <1>1, <1>3, <1>4 DEF LinkOrder, OneAtATimeInOrder
<1>6. ReleasedHaveLeft' BY <1>1, <1>3 DEF LinkOrder, ReleasedHaveLeft, Linked, Left
<1>7. MapNamesYoungest'
  <2>1. ASSUME NEW k \in Path, queues'[k] # None
        PROVE  status'[queues'[k]] \in {"waiting", "running"} /\ key'[queues'[k]] = k
    <3>1. CASE k = key[c] BY <1>1, <3>1
    <3>2. CASE k # key[c]
      <4>1. queues'[k] = queues[k] /\ queues[k] \in Caller /\ queues[k] # c
        BY <1>1, <2>1, <3>2 DEF LinkOrder, MapNamesYoungest
      <4> QED BY <1>1, <2>1, <4>1 DEF LinkOrder, MapNamesYoungest
    <3> QED BY <3>1, <3>2
  <2>2. ASSUME NEW d \in Caller, Linked(d)'
        PROVE  IF queues'[key'[d]] = None THEN Left(d)' ELSE ticket'[d] <= ticket'[queues'[key'[d]]]
    <3>1. CASE key[d] = key[c]
      <4>1. queues'[key'[d]] = c BY <1>1, <3>1
      <4>2. ticket[d] <= ticket[c]
        <5>1. CASE d = c BY <5>1
        <5>2. CASE d # c
          <6>1. ticket[d] < ticket[c] BY <1>2, <1>3, <2>2, <5>2
          <6> QED BY <6>1
        <5> QED BY <5>1, <5>2
      <4> QED BY <1>1, <4>1, <4>2
    <3>2. CASE key[d] # key[c]
      <4>1. d # c /\ queues'[key'[d]] = queues[key[d]] BY <1>1, <3>2
      <4> QED BY <1>1, <1>3, <2>2, <4>1 DEF LinkOrder, MapNamesYoungest
    <3> QED BY <3>1, <3>2
  <2> QED BY <2>1, <2>2 DEF MapNamesYoungest
<1>8. WaitsForNextOlder'
  <2>1. ASSUME NEW e \in Caller, Linked(e)', currentQueue'[e] # None
        PROVE  Before(currentQueue[e], e)'
    <3>1. CASE e = c
      <4>1. currentQueue'[c] = queues[key[c]] /\ queues[key[c]] \in Caller BY <1>1, <2>1, <3>1
      <4>2. Linked(queues[key[c]]) /\ key[queues[key[c]]] = key[c]
        BY <1>1, <2>1, <3>1, <4>1 DEF LinkOrder, MapNamesYoungest, Linked
      <4> QED BY <1>1, <1>2, <1>3, <3>1, <4>1, <4>2 DEF Before
    <3>2. CASE e # c
      <4>1. Before(currentQueue[e], e) /\ currentQueue'[e] = currentQueue[e] /\ currentQueue[e] \in Caller
        BY <1>1, <1>3, <2>1, <3>2 DEF LinkOrder, WaitsForNextOlder
      <4> QED BY <1>1, <1>3, <3>2, <4>1 DEF Before
    <3> QED BY <3>1, <3>2
  <2>2. ASSUME NEW d \in Caller, NEW e \in Caller, Before(d, e)'
        PROVE  IF currentQueue'[e] = None THEN Left(d)' ELSE ticket'[d] <= ticket'[currentQueue'[e]]
    <3>1. d # c /\ Linked(d) BY <1>4, <2>2
    <3>2. CASE e = c
      <4>1. key[d] = key[c] BY <1>4, <2>2, <3>2
      <4> QED BY <1>1, <1>3, <3>1, <3>2, <4>1 DEF LinkOrder, MapNamesYoungest
    <3>3. CASE e # c
      <4>1. Before(d, e) BY <1>4, <2>2, <3>3
      <4> QED BY <1>1, <1>3, <3>1, <3>3, <4>1 DEF LinkOrder, WaitsForNextOlder
    <3> QED BY <3>2, <3>3
  <2> QED BY <2>1, <2>2 DEF WaitsForNextOlder
<1> QED BY <1>5, <1>6, <1>7, <1>8 DEF LinkOrder

\* Who may enter is the first in line: all that joined before it have left.
LEMMA FirstInLine ==
  ASSUME QueueTypeOK, RegistrationInOrder, LinkOrder, NEW c \in Caller, Enter(c),
         NEW d \in Caller, Before(d, c)
  PROVE  Left(d)
<1> USE PathAssumption DEF QueueTypeOK
<1>1. CASE currentQueue[c] = None BY <1>1 DEF LinkOrder, WaitsForNextOlder
<1>2. CASE currentQueue[c] # None /\ currentQueue[c] \in chained
  <2> DEFINE p == currentQueue[c]
  <2>1. p \in Caller /\ Left(p) /\ ticket[d] <= ticket[p] /\ Before(p, c)
    BY <1>2 DEF LinkOrder, WaitsForNextOlder, ReleasedHaveLeft, Before
  <2>2. CASE d = p BY <2>1, <2>2
  <2>3. CASE d # p
    <3>1. ticket[d] # ticket[p] BY <2>1, <2>3 DEF RegistrationInOrder, Before, Linked
    <3>2. Before(d, p) BY <2>1, <3>1 DEF Before
    <3>3. status[p] # "waiting" BY <2>1 DEF Left
    <3> QED BY <2>1, <3>2, <3>3 DEF LinkOrder, OneAtATimeInOrder
  <2> QED BY <2>2, <2>3
<1> QED BY <1>1, <1>2 DEF Enter, CurrentResolved

\* Who enters had only the calls before it to wait for, and they have left.
LEMMA EnterKeepsOrder ==
  ASSUME QueueTypeOK, RegistrationInOrder, LinkOrder, NEW c \in Caller, Enter(c)
  PROVE  LinkOrder'
<1> USE PathAssumption DEF QueueTypeOK
<1>1. /\ status[c] = "waiting" /\ status' = [status EXCEPT ![c] = "running"]
      /\ UNCHANGED <<queues, currentQueue, key, ticket, released, chained>>
  BY DEF Enter
<1>2. \A d \in Caller : (Linked(d)' <=> Linked(d)) /\ (Left(d)' <=> Left(d))
  BY <1>1 DEF Linked, Left
<1>3. \A d, e \in Caller : Before(d, e)' <=> Before(d, e) BY <1>1, <1>2 DEF Before
<1>4. \A d \in Caller : Before(d, c) => Left(d) BY FirstInLine
<1>5. OneAtATimeInOrder' BY <1>1, <1>2, <1>3, <1>4 DEF LinkOrder, OneAtATimeInOrder
<1>6. WaitsForNextOlder' BY <1>1, <1>2, <1>3 DEF LinkOrder, WaitsForNextOlder
<1>7. MapNamesYoungest' BY <1>1, <1>2 DEF LinkOrder, MapNamesYoungest
<1>8. ReleasedHaveLeft' BY <1>1, <1>2 DEF LinkOrder, ReleasedHaveLeft
<1> QED BY <1>5, <1>6, <1>7, <1>8 DEF LinkOrder

\* Who leaves takes its entry out of the map only when it is the youngest.
LEMMA LeaveKeepsOrder ==
  ASSUME QueueTypeOK, RegistrationInOrder, LinkOrder, NEW c \in Caller, Leave(c)
  PROVE  LinkOrder'
<1> USE PathAssumption DEF QueueTypeOK
<1>1. /\ status[c] = "running"
      /\ status' = [status EXCEPT ![c] = "returned"] \/ status' = [status EXCEPT ![c] = "threw"]
      /\ UNCHANGED <<currentQueue, key, ticket, chained>>
      /\ released' = released \cup {c}
      /\ queues' = IF queues[key[c]] = c THEN [queues EXCEPT ![key[c]] = None] ELSE queues
  BY DEF Leave, Releases, Clears
<1>2. /\ \A d \in Caller : Linked(d)' <=> Linked(d)
      /\ Linked(c) /\ Left(c)' /\ \A d \in Caller : Left(d) => Left(d)'
      /\ \A d \in Caller : d # c => status'[d] = status[d]
  BY <1>1 DEF Linked, Left
<1>3. \A d, e \in Caller : Before(d, e)' <=> Before(d, e) BY <1>1, <1>2 DEF Before
<1>4. OneAtATimeInOrder'
  <2> SUFFICES ASSUME NEW e \in Caller, NEW d \in Caller, Before(d, e)', status'[e] # "waiting"
               PROVE  Left(d)'
    BY DEF OneAtATimeInOrder
  <2>1. status[e] # "waiting" BY <1>1, <1>2
  <2> QED BY <1>2, <1>3, <2>1 DEF LinkOrder, OneAtATimeInOrder
<1>5. WaitsForNextOlder' BY <1>1, <1>2, <1>3 DEF LinkOrder, WaitsForNextOlder
<1>6. ReleasedHaveLeft' BY <1>1, <1>2 DEF LinkOrder, ReleasedHaveLeft
<1>7. MapNamesYoungest'
  <2>1. ASSUME NEW k \in Path, queues'[k] # None
        PROVE  status'[queues'[k]] \in {"waiting", "running"} /\ key'[queues'[k]] = k
    <3>1. queues'[k] = queues[k] /\ queues[k] \in Caller /\ key[queues[k]] = k
      BY <1>1, <2>1 DEF LinkOrder, MapNamesYoungest
    <3>2. queues[k] # c BY <1>1, <2>1, <3>1
    <3> QED BY <1>1, <1>2, <2>1, <3>1, <3>2 DEF LinkOrder, MapNamesYoungest
  <2>2. ASSUME NEW d \in Caller, Linked(d)'
        PROVE  IF queues'[key'[d]] = None THEN Left(d)' ELSE ticket'[d] <= ticket'[queues'[key'[d]]]
    <3>1. CASE queues'[key[d]] = queues[key[d]]
      BY <1>1, <1>2, <2>2, <3>1 DEF LinkOrder, MapNamesYoungest
    <3>2. CASE key[d] = key[c] /\ queues[key[c]] = c
      <4>1. ticket[d] <= ticket[c] /\ queues'[key'[d]] = None
        BY <1>1, <1>2, <2>2, <3>2 DEF LinkOrder, MapNamesYoungest
      <4>2. Left(d)'
        <5>1. CASE d = c BY <1>2, <5>1
        <5>2. CASE d # c
          <6>1. ticket[d] # ticket[c]
            <7>1. Linked(d) BY <1>2, <2>2
            <7>2. status[c] # "new" /\ status[d] # "new" BY <1>1, <7>1 DEF Linked
            <7> QED BY <5>2, <7>2 DEF RegistrationInOrder
          <6>2. Before(d, c) BY <1>2, <2>2, <3>2, <4>1, <6>1 DEF Before
          <6> QED BY <1>1, <1>2, <6>2 DEF LinkOrder, OneAtATimeInOrder
        <5> QED BY <5>1, <5>2
      <4> QED BY <4>1, <4>2
    <3> QED BY <1>1, <3>1, <3>2
  <2> QED BY <2>1, <2>2 DEF MapNamesYoungest
<1> QED BY <1>4, <1>5, <1>6, <1>7 DEF LinkOrder

LEMMA NextLinks ==
  ASSUME QueueTypeOK, RegistrationInOrder, LinkOrder, [QueueNext]_queueVars
  PROVE  LinkOrder'
<1>1. ASSUME NEW c \in Caller, Call(c) \/ ResolveKey(c) \/ RejectKey(c) PROVE LinkOrder'
  <2>1. UNCHANGED <<queues, currentQueue, released, chained>>
    BY <1>1 DEF Call, ResolveKey, RejectKey
  <2>2. ~Linked(c) /\ ~Linked(c)'
    BY <1>1 DEF Call, ResolveKey, RejectKey, Linked, QueueTypeOK
  <2>3. \A d \in Caller : d # c =>
          status'[d] = status[d] /\ key'[d] = key[d] /\ ticket'[d] = ticket[d]
    BY <1>1 DEF Call, ResolveKey, RejectKey, QueueTypeOK
  <2>4. \A d \in Caller : Linked(d)' = Linked(d)
    BY <2>2, <2>3 DEF Linked
  <2>5. \A d \in Caller : Linked(d) =>
          status'[d] = status[d] /\ key'[d] = key[d] /\ ticket'[d] = ticket[d]
    BY <2>2, <2>3
  <2> QED BY <2>1, <2>4, <2>5, LinksUntouched
<1>2. ASSUME NEW c \in Caller, Register(c) PROVE LinkOrder' BY <1>2, RegisterKeepsOrder
<1>3. ASSUME NEW c \in Caller, Enter(c) PROVE LinkOrder' BY <1>3, EnterKeepsOrder
<1>4. ASSUME NEW c \in Caller, Leave(c) PROVE LinkOrder' BY <1>4, LeaveKeepsOrder
<1>5. ASSUME NEW c \in Caller, ResolveChained(c) PROVE LinkOrder'
  <2>1. /\ c \in released /\ chained' = chained \cup {c}
        /\ UNCHANGED <<status, key, queues, currentQueue, released, ticket>>
    BY <1>5 DEF ResolveChained
  <2> QED BY <2>1 DEF LinkOrder, MapNamesYoungest, WaitsForNextOlder, ReleasedHaveLeft,
                      OneAtATimeInOrder, Before, Linked, Left
<1>6. CASE UNCHANGED <<status, key, queues, currentQueue, released, chained, ticket>>
  BY <1>6, LinksUntouched DEF Linked
<1>7. ASSUME NEW p \in Path, FileSystemStep(p) PROVE LinkOrder' BY <1>6, <1>7 DEF FileSystemStep
<1>8. CASE UNCHANGED queueVars BY <1>6, <1>8 DEF queueVars
<1> QED BY <1>1, <1>2, <1>3, <1>4, <1>5, <1>7, <1>8 DEF QueueNext, CallerStep
-----------------------------------------------------------------------------
THEOREM OrderIsInvariant == QueueSpec => [](QueueOrder /\ OneAtATimeInOrder)
<1>1. QueueOrder /\ OneAtATimeInOrder <=> RegistrationInOrder /\ LinkOrder
  BY DEF QueueOrder, LinkOrder
<1>2. QueueTypeOK /\ RegistrationInOrder /\ LinkOrder /\ [QueueNext]_queueVars => (RegistrationInOrder /\ LinkOrder)'
  BY NextRegistration, NextLinks
<1> QED BY InitOrder, QueueTypeCorrect, <1>1, <1>2, PTL DEF QueueSpec

\* The functions of one key run one at a time and in the order of the calls
\* (OneAtATimeInOrder), for any number of calls.
THEOREM KeysAreSerialized == QueueSpec => []OneAtATimeInOrder
BY OrderIsInvariant, PTL

\* The map of queues holds a key exactly as long as a call of it is not over
\* (QueuesTidy): entries neither leak nor go under a call.
THEOREM QueuesStayTidy == QueueSpec => []QueuesTidy
<1>1. QueueTypeOK /\ QueueOrder => QueuesTidy
  <2> SUFFICES ASSUME QueueTypeOK, QueueOrder, NEW k \in Path
               PROVE  queues[k] # None <=>
                        \E c \in Caller : key[c] = k /\ status[c] \in {"waiting", "running"}
    BY DEF QueuesTidy
  <2>1. ASSUME queues[k] # None
        PROVE  \E c \in Caller : key[c] = k /\ status[c] \in {"waiting", "running"}
    BY <2>1 DEF QueueOrder, MapNamesYoungest, QueueTypeOK
  <2>2. ASSUME NEW c \in Caller, key[c] = k, status[c] \in {"waiting", "running"}
        PROVE  queues[k] # None
    <3>1. Linked(c) /\ ~Left(c) BY <2>2 DEF Linked, Left
    <3> QED BY <2>2, <3>1 DEF QueueOrder, MapNamesYoungest
  <2> QED BY <2>1, <2>2
<1> QED BY OrderIsInvariant, QueueTypeCorrect, <1>1, PTL
-----------------------------------------------------------------------------
\* The lines of the lock, seen from one call.
LEMMA LinesUntouched ==
  ASSUME QueueTypeOK,
         \A c \in Caller : Linked(c)' = Linked(c),
         \A c \in Caller : Linked(c) =>
           status'[c] = status[c] /\ key'[c] = key[c] /\ ticket'[c] = ticket[c]
  PROVE  UNCHANGED Lock!lockVars
<1>1. \A c, d \in Caller : Before(d, c)' <=> Before(d, c) BY DEF Before
<1>2. \A c \in Caller : /\ Left(c)' <=> Left(c)
                        /\ status'[c] = "running" <=> status[c] = "running"
                        /\ status'[c] = "waiting" <=> status[c] = "waiting"
  BY DEF Left, Linked
<1>3. \A k \in Path : InLine(k)' = InLine(k)
  <2>1. \A c \in Caller : status[c] \in {"waiting", "running"} => Linked(c) BY DEF Linked
  <2> QED BY <1>2, <2>1 DEF InLine
<1>4. \A c \in Caller : AheadOf(c)' = AheadOf(c) BY <1>1, <1>2 DEF AheadOf
<1> QED BY <1>2, <1>3, <1>4 DEF Lock!lockVars

LEMMA InitLock == QueueInit => Lock!Init
<1> SUFFICES ASSUME QueueInit PROVE Lock!Init OBVIOUS
<1>1. \A c \in Caller : status[c] = "new" BY DEF QueueInit
<1>2. \A k \in Path : InLine(k) = {} BY <1>1 DEF InLine
<1>3. \A c \in Caller : ~Left(c) /\ AheadOf(c) = {} BY <1>1 DEF AheadOf, Before, Linked, Left
<1> QED BY <1>1, <1>2, <1>3 DEF Lock!Init

\* Register is the step in which a call joins the line of its key.
LEMMA RegisterJoins ==
  ASSUME QueueTypeOK, RegistrationInOrder, LinkOrder, NEW c \in Caller, Register(c),
         NEW k \in Path, k = key[c]
  PROVE  Lock!Join(c, k)
<1> USE DEF QueueTypeOK
<1>1. /\ status[c] = "keyed" /\ status' = [status EXCEPT ![c] = "waiting"]
      /\ UNCHANGED <<key, ticket>>
  BY DEF Register
<1>2. \A d \in Caller : Linked(d) => ticket[d] < ticket[c]
  <2>1. 1 \in DOMAIN registration /\ registration[1] = c
    BY TailProperties DEF Register, IsRegistering
  <2> QED BY <2>1 DEF RegistrationInOrder
<1>3. /\ ~Linked(c) /\ Linked(c)' /\ ~Left(c)'
      /\ \A d \in Caller : d # c => (Linked(d)' <=> Linked(d)) /\ (Left(d)' <=> Left(d))
  BY <1>1 DEF Linked, Left
<1>4. ~Left(c) /\ \A d \in Caller : Left(d)' <=> Left(d) BY <1>1, <1>3 DEF Left
<1>5. \A j \in Path : InLine(j)' = IF j = key[c] THEN InLine(j) \cup {c} ELSE InLine(j)
  BY <1>1 DEF InLine
<1>6. \A j \in Path : c \notin InLine(j) BY <1>1 DEF InLine
<1>7. AheadOf(c)' = InLine(key[c])
  <2>1. \A d \in Caller : Before(d, c)' <=> Linked(d) /\ key[d] = key[c]
    BY <1>1, <1>2, <1>3 DEF Before
  <2>2. \A d \in Caller : Linked(d) /\ ~Left(d) <=> status[d] \in {"waiting", "running"}
    BY DEF Linked, Left
  <2> QED BY <1>4, <2>1, <2>2 DEF AheadOf, InLine
<1>8. ASSUME NEW e \in Caller, e # c PROVE AheadOf(e)' = AheadOf(e)
  <2>1. ~Before(c, e)' /\ ~Before(c, e) BY <1>1, <1>2, <1>3, <1>8 DEF Before
  <2>2. \A d \in Caller : d # c => (Before(d, e)' <=> Before(d, e))
    BY <1>1, <1>3, <1>8 DEF Before
  <2> QED BY <1>4, <2>1, <2>2 DEF AheadOf
<1>9. \A d \in Caller : status'[d] = "running" <=> status[d] = "running" BY <1>1
<1> DEFINE line == [j \in Path |-> InLine(j)]
           ahead == [d \in Caller |-> AheadOf(d)]
<1>10. line' = [line EXCEPT ![key[c]] = line[key[c]] \cup {c}] BY <1>5
<1>11. ahead' = [ahead EXCEPT ![c] = line[key[c]]] BY <1>7, <1>8
<1>12. /\ {d \in Caller : Left(d)}' = {d \in Caller : Left(d)} /\ c \notin {d \in Caller : Left(d)}
       /\ {d \in Caller : status[d] = "running"}' = {d \in Caller : status[d] = "running"}
  BY <1>4, <1>9
<1>13. \A j \in Path : c \notin line[j] BY <1>6
<1> QED BY <1>10, <1>11, <1>12, <1>13 DEF Lock!Join

\* Who starts to run has nobody ahead of it.
LEMMA EnterEnters ==
  ASSUME QueueTypeOK, RegistrationInOrder, LinkOrder, NEW c \in Caller, Enter(c)
  PROVE  Lock!Enter(c)
<1> USE DEF QueueTypeOK
<1>1. /\ status[c] = "waiting" /\ status' = [status EXCEPT ![c] = "running"]
      /\ UNCHANGED <<key, ticket>>
  BY DEF Enter
<1>2. \A d \in Caller : (Linked(d)' <=> Linked(d)) /\ (Left(d)' <=> Left(d))
  BY <1>1 DEF Linked, Left
<1>3. \A d, e \in Caller : Before(d, e)' <=> Before(d, e) BY <1>1, <1>2 DEF Before
<1>4. AheadOf(c) = {} BY FirstInLine DEF AheadOf
<1>5. \A d \in Caller : AheadOf(d)' = AheadOf(d) BY <1>2, <1>3 DEF AheadOf
<1>6. \A j \in Path : InLine(j)' = InLine(j) BY <1>1 DEF InLine
<1>7. key[c] \in Path /\ c \in InLine(key[c]) BY <1>1 DEF InLine
<1>8. {d \in Caller : status[d] = "running"}' = {d \in Caller : status[d] = "running"} \cup {c}
  BY <1>1
<1>9. /\ {d \in Caller : Left(d)}' = {d \in Caller : Left(d)}
      /\ c \notin {d \in Caller : status[d] = "running"}
  BY <1>1, <1>2
<1>10. /\ [j \in Path |-> InLine(j)]' = [j \in Path |-> InLine(j)]
       /\ [d \in Caller |-> AheadOf(d)]' = [d \in Caller |-> AheadOf(d)]
  BY <1>5, <1>6
<1> QED BY <1>4, <1>7, <1>8, <1>9, <1>10 DEF Lock!Enter

\* Who is over leaves its line, and nobody has it ahead any more.
LEMMA LeaveLeaves ==
  ASSUME QueueTypeOK, RegistrationInOrder, LinkOrder, NEW c \in Caller, Leave(c),
         NEW k \in Path, k = key[c]
  PROVE  Lock!Leave(c, k)
<1> USE DEF QueueTypeOK
<1>1. /\ status[c] = "running"
      /\ status' = [status EXCEPT ![c] = "returned"] \/ status' = [status EXCEPT ![c] = "threw"]
      /\ UNCHANGED <<key, ticket>>
  BY DEF Leave
<1>2. \A d \in Caller : (Linked(d)' <=> Linked(d)) /\ (Left(d)' <=> Left(d) \/ d = c)
  BY <1>1 DEF Linked, Left
<1>3. \A d, e \in Caller : Before(d, e)' <=> Before(d, e) BY <1>1, <1>2 DEF Before
<1>4. \A d \in Caller : AheadOf(d)' = AheadOf(d) \ {c} BY <1>2, <1>3 DEF AheadOf
<1>5. \A j \in Path : InLine(j)' = InLine(j) \ {c} BY <1>1 DEF InLine
<1>6. \A j \in Path : j # key[c] => c \notin InLine(j) BY DEF InLine
<1>7. key[c] \in Path /\ c \in InLine(key[c]) BY <1>1 DEF InLine
<1>8. {d \in Caller : status[d] = "running"}' = {d \in Caller : status[d] = "running"} \ {c}
  BY <1>1
<1>9. /\ {d \in Caller : Left(d)}' = {d \in Caller : Left(d)} \cup {c}
      /\ c \in {d \in Caller : status[d] = "running"}
  BY <1>1, <1>2
<1> DEFINE line == [j \in Path |-> InLine(j)]
           ahead == [d \in Caller |-> AheadOf(d)]
<1>10. line' = [line EXCEPT ![key[c]] = line[key[c]] \ {c}]
  <2>1. ASSUME NEW j \in Path, j # key[c] PROVE InLine(j)' = InLine(j)
    <3>1. InLine(j)' = InLine(j) \ {c} BY <1>5
    <3>2. c \notin InLine(j) BY <1>6, <2>1
    <3> QED BY <3>1, <3>2
  <2> QED BY <1>5, <2>1
<1>11. ahead' = [d \in Caller |-> ahead[d] \ {c}] BY <1>4
<1>12. c \in line[key[c]] BY <1>7
<1> QED BY <1>8, <1>9, <1>10, <1>11, <1>12 DEF Lock!Leave

LEMMA NextLock ==
  ASSUME QueueTypeOK, RegistrationInOrder, LinkOrder, [QueueNext]_queueVars
  PROVE  [Lock!Next]_(Lock!lockVars)
<1>1. \A c \in Caller : key[c] \in Path BY DEF QueueTypeOK
<1>2. ASSUME NEW c \in Caller, Call(c) \/ ResolveKey(c) \/ RejectKey(c)
      PROVE  UNCHANGED Lock!lockVars
  <2>1. ~Linked(c) /\ ~Linked(c)'
    BY <1>2 DEF Call, ResolveKey, RejectKey, Linked, QueueTypeOK
  <2>2. \A d \in Caller : d # c =>
          status'[d] = status[d] /\ key'[d] = key[d] /\ ticket'[d] = ticket[d]
    BY <1>2 DEF Call, ResolveKey, RejectKey, QueueTypeOK
  <2>3. \A d \in Caller : Linked(d)' = Linked(d) BY <2>1, <2>2 DEF Linked
  <2>4. \A d \in Caller : Linked(d) =>
          status'[d] = status[d] /\ key'[d] = key[d] /\ ticket'[d] = ticket[d]
    BY <2>1, <2>2
  <2> QED BY <2>3, <2>4, LinesUntouched
<1>3. ASSUME NEW c \in Caller, Register(c) PROVE Lock!Next
  <2>1. PICK k \in Path : k = key[c] BY <1>1
  <2>2. Lock!Join(c, k) BY <1>3, <2>1, RegisterJoins
  <2> QED BY <2>2 DEF Lock!Next
<1>4. ASSUME NEW c \in Caller, Enter(c) PROVE Lock!Next BY <1>4, EnterEnters DEF Lock!Next
<1>5. ASSUME NEW c \in Caller, Leave(c) PROVE Lock!Next
  <2>1. PICK k \in Path : k = key[c] BY <1>1
  <2>2. Lock!Leave(c, k) BY <1>5, <2>1, LeaveLeaves
  <2> QED BY <2>2 DEF Lock!Next
<1>6. ASSUME UNCHANGED <<status, key, ticket>> PROVE UNCHANGED Lock!lockVars
  BY <1>6, LinesUntouched DEF Linked
<1>7. ASSUME NEW c \in Caller, ResolveChained(c) PROVE UNCHANGED Lock!lockVars
  BY <1>6, <1>7 DEF ResolveChained
<1>8. ASSUME NEW p \in Path, FileSystemStep(p) PROVE UNCHANGED Lock!lockVars
  BY <1>6, <1>8 DEF FileSystemStep
<1>9. CASE UNCHANGED queueVars BY <1>6, <1>9 DEF queueVars
<1> QED BY <1>2, <1>3, <1>4, <1>5, <1>7, <1>8, <1>9 DEF QueueNext, CallerStep

\* The chains of promises implement, for each key, a first-come first-served lock
\* (ImplementsLock): every step is a step of FileLock or leaves it as it is.
THEOREM QueueImplementsLock == QueueSpec => ImplementsLock
<1>1. QueueOrder /\ OneAtATimeInOrder <=> RegistrationInOrder /\ LinkOrder
  BY DEF QueueOrder, LinkOrder
<1>2. QueueTypeOK /\ RegistrationInOrder /\ LinkOrder /\ [QueueNext]_queueVars => [Lock!Next]_(Lock!lockVars)
  BY NextLock
<1> QED BY InitLock, QueueTypeCorrect, OrderIsInvariant, <1>1, <1>2, PTL
        DEF QueueSpec, ImplementsLock, Lock!Safety
-----------------------------------------------------------------------------
(* What one more mutation does to a session log: nothing to what the       *)
(* session knew before, so that a log replays if its mutations were        *)
(* accepted one by one.                                                    *)

LEMMA AppendIs ==
  ASSUME NEW S, NEW s \in Seq(S), NEW x
  PROVE  /\ Len(Append(s, x)) = Len(s) + 1
         /\ Append(s, x)[Len(s) + 1] = x
         /\ \A i \in 1..Len(s) : Append(s, x)[i] = s[i]
BY SMT

LEMMA LastOfAppend ==
  ASSUME NEW S, NEW s \in Seq(S), NEW x \in S
  PROVE  /\ Append(s, x) \in Seq(S) /\ Append(s, x) # <<>>
         /\ Front(Append(s, x)) = s /\ Last(Append(s, x)) = x
<1>1. Front(Append(s, x)) \in Seq(S) /\ Len(Front(Append(s, x))) = Len(s)
  BY DEF Front
<1>2. \A i \in 1..Len(s) : Front(Append(s, x))[i] = s[i]
  BY DEF Front
<1>3. Front(Append(s, x)) = s
  BY <1>1, <1>2, SeqEqual
<1>4. Append(s, x) \in Seq(S) /\ Len(Append(s, x)) = Len(s) + 1 /\ Len(s) \in Nat
  OBVIOUS
<1>5. Append(s, x) # <<>> BY <1>4, EmptySeq
<1> QED BY <1>3, <1>4, <1>5, AppendIs DEF Last

LEMMA FrontIsSeq ==
  ASSUME NEW S, NEW s \in Seq(S), s # <<>>
  PROVE  /\ Front(s) \in Seq(S) /\ Last(s) \in S
         /\ Len(Front(s)) = Len(s) - 1 /\ Len(s) \in Nat \ {0}
         /\ \A i \in 1..Len(Front(s)) : Front(s)[i] = s[i]
<1>1. Len(s) \in Nat \ {0} BY EmptySeq
<1>2. Front(s) \in Seq(S) /\ Len(Front(s)) = Len(s) - 1
  <2>1. \A i \in 1..(Len(s) - 1) : s[i] \in S BY <1>1
  <2>2. 1 \in Int /\ Len(s) - 1 \in Int BY <1>1
  <2>3. Front(s) \in Seq(S) /\ Len(Front(s)) = IF 1 <= Len(s) - 1 THEN Len(s) - 1 - 1 + 1 ELSE 0
    BY <2>1, <2>2, SubSeqProperties DEF Front
  <2>4. ASSUME NEW k \in Nat \ {0} PROVE (IF 1 <= k - 1 THEN k - 1 - 1 + 1 ELSE 0) = k - 1
    OBVIOUS
  <2> QED BY <1>1, <2>3, <2>4
<1>3. \A i \in 1..Len(Front(s)) : Front(s)[i] = s[i] BY <1>1, <1>2 DEF Front
<1>4. Last(s) \in S BY <1>1 DEF Last
<1> QED BY <1>1, <1>2, <1>3, <1>4

LEMMA ElementsOfAppend ==
  ASSUME NEW S, NEW s \in Seq(S), NEW x \in S
  PROVE  ToSet(Append(s, x)) = ToSet(s) \cup {x}
<1>1. DOMAIN Append(s, x) = 1..(Len(s) + 1) /\ DOMAIN s = 1..Len(s) /\ Len(s) \in Nat
  OBVIOUS
<1>2. ASSUME NEW y \in ToSet(Append(s, x)) PROVE y \in ToSet(s) \cup {x}
  BY <1>1, AppendIs DEF ToSet
<1>3. ASSUME NEW y \in ToSet(s) PROVE y \in ToSet(Append(s, x))
  BY <1>1, AppendIs DEF ToSet
<1>4. x \in ToSet(Append(s, x))
  BY <1>1, AppendIs DEF ToSet
<1> QED BY <1>2, <1>3, <1>4
-----------------------------------------------------------------------------
\* What the session knows after n mutations is the same when one more is appended.
LEMMA PrefixKnows ==
  ASSUME NEW S, NEW log \in Seq(S), NEW m, NEW n \in 0..Len(log)
  PROVE  /\ EntryIds(Append(log, m), n) = EntryIds(log, n)
         /\ UsedIds(Append(log, m), n) = UsedIds(log, n)
         /\ Lanes(Append(log, m), n) = Lanes(log, n)
         /\ \A lane : LeafOf(Append(log, m), n, lane) = LeafOf(log, n, lane)
         /\ \A lane : OpenOperations(Append(log, m), n, lane) = OpenOperations(log, n, lane)
<1> DEFINE more == Append(log, m)
<1>1. \A i \in 1..n : more[i] = log[i] BY AppendIs
<1> HIDE DEF more
<1>2. \A kinds : Of(more, n, kinds) = Of(log, n, kinds) BY <1>1 DEF Of
<1>3. \A kinds : \A i \in Of(log, n, kinds) : more[i] = log[i] BY <1>1 DEF Of
<1>4. EntryIds(more, n) = EntryIds(log, n) BY <1>2, <1>3 DEF EntryIds
<1>5. UsedIds(more, n) = UsedIds(log, n) BY <1>2, <1>3 DEF UsedIds
<1>6. Lanes(more, n) = Lanes(log, n) BY <1>2, <1>3 DEF Lanes
<1>7. ASSUME NEW lane PROVE LeafOf(more, n, lane) = LeafOf(log, n, lane)
  <2> DEFINE moves(l) == {i \in Of(l, n, {"lane", "entry"}) : l[i].lane = lane}
  <2>1. moves(more) = moves(log) BY <1>2, <1>3
  <2>2. \A i \in Latest(moves(log)) : more[i] = log[i] BY <1>3 DEF Latest
  <2> HIDE DEF moves
  <2>3. Latest(moves(log)) # {} => (CHOOSE i \in Latest(moves(log)) : TRUE) \in Latest(moves(log))
    OBVIOUS
  <2>4. more[CHOOSE i \in Latest(moves(more)) : TRUE] = log[CHOOSE i \in Latest(moves(log)) : TRUE]
          \/ Latest(moves(log)) = {}
    BY <2>1, <2>2, <2>3
  <2> QED BY <2>1, <2>4 DEF LeafOf, moves
<1>8. ASSUME NEW lane PROVE OpenOperations(more, n, lane) = OpenOperations(log, n, lane)
  <2> DEFINE open(l) ==
        {i \in Of(l, n, {"record"}) :
          /\ l[i].lane = lane /\ l[i].type = "operation_started"
          /\ \A j \in Of(l, n, {"record"}) :
               ~(/\ i < j /\ l[j].lane = lane
                 /\ l[j].type = "operation_finished" /\ l[j].runId = l[i].id)}
  <2>1. open(more) = open(log) BY <1>2, <1>3
  <2>2. \A i \in open(log) : more[i] = log[i] BY <1>3
  <2>3. OpenOperations(more, n, lane) = {more[i].id : i \in open(more)}
    BY DEF OpenOperations
  <2>4. OpenOperations(log, n, lane) = {log[i].id : i \in open(log)}
    BY DEF OpenOperations
  <2> HIDE DEF open
  <2> QED BY <2>1, <2>2, <2>3, <2>4
<1> QED BY <1>4, <1>5, <1>6, <1>7, <1>8 DEF more

\* A log replays if it did before its last mutation, and that was accepted.
LEMMA ReplaysOneMore ==
  ASSUME NEW S, NEW log \in Seq(S), NEW m, Replays(log), Accepts(log, Len(log), m)
  PROVE  Replays(Append(log, m))
<1> SUFFICES ASSUME NEW n \in 1..(Len(log) + 1)
             PROVE  Accepts(Append(log, m), n - 1, Append(log, m)[n])
  BY AppendIs DEF Replays
<1>1. n - 1 \in 0..Len(log) BY LenProperties
<1>2. Accepts(log, n - 1, Append(log, m)[n])
  <2>1. CASE n = Len(log) + 1 BY <2>1, AppendIs, LenProperties
  <2>2. CASE n \in 1..Len(log) BY <2>2, AppendIs DEF Replays
  <2> QED BY <2>1, <2>2, LenProperties
<1> QED BY <1>1, <1>2, PrefixKnows DEF Accepts

\* A lane points at an entry of the log, or nowhere.
LEMMA LeavesExist ==
  ASSUME NEW log \in Seq(Mutation), Replays(log), NEW lane \in Lane
  PROVE  LeafOf(log, Len(log), lane) \in EntryIds(log, Len(log)) \cup {Null}
<1> DEFINE n == Len(log)
           moves == {i \in Of(log, n, {"lane", "entry"}) : log[i].lane = lane}
           last == CHOOSE i \in Latest(moves) : TRUE
<1>1. CASE Latest(moves) = {} BY <1>1 DEF LeafOf
<1>2. CASE Latest(moves) # {}
  <2>1. last \in moves BY <1>2 DEF Latest
  <2>2. last \in 1..n /\ log[last].kind \in {"lane", "entry"} BY <2>1 DEF Of
  <2>3. LeafOf(log, n, lane) = IF log[last].kind = "lane" THEN log[last].leafId ELSE log[last].id
    BY <1>2 DEF LeafOf
  <2>4. CASE log[last].kind = "entry" BY <2>2, <2>3, <2>4 DEF EntryIds, Of
  <2>5. CASE log[last].kind = "lane"
    <3>1. log[last].leafId \in EntryIds(log, last - 1) \cup {Null}
      BY <2>2, <2>5 DEF Replays, Accepts
    <3>2. EntryIds(log, last - 1) \subseteq EntryIds(log, n)
      <4> HIDE DEF last, moves, n
      <4>1. n \in Nat /\ last \in 1..n BY <2>2, LenProperties DEF n
      <4>2. Of(log, last - 1, {"entry"}) \subseteq Of(log, n, {"entry"})
        BY <4>1, SMT DEF Of
      <4> QED BY <4>2, Zenon DEF EntryIds
    <3> QED BY <2>3, <2>5, <3>1, <3>2
  <2> QED BY <2>2, <2>4, <2>5
<1> QED BY <1>1, <1>2

-----------------------------------------------------------------------------
(* The storage.                                                            *)

LEMMA MutationsAreLines ==
  /\ Mutation \subseteq Line
  /\ \A m \in Mutation : Torn(m) \in Line /\ IsSyntaxError(Torn(m)) /\ ~IsSyntaxError(m)
  /\ Garbage \in Line
  /\ \A line \in Line : ~IsSyntaxError(line) => line \in Mutation
<1>1. \A m \in Mutation : ~IsSyntaxError(m)
  BY DEF IsSyntaxError, Mutation, EntryMutation, RecordMutation, LaneMutation, NameMutation,
         LabelMutation
<1>2. \A m \in Mutation : Torn(m) \in [kind : {"torn"}, of : Mutation] /\ IsSyntaxError(Torn(m))
  BY DEF Torn, IsSyntaxError
<1>3. \A line \in Line : ~IsSyntaxError(line) => line \in Mutation
  BY DEF Line, Garbage, IsSyntaxError
<1> QED BY <1>1, <1>2, <1>3 DEF Line

LEMMA TextTypes ==
  ASSUME NEW c \in Content, ~c.ended => c.lines # <<>>, NEW line \in Line, NEW ended \in BOOLEAN
  PROVE  /\ AddText(c, line, ended) \in Content
         /\ AddText(c, line, ended).lines # <<>>
<1>1. c.lines \in Seq(Line) BY DEF Content
<1>2. Append(c.lines, line) \in Seq(Line) /\ Append(c.lines, line) # <<>>
  BY <1>1, LastOfAppend
<1>3. CASE c.ended BY <1>2, <1>3 DEF AddText, Content
<1>4. CASE ~c.ended
  <2>1. Front(c.lines) \in Seq(Line) BY <1>1, <1>4, FrontIsSeq
  <2>2. Append(Front(c.lines), Garbage) \in Seq(Line) /\ Append(Front(c.lines), Garbage) # <<>>
    BY <2>1, LastOfAppend, MutationsAreLines
  <2> QED BY <1>4, <2>2 DEF AddText, Content
<1> QED BY <1>3, <1>4

LEMMA RestTypes ==
  ASSUME NEW c \in Content, ~c.ended => c.lines # <<>>, NEW m \in Mutation
  PROVE  AddRest(c, m) \in Content /\ AddRest(c, m).lines # <<>>
<1>1. c.lines \in Seq(Line) /\ m \in Line BY MutationsAreLines DEF Content
<1>2. CASE ~c.ended /\ Last(c.lines) \in {Torn(m), m}
  <2>1. Front(c.lines) \in Seq(Line) BY <1>1, <1>2, FrontIsSeq
  <2>2. Append(Front(c.lines), m) \in Seq(Line) /\ Append(Front(c.lines), m) # <<>>
    BY <1>1, <2>1, LastOfAppend
  <2> QED BY <1>2, <2>2 DEF AddRest, Content
<1>3. CASE ~(~c.ended /\ Last(c.lines) \in {Torn(m), m})
  BY <1>3, TextTypes, MutationsAreLines DEF AddRest
<1> QED BY <1>2, <1>3

\* What load reads out of a file that it accepts is a log.
LEMMA PrefixTypes ==
  ASSUME NEW c \in Content
  PROVE  /\ ValidPrefix(c) \in Seq(Line)
         /\ Loadable(c) => ValidPrefix(c) \in Seq(Mutation)
<1>1. c.lines \in Seq(Line) BY DEF Content
<1>2. ValidPrefix(c) \in Seq(Line)
  BY <1>1, FrontIsSeq DEF ValidPrefix, HasTornTail
<1>3. ASSUME Loadable(c) PROVE ValidPrefix(c) \in Seq(Mutation)
  <2>1. \A i \in 1..Len(ValidPrefix(c)) : ValidPrefix(c)[i] \in Mutation
    <3> SUFFICES ASSUME NEW i \in 1..Len(ValidPrefix(c)) PROVE ValidPrefix(c)[i] \in Mutation
      OBVIOUS
    <3>1. ~IsSyntaxError(ValidPrefix(c)[i]) BY <1>3 DEF Loadable
    <3>2. ValidPrefix(c)[i] \in Line BY <1>2, ElementOfSeq
    <3> QED BY <3>1, <3>2, MutationsAreLines
  <2> QED BY <1>2, <2>1
<1> QED BY <1>2, <1>3
-----------------------------------------------------------------------------
LEMMA LeafTypes ==
  ASSUME NEW log \in Seq(Mutation), NEW lane \in Lane
  PROVE  LeafOf(log, Len(log), lane) \in Id \cup {Null}
<1> DEFINE moves == {i \in Of(log, Len(log), {"lane", "entry"}) : log[i].lane = lane}
           last == CHOOSE i \in Latest(moves) : TRUE
<1>1. CASE Latest(moves) = {} BY <1>1 DEF LeafOf
<1>2. CASE Latest(moves) # {}
  <2>1. last \in 1..Len(log) /\ log[last].kind \in {"lane", "entry"}
    BY <1>2 DEF Latest, Of
  <2>2. log[last] \in Mutation BY <2>1
  <2>3. LeafOf(log, Len(log), lane)
          = IF log[last].kind = "lane" THEN log[last].leafId ELSE log[last].id
    BY <1>2 DEF LeafOf
  <2> HIDE DEF last
  <2> QED BY <2>1, <2>2, <2>3 DEF Mutation, EntryMutation, RecordMutation, LaneMutation,
             NameMutation, LabelMutation
<1> QED BY <1>1, <1>2

\* A mutation may open an operation of its lane, and nothing else does.
LEMMA OpenAfter ==
  ASSUME NEW log \in Seq(Mutation), NEW m \in Mutation, NEW lane
  PROVE  OpenOperations(Append(log, m), Len(log) + 1, lane)
           \subseteq OpenOperations(log, Len(log), lane)
             \cup IF m.kind = "record" /\ m.lane = lane /\ m.type = "operation_started"
                  THEN {m.id} ELSE {}
<1> DEFINE more == Append(log, m)
           n == Len(log)
<1>1. n \in Nat /\ more[n + 1] = m /\ \A i \in 1..n : more[i] = log[i] BY AppendIs
<1> HIDE DEF more, n
<1> SUFFICES ASSUME NEW i \in Of(more, n + 1, {"record"}),
                    more[i].lane = lane, more[i].type = "operation_started",
                    \A j \in Of(more, n + 1, {"record"}) :
                      ~(/\ i < j /\ more[j].lane = lane
                        /\ more[j].type = "operation_finished" /\ more[j].runId = more[i].id)
             PROVE  more[i].id \in OpenOperations(log, n, lane)
                      \cup IF m.kind = "record" /\ m.lane = lane /\ m.type = "operation_started"
                           THEN {m.id} ELSE {}
  BY DEF OpenOperations, more, n
<1>2. CASE i = n + 1 BY <1>1, <1>2 DEF Of
<1>3. CASE i # n + 1
  <2>1. i \in Of(log, n, {"record"}) /\ more[i] = log[i] BY <1>1, <1>3 DEF Of
  <2>2. \A j \in Of(log, n, {"record"}) : j \in Of(more, n + 1, {"record"}) /\ more[j] = log[j]
    BY <1>1 DEF Of
  <2> QED BY <2>1, <2>2 DEF OpenOperations
<1> QED BY <1>2, <1>3

\* What an operation appends to a log that replays is accepted, and opens at most
\* one operation per lane.
Fits(log, m) ==
  /\ Replays(log) => Accepts(log, Len(log), m)
  /\ AtMostOneOpen(log) => AtMostOneOpen(Append(log, m))

LEMMA FitsUnlessStarted ==
  ASSUME NEW log \in Seq(Mutation), NEW m \in Mutation,
         m.kind # "record" \/ m.type # "operation_started" \/
           OpenOperations(log, Len(log), m.lane) = {},
         AtMostOneOpen(log)
  PROVE  AtMostOneOpen(Append(log, m))
<1>1. Len(Append(log, m)) = Len(log) + 1 BY AppendIs
<1> SUFFICES ASSUME NEW lane \in Lane,
                    NEW a \in OpenOperations(Append(log, m), Len(log) + 1, lane),
                    NEW b \in OpenOperations(Append(log, m), Len(log) + 1, lane)
             PROVE  a = b
  BY <1>1 DEF AtMostOneOpen
<1>2. CASE m.kind = "record" /\ m.lane = lane /\ m.type = "operation_started"
  BY <1>2, OpenAfter
<1>3. CASE ~(m.kind = "record" /\ m.lane = lane /\ m.type = "operation_started")
  BY <1>3, OpenAfter DEF AtMostOneOpen
<1> QED BY <1>2, <1>3

LEMMA OperationBegins ==
  ASSUME TypeOK, NEW h \in Handle, Operation(h)
  PROVE  \E m \in Mutation : Begin(h, m) /\ Fits(mem[h], m)
<1> DEFINE log == mem[h]
           n == Len(mem[h])
<1>1. log \in Seq(Mutation) /\ n \in Nat BY DEF TypeOK
<1> USE DEF Mutation, NextSequence
<1>2. ASSUME NEW lane \in Lane, NEW to \in Id \cup {Null}, IsTarget(h, to), PointLane(h, lane, to)
      PROVE  \E m \in Mutation : Begin(h, m) /\ Fits(mem[h], m)
  <2> DEFINE m == [kind |-> "lane", seq |-> n + 1, lane |-> lane, leafId |-> to]
  <2>1. m \in Mutation BY <1>1 DEF LaneMutation
  <2>2. Accepts(log, n, m) BY <1>2 DEF Accepts, IsTarget
  <2>3. AtMostOneOpen(log) => AtMostOneOpen(Append(log, m))
    BY <1>1, <2>1, FitsUnlessStarted
  <2> QED BY <1>2, <2>1, <2>2, <2>3 DEF PointLane, Fits
<1>3. ASSUME NEW lane \in Lane, NEW id \in Id, NEW type \in EntryType, AppendEntry(h, lane, id, type)
      PROVE  \E m \in Mutation : Begin(h, m) /\ Fits(mem[h], m)
  <2> DEFINE m == [kind |-> "entry", seq |-> n + 1, lane |-> lane, id |-> id,
                   parentId |-> LeafOf(log, n, lane), type |-> type]
  <2>1. m \in Mutation BY <1>1, LeafTypes DEF EntryMutation
  <2>2. Replays(log) => Accepts(log, n, m)
    BY <1>1, <1>3, LeavesExist DEF Accepts, AppendEntry, HasLane, IsUnused
  <2>3. AtMostOneOpen(log) => AtMostOneOpen(Append(log, m))
    BY <1>1, <2>1, FitsUnlessStarted
  <2> QED BY <1>3, <2>1, <2>2, <2>3 DEF AppendEntry, Fits
<1>4. ASSUME NEW lane \in Lane, NEW id \in Id, StartOperation(h, lane, id)
      PROVE  \E m \in Mutation : Begin(h, m) /\ Fits(mem[h], m)
  <2> DEFINE m == [kind |-> "record", seq |-> n + 1, lane |-> lane, id |-> id,
                   type |-> "operation_started", runId |-> Null]
  <2>1. m \in Mutation BY <1>1 DEF RecordMutation
  <2>2. Accepts(log, n, m) BY <1>4 DEF Accepts, StartOperation, HasLane, IsUnused
  <2>3. OpenOperations(log, n, m.lane) = {} BY <1>4 DEF StartOperation, IsIdle
  <2>4. AtMostOneOpen(log) => AtMostOneOpen(Append(log, m))
    BY <1>1, <2>1, <2>3, FitsUnlessStarted
  <2> QED BY <1>4, <2>1, <2>2, <2>4 DEF StartOperation, Fits
<1>5. ASSUME NEW lane \in Lane, NEW id \in Id, NEW runId \in Id, FinishOperation(h, lane, id, runId)
      PROVE  \E m \in Mutation : Begin(h, m) /\ Fits(mem[h], m)
  <2> DEFINE m == [kind |-> "record", seq |-> n + 1, lane |-> lane, id |-> id,
                   type |-> "operation_finished", runId |-> runId]
  <2>1. m \in Mutation BY <1>1 DEF RecordMutation
  <2>2. Accepts(log, n, m) BY <1>5 DEF Accepts, FinishOperation, HasLane, IsUnused
  <2>3. AtMostOneOpen(log) => AtMostOneOpen(Append(log, m))
    BY <1>1, <2>1, FitsUnlessStarted
  <2> QED BY <1>5, <2>1, <2>2, <2>3 DEF FinishOperation, Fits
<1>6. ASSUME NEW text \in Text \cup {Null}, SetName(h, text)
      PROVE  \E m \in Mutation : Begin(h, m) /\ Fits(mem[h], m)
  <2> DEFINE m == [kind |-> "name", seq |-> n + 1, name |-> text]
  <2>1. m \in Mutation BY <1>1 DEF NameMutation
  <2>2. Accepts(log, n, m) BY DEF Accepts
  <2>3. AtMostOneOpen(log) => AtMostOneOpen(Append(log, m))
    BY <1>1, <2>1, FitsUnlessStarted
  <2> QED BY <1>6, <2>1, <2>2, <2>3 DEF SetName, Fits
<1>7. ASSUME NEW text \in Text \cup {Null}, NEW id \in Id, SetLabel(h, id, text)
      PROVE  \E m \in Mutation : Begin(h, m) /\ Fits(mem[h], m)
  <2> DEFINE m == [kind |-> "label", seq |-> n + 1, targetId |-> id, label |-> text]
  <2>1. m \in Mutation BY <1>1 DEF LabelMutation
  <2>2. Accepts(log, n, m) BY <1>7, NameAssumption DEF Accepts, SetLabel, IsTarget
  <2>3. AtMostOneOpen(log) => AtMostOneOpen(Append(log, m))
    BY <1>1, <2>1, FitsUnlessStarted
  <2> QED BY <1>7, <2>1, <2>2, <2>3 DEF SetLabel, Fits
<1> QED BY <1>2, <1>3, <1>4, <1>5, <1>6, <1>7 DEF Operation, CreateLane, MoveLane
-----------------------------------------------------------------------------
LEMMA InitTypes == Init => TypeOK
BY EmptySeq DEF Init, TypeOK, Content, Point

LEMMA NextTypes == TypeOK /\ [Next]_vars => TypeOK'
<1> SUFFICES ASSUME TypeOK, [Next]_vars PROVE TypeOK' OBVIOUS
<1> USE DEF TypeOK
<1>1. ASSUME NEW h \in Handle, NEW point \in Point, Goto(h, point), mem' \in [Handle -> Seq(Mutation)]
      PROVE  pc' \in [Handle -> Point] /\ acked' \in SUBSET Mutation
  <2>1. ToSet(mem'[h]) \subseteq Mutation BY <1>1 DEF ToSet
  <2> QED BY <1>1, <2>1 DEF Goto
<1>2. ASSUME NEW h \in Handle, NEW point \in Point, Goto(h, point),
             pc[h] \in {"append", "part", "written"} <=> point \in {"append", "part", "written"},
             pending' = pending
      PROVE  \A g \in Handle : pending'[g] # Null <=> pc'[g] \in {"append", "part", "written"}
  BY <1>2 DEF Goto
<1>3. ASSUME NEW h \in Handle, Read(h) PROVE TypeOK'
  <2>1. mem' \in [Handle -> Seq(Mutation)] BY <1>3, PrefixTypes DEF Read
  <2>2. AfterRead(file) \in Point \ {"append", "part", "written"} BY DEF AfterRead, Point
  <2> QED BY <1>1, <1>2, <1>3, <2>1, <2>2 DEF Read
<1>4. ASSUME NEW h \in Handle, Stage(h) PROVE TypeOK'
  <2>1. Seq(Mutation) \subseteq Seq(Line) BY MutationsAreLines, SeqMonotonic
  <2>2. tmp' \in Content BY <1>4, <2>1 DEF Stage, Content
  <2> QED BY <1>1, <1>2, <1>4, <2>2 DEF Stage, Point
<1>5. ASSUME NEW h \in Handle, Publish(h) PROVE TypeOK'
  BY <1>1, <1>2, <1>5 DEF Publish, Point
<1>6. ASSUME NEW h \in Handle, RepairNewline(h) PROVE TypeOK'
  <2>1. file' \in Content /\ (~file'.ended => file'.lines # <<>>)
    BY <1>6, TextTypes, MutationsAreLines DEF RepairNewline, Content
  <2> QED BY <1>1, <1>2, <1>6, <2>1 DEF RepairNewline, Point
<1>7. ASSUME NEW h \in Handle, LoadFails(h) PROVE TypeOK'
  <2>1. mem' \in [Handle -> Seq(Mutation)] BY <1>7, EmptySeq DEF LoadFails
  <2> QED BY <1>1, <1>2, <1>7, <2>1 DEF LoadFails, Point
<1>8. ASSUME NEW h \in Handle, Operation(h) PROVE TypeOK'
  <2>1. PICK m \in Mutation : Begin(h, m) BY <1>8, OperationBegins
  <2>2. m # Null BY StorageAssumption
  <2>3. \A g \in Handle : pending'[g] # Null <=> pc'[g] \in {"append", "part", "written"}
    BY <2>1, <2>2 DEF Begin, Goto
  <2> QED BY <1>1, <2>1, <2>3 DEF Begin, Point
<1>9. ASSUME NEW h \in Handle, pc[h] \in {"append", "part", "written"} PROVE pending[h] \in Mutation
  BY <1>9
<1>10. ASSUME NEW h \in Handle, WritePart(h) PROVE TypeOK'
  <2>1. pending[h] \in Line /\ Torn(pending[h]) \in Line
    BY <1>9, <1>10, MutationsAreLines DEF WritePart
  <2>2. file' \in Content /\ file'.lines # <<>>
    BY <1>10, <2>1, TextTypes DEF WritePart
  <2> QED BY <1>1, <1>2, <1>10, <2>2 DEF WritePart, Point
<1>11. ASSUME NEW h \in Handle, Write(h) PROVE TypeOK'
  <2>1. pending[h] \in Mutation /\ pending[h] \in Line
    BY <1>9, <1>11, MutationsAreLines DEF Write
  <2>2. file' \in Content /\ (~file'.ended => file'.lines # <<>>)
    BY <1>11, <2>1, TextTypes, RestTypes DEF Write
  <2>3. pc[h] \in {"append", "part", "written"} BY <1>11 DEF Write
  <2> QED BY <1>1, <1>2, <1>11, <2>2, <2>3 DEF Write, Point
<1>12. ASSUME NEW h \in Handle, Settled(h), Goto(h, "ready")
      PROVE  /\ pending' \in [Handle -> Mutation \cup {Null}]
             /\ \A g \in Handle : pending'[g] # Null <=> pc'[g] \in {"append", "part", "written"}
  BY <1>12 DEF Settled, Goto
<1>13. ASSUME NEW h \in Handle, Acknowledge(h) PROVE TypeOK'
  <2>1. pending[h] \in Mutation BY <1>9, <1>13 DEF Acknowledge
  <2>2. Applied(mem[h], pending[h]) \in Seq(Mutation) BY <2>1, LastOfAppend DEF Applied
  <2>3. mem' \in [Handle -> Seq(Mutation)] BY <1>13, <2>2 DEF Acknowledge
  <2> QED BY <1>1, <1>12, <1>13, <2>3 DEF Acknowledge, Point
<1>14. ASSUME NEW h \in Handle, AppendFails(h) PROVE TypeOK'
  <2>1. mem' \in [Handle -> Seq(Mutation)] BY <1>14 DEF AppendFails, AfterFailure
  <2> QED BY <1>1, <1>12, <1>14, <2>1 DEF AppendFails, Point
<1>15. ASSUME Crash PROVE TypeOK'
  BY <1>15, EmptySeq DEF Crash, Point
<1>16. CASE UNCHANGED vars BY <1>16 DEF vars
<1> QED BY <1>3, <1>4, <1>5, <1>6, <1>7, <1>8, <1>10, <1>11, <1>13, <1>14, <1>15, <1>16 DEF Next

\* Every variable keeps its type (TypeOK), for any number of storages.
THEOREM TypeCorrect == Spec => []TypeOK
BY InitTypes, NextTypes, PTL DEF Spec
-----------------------------------------------------------------------------
\* One storage has the file open, and an append that fails leaves nothing behind.
OneStorage == ~PartialWrites /\ \E h : Handle = {h}

IsKept(log) == Replays(log) /\ AtMostOneOpen(log) /\ acked \subseteq ToSet(log)
FileKept == Loadable(file) /\ IsKept(ValidPrefix(file))

\* What is in the file at each step of the storage.
FileIs(h) ==
  /\ h \notin detached
  /\ IF pc[h] = "closed" THEN mem[h] = <<>> /\ FileKept ELSE IsKept(mem[h])
  /\ pc[h] \in {"append", "part", "written"} =>
       /\ Accepts(mem[h], Len(mem[h]), pending[h])
       /\ AtMostOneOpen(Append(mem[h], pending[h]))
  /\ pc[h] \in {"ready", "append"} => file = [lines |-> mem[h], ended |-> TRUE]
  /\ pc[h] = "part" =>
       /\ ~file.ended
       /\ \E text \in {Torn(pending[h]), pending[h]} : file.lines = Append(mem[h], text)
  /\ pc[h] = "written" => file = [lines |-> Append(mem[h], pending[h]), ended |-> TRUE]
  /\ pc[h] = "newline" => ~file.ended /\ file.lines = mem[h]
  /\ pc[h] \in {"stage", "rename"} => HasTornTail(file) /\ ValidPrefix(file) = mem[h]
  /\ pc[h] = "rename" => tmp = [lines |-> mem[h], ended |-> TRUE]

LEMMA CleanFile ==
  ASSUME NEW c \in Content, c.lines \in Seq(Mutation)
  PROVE  /\ ~HasTornTail(c) /\ ValidPrefix(c) = c.lines
         /\ Replays(c.lines) => Loadable(c)
<1>1. \A i \in 1..Len(c.lines) : ~IsSyntaxError(c.lines[i]) BY MutationsAreLines
<1>2. c.lines # <<>> => ~IsSyntaxError(Last(c.lines)) BY FrontIsSeq, MutationsAreLines
<1>3. ValidPrefix(c) = c.lines BY <1>2 DEF ValidPrefix, HasTornTail
<1> QED BY <1>1, <1>2, <1>3 DEF Loadable, HasTornTail

LEMMA TornFile ==
  ASSUME NEW c \in Content, HasTornTail(c), ValidPrefix(c) \in Seq(Mutation),
         Replays(ValidPrefix(c))
  PROVE  Loadable(c)
BY MutationsAreLines DEF Loadable

LEMMA TornLine ==
  ASSUME NEW c \in Content, NEW log \in Seq(Mutation), NEW m \in Mutation,
         c.lines = Append(log, Torn(m))
  PROVE  HasTornTail(c) /\ ValidPrefix(c) = log
<1>1. log \in Seq(Line) BY MutationsAreLines, SeqMonotonic
<1>2. Last(c.lines) = Torn(m) /\ Front(c.lines) = log /\ c.lines # <<>>
  BY <1>1, MutationsAreLines, LastOfAppend
<1> QED BY <1>2, MutationsAreLines DEF HasTornTail, ValidPrefix

LEMMA IsKeptOneMore ==
  ASSUME NEW log \in Seq(Mutation), NEW m \in Mutation, IsKept(log),
         Accepts(log, Len(log), m), AtMostOneOpen(Append(log, m))
  PROVE  IsKept(Append(log, m))
BY ReplaysOneMore, ElementsOfAppend DEF IsKept

\* At every step, the file keeps what was acknowledged.
LEMMA AlwaysKept ==
  ASSUME TypeOK, NEW h \in Handle, FileIs(h)
  PROVE  FileKept
<1> DEFINE log == mem[h]
           m == pending[h]
<1>1. log \in Seq(Mutation) /\ file \in Content BY DEF TypeOK
<1>2. CASE pc[h] = "closed" BY <1>2 DEF FileIs
<1>3. CASE pc[h] \in {"ready", "append", "newline"}
  <2>1. file.lines = log /\ IsKept(log) BY <1>3 DEF FileIs
  <2> QED BY <1>1, <2>1, CleanFile DEF FileKept, IsKept
<1>4. CASE pc[h] \in {"stage", "rename"}
  <2>1. HasTornTail(file) /\ ValidPrefix(file) = log /\ IsKept(log) BY <1>4 DEF FileIs
  <2> QED BY <1>1, <2>1, TornFile DEF FileKept, IsKept
<1>5. CASE pc[h] \in {"part", "written"}
  <2>1. m \in Mutation BY <1>5 DEF TypeOK
  <2>2. IsKept(log) /\ IsKept(Append(log, m)) BY <1>1, <1>5, <2>1, IsKeptOneMore DEF FileIs
  <2>3. CASE file.lines = Append(log, m)
    <3>1. file.lines \in Seq(Mutation) BY <1>1, <2>1, <2>3, LastOfAppend
    <3> QED BY <1>1, <2>2, <2>3, <3>1, CleanFile DEF FileKept, IsKept
  <2>4. CASE file.lines = Append(log, Torn(m))
    <3>1. HasTornTail(file) /\ ValidPrefix(file) = log BY <1>1, <2>1, <2>4, TornLine
    <3> QED BY <1>1, <2>2, <3>1, TornFile DEF FileKept, IsKept
  <2>5. file.lines = Append(log, m) \/ file.lines = Append(log, Torn(m))
    BY <1>5 DEF FileIs
  <2> QED BY <2>3, <2>4, <2>5
<1> QED BY <1>2, <1>3, <1>4, <1>5 DEF TypeOK, Point

LEMMA InitFile == Init => \A h \in Handle : FileIs(h)
<1> SUFFICES ASSUME Init, NEW h \in Handle PROVE FileIs(h) OBVIOUS
<1>1. file \in Content /\ file.lines = <<>> /\ <<>> \in Seq(Mutation) /\ Len(<<>>) = 0
  BY EmptySeq DEF Init, Content
<1>2. Replays(<<>>) /\ AtMostOneOpen(<<>>)
  BY <1>1 DEF Replays, AtMostOneOpen, OpenOperations, Of
<1>3. FileKept BY <1>1, <1>2, CleanFile DEF FileKept, IsKept, Init
<1> QED BY <1>3 DEF FileIs, Init

LEMMA NextFile ==
  ASSUME TypeOK, TypeOK', NEW h, Handle = {h}, ~PartialWrites, FileIs(h), [Next]_vars
  PROVE  FileIs(h)'
<1> DEFINE log == mem[h]
           m == pending[h]
<1>1. log \in Seq(Mutation) /\ file \in Content /\ h \in Handle BY DEF TypeOK
<1>2. FileKept BY <1>1, AlwaysKept
<1>3. CASE Read(h)
  <2>1. /\ pc[h] = "closed" /\ Loadable(file) /\ mem'[h] = ValidPrefix(file)
        /\ pc'[h] = AfterRead(file) /\ UNCHANGED <<file, tmp, pending, detached>>
    BY <1>1, <1>3 DEF Read, Goto, TypeOK
  <2>2. acked' \subseteq ToSet(ValidPrefix(file))
    BY <1>2, <1>3, <2>1 DEF Read, Goto, FileKept, IsKept
  <2>3. IsKept(mem[h])' BY <1>2, <2>1, <2>2 DEF FileKept, IsKept
  <2>4. CASE HasTornTail(file)
    BY <2>1, <2>3, <2>4 DEF AfterRead, FileIs
  <2>5. CASE ~HasTornTail(file) /\ file.ended
    <3>1. file = [lines |-> mem'[h], ended |-> TRUE] BY <1>1, <2>1, <2>5 DEF ValidPrefix, Content
    <3> QED BY <2>1, <2>3, <2>5, <3>1 DEF AfterRead, FileIs
  <2>6. CASE ~HasTornTail(file) /\ ~file.ended
    BY <2>1, <2>3, <2>6 DEF AfterRead, FileIs, ValidPrefix
  <2> QED BY <2>4, <2>5, <2>6
<1>4. CASE Stage(h)
  BY <1>1, <1>4 DEF Stage, Goto, FileIs, TypeOK, IsKept
<1>5. CASE Publish(h)
  <2>1. /\ pc[h] = "rename" /\ pc'[h] = "ready" /\ mem' = mem /\ detached' = detached
        /\ file' = [lines |-> mem'[h], ended |-> TRUE]
    BY <1>1, <1>5 DEF Publish, Goto, FileIs, TypeOK
  <2>2. acked' = acked \cup ToSet(mem[h]) BY <1>5 DEF Publish, Goto
  <2>3. IsKept(mem[h])' BY <2>1, <2>2 DEF IsKept, FileIs
  <2> QED BY <2>1, <2>3 DEF FileIs
<1>6. CASE RepairNewline(h)
  <2>1. /\ pc[h] = "newline" /\ pc'[h] = "ready" /\ mem' = mem /\ detached' = detached
    BY <1>1, <1>6 DEF RepairNewline, Goto, TypeOK
  <2>2. file' = [lines |-> mem'[h], ended |-> TRUE]
    BY <1>1, <1>6, <2>1 DEF RepairNewline, FileIs, Content
  <2>3. acked' = acked \cup ToSet(mem[h]) BY <1>6, <2>1 DEF RepairNewline, Goto
  <2>4. IsKept(mem[h])' BY <2>1, <2>3 DEF IsKept, FileIs
  <2> QED BY <2>1, <2>2, <2>4 DEF FileIs
<1>7. CASE LoadFails(h)
  <2>1. /\ pc'[h] = "closed" /\ mem'[h] = <<>> /\ UNCHANGED <<file, acked, detached>>
    BY <1>1, <1>7 DEF LoadFails, Goto, TypeOK
  <2>2. FileKept' BY <1>2, <2>1 DEF FileKept, IsKept
  <2> QED BY <2>1, <2>2 DEF FileIs
<1>8. CASE Operation(h)
  <2>1. PICK x \in Mutation : Begin(h, x) /\ Fits(log, x) BY <1>1, <1>8, OperationBegins
  <2>2. /\ pc[h] = "ready" /\ pc'[h] = "append" /\ pending'[h] = x
        /\ UNCHANGED <<file, mem, detached, acked>>
    BY <1>1, <2>1 DEF Begin, Goto, TypeOK
  <2>3. IsKept(log) /\ file = [lines |-> log, ended |-> TRUE] BY <2>2 DEF FileIs
  <2>4. Accepts(log, Len(log), x) /\ AtMostOneOpen(Append(log, x))
    BY <2>1, <2>3 DEF IsKept, Fits
  <2>5. IsKept(mem[h])' BY <2>2, <2>3 DEF IsKept
  <2> QED BY <2>2, <2>3, <2>4, <2>5 DEF FileIs
<1>9. CASE WritePart(h)
  <2>1. /\ pc[h] = "append" /\ pc'[h] = "part" /\ UNCHANGED <<mem, pending, detached, acked>>
    BY <1>1, <1>9 DEF WritePart, Goto, TypeOK
  <2>2. PICK text \in {Torn(m), m} : file' = AddText(file, text, FALSE) BY <1>9 DEF WritePart
  <2>3. ~file'.ended /\ file'.lines = Append(log, text)
    BY <2>1, <2>2 DEF AddText, FileIs
  <2>4. IsKept(mem[h])' BY <2>1 DEF IsKept, FileIs
  <2> QED BY <2>1, <2>3, <2>4 DEF FileIs
<1>10. CASE Write(h)
  <2>1. /\ pc[h] \in {"append", "part"} /\ pc'[h] = "written"
        /\ detached' = detached \ {h} /\ UNCHANGED <<mem, pending, acked>>
    BY <1>1, <1>10 DEF Write, Goto, TypeOK
  <2>2. m \in Mutation BY <1>1, <2>1 DEF TypeOK
  <2>3. file' = [lines |-> Append(log, m), ended |-> TRUE]
    <3>1. CASE pc[h] = "append"
      <4>1. file = [lines |-> log, ended |-> TRUE] /\ h \notin detached BY <3>1 DEF FileIs
      <4>2. file' = AddText(file, m, TRUE) BY <1>10, <3>1, <4>1 DEF Write
      <4> QED BY <4>1, <4>2 DEF AddText
    <3>2. CASE pc[h] = "part"
      <4>1. PICK text \in {Torn(m), m} : file.lines = Append(log, text) /\ ~file.ended
        BY <3>2 DEF FileIs
      <4>2. log \in Seq(Line) /\ text \in Line
        BY <1>1, <2>2, MutationsAreLines, SeqMonotonic
      <4>3. Last(file.lines) = text /\ Front(file.lines) = log BY <4>1, <4>2, LastOfAppend
      <4> QED BY <1>10, <3>2, <4>1, <4>3 DEF Write, AddRest, FileIs
    <3> QED BY <2>1, <3>1, <3>2
  <2>4. IsKept(mem[h])' BY <2>1 DEF IsKept, FileIs
  <2> QED BY <2>1, <2>3, <2>4 DEF FileIs
<1>11. CASE Acknowledge(h)
  <2>1. /\ pc[h] = "written" /\ pc'[h] = "ready" /\ UNCHANGED <<file, detached>>
        /\ mem'[h] = Applied(log, m)
    BY <1>1, <1>11 DEF Acknowledge, Goto, TypeOK
  <2>2. m \in Mutation BY <1>1, <2>1 DEF TypeOK
  <2>3. mem'[h] = Append(log, m) BY <2>1 DEF Applied, FileIs
  <2>4. acked' = acked \cup ToSet(mem'[h]) BY <1>11 DEF Acknowledge, Goto
  <2>5. IsKept(Append(log, m)) BY <1>1, <2>1, <2>2, IsKeptOneMore DEF FileIs
  <2>6. IsKept(mem[h])' BY <2>3, <2>4, <2>5 DEF IsKept
  <2>7. file' = [lines |-> mem'[h], ended |-> TRUE] BY <2>1, <2>3 DEF FileIs
  <2> QED BY <2>1, <2>6, <2>7 DEF FileIs
<1>12. CASE AppendFails(h)
  <2>1. /\ pc[h] = "append" /\ pc'[h] = "ready" /\ UNCHANGED <<file>>
        /\ mem'[h] = mem[h] /\ detached' = detached \ {h}
        /\ acked' = acked \cup ToSet(mem'[h])
    BY <1>1, <1>12 DEF AppendFails, Goto, TypeOK, AfterFailure
  <2>2. IsKept(mem[h])' BY <2>1 DEF IsKept, FileIs
  <2> QED BY <2>1, <2>2 DEF FileIs
<1>13. CASE Crash
  <2>1. pc'[h] = "closed" /\ mem'[h] = <<>> /\ detached' = {} /\ UNCHANGED <<file, acked>>
    BY <1>1, <1>13 DEF Crash
  <2>2. FileKept' BY <1>2, <2>1 DEF FileKept, IsKept
  <2> QED BY <2>1, <2>2 DEF FileIs
<1>14. CASE UNCHANGED vars
  BY <1>14 DEF vars, FileIs, FileKept, IsKept
<1> QED BY <1>3, <1>4, <1>5, <1>6, <1>7, <1>8, <1>9, <1>10, <1>11, <1>12, <1>13, <1>14 DEF Next

\* The inductive invariant.
LEMMA FileInvariant ==
  ASSUME NEW h, Handle = {h}, ~PartialWrites
  PROVE  Spec => [](TypeOK /\ FileIs(h))
<1>1. Init => TypeOK /\ FileIs(h) BY InitTypes, InitFile
<1>2. TypeOK /\ FileIs(h) /\ [Next]_vars => (TypeOK /\ FileIs(h))' BY NextTypes, NextFile
<1> QED BY <1>1, <1>2, PTL DEF Spec

\* Nothing that a caller was told of is lost, whenever the process ends (AcknowledgedKept).
THEOREM Durable == OneStorage => (Spec => []AcknowledgedKept)
<1> SUFFICES ASSUME OneStorage PROVE Spec => []AcknowledgedKept OBVIOUS
<1>1. PICK h : Handle = {h} BY DEF OneStorage
<1>2. TypeOK /\ FileIs(h) => AcknowledgedKept
  BY <1>1, AlwaysKept DEF AcknowledgedKept, FileKept, IsKept
<1>3. Spec => [](TypeOK /\ FileIs(h)) BY <1>1, FileInvariant DEF OneStorage
<1> QED BY <1>2, <1>3, PTL

\* The memory of an idle storage is what a load of the file gives (MemoryIsFile).
THEOREM MemoryAgrees == OneStorage => (Spec => []MemoryIsFile)
<1> SUFFICES ASSUME OneStorage PROVE Spec => []MemoryIsFile OBVIOUS
<1>1. PICK h : Handle = {h} BY DEF OneStorage
<1>2. TypeOK /\ FileIs(h) => MemoryIsFile BY <1>1 DEF MemoryIsFile, FileIs
<1>3. Spec => [](TypeOK /\ FileIs(h)) BY <1>1, FileInvariant DEF OneStorage
<1> QED BY <1>2, <1>3, PTL

\* A lane has at most one open operation (OneOpenOperation), over all reloads.
THEOREM OneOpen == OneStorage => (Spec => []OneOpenOperation)
<1> SUFFICES ASSUME OneStorage PROVE Spec => []OneOpenOperation OBVIOUS
<1>1. PICK h : Handle = {h} BY DEF OneStorage
<1>2. TypeOK /\ FileIs(h) => OneOpenOperation
  <2>1. AtMostOneOpen(<<>>) BY EmptySeq DEF AtMostOneOpen, OpenOperations, Of
  <2> QED BY <1>1, <2>1 DEF OneOpenOperation, FileIs, IsKept
<1>3. Spec => [](TypeOK /\ FileIs(h)) BY <1>1, FileInvariant DEF OneStorage
<1> QED BY <1>2, <1>3, PTL
-----------------------------------------------------------------------------
(* Forks.  What a fork copies is closed under parents: it is everything, or *)
(* what walkToRoot visits.  Its mutations are the copied entries in the     *)
(* order of the log, the lanes, the name and the labels; so it replays, and *)
(* its branches are those of the log.                                       *)

\* The numbers of a finite set, by size, are all of them.
LEMMA AscendingIs ==
  ASSUME NEW S \in SUBSET Nat, IsFiniteSet(S)
  PROVE  /\ Cardinality(S) \in Nat
         /\ Ascending(S) \in [1..Cardinality(S) -> S]
         /\ \A i, j \in 1..Cardinality(S) : i < j => Ascending(S)[i] < Ascending(S)[j]
         /\ \A x \in S : \E i \in 1..Cardinality(S) : Ascending(S)[i] = x
<1> DEFINE n == Cardinality(S)
           UpTo(x) == {y \in S : y <= x}
           rank == [x \in S |-> Cardinality(UpTo(x))]
<1>0. \A x \in S : x \in Nat OBVIOUS
<1>1. n \in Nat BY FS_CardinalityType
<1>2. IsFiniteSet(1..n) /\ Cardinality(1..n) = n
  BY <1>1, FS_Interval
<1>3. ASSUME NEW x \in S PROVE IsFiniteSet(UpTo(x)) /\ Cardinality(UpTo(x)) \in 1..n
  <2>1. UpTo(x) \in SUBSET S /\ x \in UpTo(x) OBVIOUS
  <2>2. IsFiniteSet(UpTo(x)) /\ Cardinality(UpTo(x)) <= n BY <2>1, FS_Subset
  <2>3. Cardinality(UpTo(x)) \in Nat BY <2>2, FS_CardinalityType
  <2>4. Cardinality(UpTo(x)) # 0 BY <2>1, <2>2, FS_EmptySet
  <2> HIDE DEF UpTo, n
  <2> QED BY <1>1, <2>2, <2>3, <2>4
<1>4. ASSUME NEW x \in S, NEW y \in S, x < y PROVE rank[x] < rank[y]
  <2>1. UpTo(x) \in SUBSET UpTo(y) /\ y \in UpTo(y) /\ y \notin UpTo(x)
    <3>1. /\ y <= y /\ ~(y <= x)
          /\ \A z \in S : z <= x => z <= y
      BY <1>0, <1>4
    <3> QED BY <3>1
  <2>2. Cardinality(UpTo(x)) <= Cardinality(UpTo(y)) /\ Cardinality(UpTo(x)) # Cardinality(UpTo(y))
    BY <1>3, <2>1, FS_Subset
  <2> HIDE DEF UpTo, n
  <2> QED BY <1>3, <2>2
<1>5. rank \in Injection(S, 1..n)
  <2>1. rank \in [S -> 1..n] BY <1>3
  <2>2. ASSUME NEW x \in S, NEW y \in S, rank[x] = rank[y] PROVE x = y
    <3>1. rank[x] \in 1..n /\ rank[y] \in 1..n BY <2>1
    <3>2. ~(x < y) /\ ~(y < x) BY <1>1, <1>4, <2>2, <3>1
    <3> QED BY <3>2
  <2> HIDE DEF rank
  <2> QED BY <2>1, <2>2 DEF Injection, IsInjective
<1>6. \A i \in 1..n : \E x \in S : rank[x] = i
  <2>1. rank \in Surjection(S, 1..n) BY <1>2, <1>5, FS_Injection
  <2> QED BY <2>1 DEF Surjection
<1> DEFINE order == [i \in 1..n |-> CHOOSE x \in S : rank[x] = i]
<1>7. order \in [1..n -> S] /\ \A i \in 1..n : rank[order[i]] = i
  <2> HIDE DEF rank, n
  <2> QED BY <1>6
<1>8. ASSUME NEW i \in 1..n, NEW j \in 1..n, i < j PROVE order[i] < order[j]
  <2>1. ASSUME NEW x \in S, NEW y \in S, rank[x] = i, rank[y] = j PROVE x < y
    <3>1. i \in Nat /\ j \in Nat BY <1>1
    <3>2. ~(y < x) /\ x # y
      <4> HIDE DEF rank
      <4> QED BY <1>4, <1>8, <2>1, <3>1
    <3> QED BY <1>0, <3>2
  <2> HIDE DEF order, rank
  <2> QED BY <1>7, <2>1
<1>9. /\ Ascending(S) \in [1..n -> S]
      /\ \A i, j \in 1..n : i < j => Ascending(S)[i] < Ascending(S)[j]
  <2> HIDE DEF order, n
  <2>1. \E f \in [1..n -> S] : \A i, j \in 1..n : i < j => f[i] < f[j] BY <1>7, <1>8
  <2> QED BY <2>1 DEF Ascending, n
<1>10. Ascending(S) \in Injection(1..n, S)
  <2>1. ASSUME NEW i \in 1..n, NEW j \in 1..n, Ascending(S)[i] = Ascending(S)[j] PROVE i = j
    <3>1. Ascending(S)[i] \in Nat BY <1>9
    <3>2. ~(i < j) /\ ~(j < i) BY <1>9, <2>1, <3>1
    <3> QED BY <1>1, <3>2
  <2> HIDE DEF n
  <2> QED BY <1>9, <2>1 DEF Injection, IsInjective
<1>11. Ascending(S) \in Surjection(1..n, S)
  BY <1>2, <1>10, FS_Injection
<1> QED BY <1>1, <1>9, <1>11 DEF Surjection

\* A set in some order.
LEMMA SetToSeqIs ==
  ASSUME NEW S, IsFiniteSet(S)
  PROVE  /\ Cardinality(S) \in Nat
         /\ SetToSeq(S) \in [1..Cardinality(S) -> S]
         /\ \A i, j \in 1..Cardinality(S) : SetToSeq(S)[i] = SetToSeq(S)[j] => i = j
         /\ \A x \in S : \E i \in 1..Cardinality(S) : SetToSeq(S)[i] = x
<1> DEFINE n == Cardinality(S)
<1>1. n \in Nat /\ ExistsBijection(1..n, S) BY FS_CardinalityType
<1>2. IsFiniteSet(1..n) /\ Cardinality(1..n) = n BY <1>1, FS_Interval
<1>3. \E f \in [1..n -> S] : IsInjective(f)
  BY <1>1 DEF ExistsBijection, Bijection, Injection
<1>4. SetToSeq(S) \in [1..n -> S] /\ IsInjective(SetToSeq(S))
  BY <1>3 DEF SetToSeq
<1>5. SetToSeq(S) \in Surjection(1..n, S)
  BY <1>2, <1>4, FS_Injection DEF Injection
<1> QED BY <1>1, <1>4, <1>5 DEF Surjection, IsInjective

\* Where the entries of a log are.
Entries(log) == Of(log, Len(log), {"entry"})

\* In a log that replays an entry is one mutation, and its parent is an older one.
LEMMA EntriesReplay ==
  ASSUME NEW log \in Seq(Mutation), Replays(log)
  PROVE  /\ Entries(log) \in SUBSET (1..Len(log)) /\ Len(log) \in Nat
         /\ \A i \in Entries(log) : log[i] \in EntryMutation
         /\ \A i, j \in Entries(log) : log[i].id = log[j].id => i = j
         /\ \A i \in Entries(log) :
              log[i].parentId # Null =>
                \E j \in Entries(log) : j < i /\ log[j].id = log[i].parentId
<1>1. Entries(log) \in SUBSET (1..Len(log)) /\ Len(log) \in Nat
  BY DEF Entries, Of
<1>2. ASSUME NEW i \in Entries(log) PROVE log[i] \in EntryMutation
  <2>1. log[i] \in Mutation /\ log[i].kind = "entry" BY DEF Entries, Of
  <2> QED BY <2>1 DEF Mutation, EntryMutation, RecordMutation, LaneMutation, NameMutation,
               LabelMutation
<1>3. ASSUME NEW i \in Entries(log)
      PROVE  /\ log[i].id \notin UsedIds(log, i - 1)
             /\ log[i].parentId \in EntryIds(log, i - 1) \cup {Null}
  BY DEF Entries, Of, Replays, Accepts
<1>4. ASSUME NEW i \in Entries(log), NEW j \in Entries(log), j < i
      PROVE  log[j].id # log[i].id
  <2>1. j \in Of(log, i - 1, {"entry", "record"}) BY <1>1, <1>4 DEF Entries, Of
  <2>2. log[j].id \in UsedIds(log, i - 1) BY <2>1 DEF UsedIds
  <2> QED BY <1>3, <2>2
<1>5. ASSUME NEW i \in Entries(log), NEW j \in Entries(log), log[i].id = log[j].id PROVE i = j
  <2>1. i \in Nat /\ j \in Nat BY <1>1
  <2>2. ~(i < j) /\ ~(j < i) BY <1>4, <1>5
  <2> QED BY <2>1, <2>2
<1>6. ASSUME NEW i \in Entries(log), log[i].parentId # Null
      PROVE  \E j \in Entries(log) : j < i /\ log[j].id = log[i].parentId
  <2>1. log[i].parentId \in EntryIds(log, i - 1) BY <1>3, <1>6
  <2>2. PICK j \in Of(log, i - 1, {"entry"}) : log[j].id = log[i].parentId
    BY <2>1 DEF EntryIds
  <2>3. i \in 1..Len(log) /\ j \in 1..(i - 1) /\ log[j].kind = "entry" BY <1>1, <2>2 DEF Of
  <2>4. j \in 1..Len(log) /\ j < i BY <1>1, <2>3
  <2>5. j \in Entries(log) BY <2>3, <2>4 DEF Entries, Of
  <2> QED BY <2>2, <2>4, <2>5
<1> QED BY <1>1, <1>2, <1>5, <1>6

\* An id is that of one entry.
LEMMA EntryOfId ==
  ASSUME NEW log \in Seq(Mutation), Replays(log)
  PROVE  /\ EntryIds(log, Len(log)) = {log[i].id : i \in Entries(log)}
         /\ \A i \in Entries(log) : EntryOf(log, log[i].id) = log[i]
<1>1. EntryIds(log, Len(log)) = {log[i].id : i \in Entries(log)}
  BY DEF EntryIds, Entries
<1>2. ASSUME NEW i \in Entries(log) PROVE EntryOf(log, log[i].id) = log[i]
  <2> DEFINE one == CHOOSE j \in Entries(log) : log[j].id = log[i].id
  <2>1. one \in Entries(log) /\ log[one].id = log[i].id OBVIOUS
  <2>2. one = i
    <3> HIDE DEF one
    <3> QED BY <2>1, EntriesReplay
  <2> QED BY <2>2 DEF EntryOf, Entries
<1> QED BY <1>1, <1>2

\* The parent of an entry is an entry.
LEMMA ParentsAreEntries ==
  ASSUME NEW log \in Seq(Mutation), Replays(log), NEW id \in EntryIds(log, Len(log))
  PROVE  /\ EntryOf(log, id) \in EntryMutation
         /\ EntryOf(log, id).parentId \in EntryIds(log, Len(log)) \cup {Null}
<1>1. PICK i \in Entries(log) : id = log[i].id BY EntryOfId
<1>2. EntryOf(log, id) = log[i] /\ log[i] \in EntryMutation BY <1>1, EntryOfId, EntriesReplay
<1>3. CASE log[i].parentId = Null BY <1>2, <1>3
<1>4. CASE log[i].parentId # Null
  <2>1. PICK j \in Entries(log) : log[j].id = log[i].parentId BY <1>4, EntriesReplay
  <2>2. log[j].id \in EntryIds(log, Len(log)) BY EntryOfId
  <2> QED BY <1>2, <2>1, <2>2
<1> QED BY <1>3, <1>4

\* What walkToRoot visits is closed, and the least closed set with its start.
LEMMA WalkIsClosed ==
  ASSUME NEW log \in Seq(Mutation), Replays(log), NEW start \in EntryIds(log, Len(log))
  PROVE  /\ WalkToRoot(log, start) \in SUBSET EntryIds(log, Len(log))
         /\ start \in WalkToRoot(log, start) /\ IsClosed(log, WalkToRoot(log, start))
<1> DEFINE all == EntryIds(log, Len(log))
           walk == WalkToRoot(log, start)
<1>1. walk = {id \in all : \A ids \in SUBSET all :
                             start \in ids /\ IsClosed(log, ids) => id \in ids}
  BY DEF WalkToRoot
<1>2. walk \in SUBSET all /\ start \in walk BY <1>1
<1>3. ASSUME NEW id \in walk, EntryOf(log, id).parentId # Null
      PROVE  EntryOf(log, id).parentId \in walk
  <2>1. EntryOf(log, id).parentId \in all BY <1>2, <1>3, ParentsAreEntries
  <2>2. ASSUME NEW ids \in SUBSET all, start \in ids, IsClosed(log, ids)
        PROVE  EntryOf(log, id).parentId \in ids
    <3>1. id \in ids BY <1>1, <2>2
    <3> QED BY <1>3, <2>2, <3>1 DEF IsClosed
  <2> HIDE DEF walk, all
  <2> QED BY <1>1, <2>1, <2>2
<1>4. IsClosed(log, walk) BY <1>3 DEF IsClosed
<1> QED BY <1>2, <1>4

LEMMA AllAreClosed ==
  ASSUME NEW log \in Seq(Mutation), Replays(log)
  PROVE  IsClosed(log, EntryIds(log, Len(log)))
BY ParentsAreEntries DEF IsClosed

\* A walk does not leave a closed set, and is the same in any log that agrees with
\* this one on the parents in that set.
LEMMA WalkStays ==
  ASSUME NEW log \in Seq(Mutation), Replays(log), NEW other,
         NEW ids \in SUBSET EntryIds(log, Len(log)), IsClosed(log, ids),
         EntryIds(other, Len(other)) = ids,
         \A id \in ids : EntryOf(other, id).parentId = EntryOf(log, id).parentId,
         NEW start \in ids \cup {Null}
  PROVE  WalkToRoot(other, start) = WalkToRoot(log, start)
<1>1. CASE start \notin ids
  <2>1. start = Null /\ Null \notin EntryIds(log, Len(log))
    <3>1. \A i \in Entries(log) : log[i].id \in Id BY EntriesReplay DEF EntryMutation
    <3> QED BY <1>1, <3>1, EntryOfId, NameAssumption
  <2> QED BY <1>1, <2>1 DEF WalkToRoot
<1>2. CASE start \in ids
  <2>1. ASSUME NEW S \in SUBSET ids PROVE IsClosed(other, S) <=> IsClosed(log, S)
    BY DEF IsClosed
  <2>2. ASSUME NEW id \in WalkToRoot(log, start) PROVE id \in WalkToRoot(other, start)
    <3>1. /\ \A S \in SUBSET EntryIds(log, Len(log)) :
               start \in S /\ IsClosed(log, S) => id \in S
      BY <2>2 DEF WalkToRoot
    <3>2. id \in ids BY <1>2, <3>1
    <3> QED BY <1>2, <2>1, <3>1, <3>2 DEF WalkToRoot
  <2>3. ASSUME NEW id \in WalkToRoot(other, start) PROVE id \in WalkToRoot(log, start)
    <3>1. /\ id \in ids
          /\ \A S \in SUBSET ids : start \in S /\ IsClosed(log, S) => id \in S
      BY <2>1, <2>3 DEF WalkToRoot
    <3>2. ASSUME NEW S \in SUBSET EntryIds(log, Len(log)), start \in S, IsClosed(log, S)
          PROVE  id \in S
      <4>1. IsClosed(log, S \cap ids) BY <3>2 DEF IsClosed
      <4> QED BY <1>2, <3>1, <3>2, <4>1
    <3> QED BY <1>2, <3>1, <3>2 DEF WalkToRoot
  <2> QED BY <2>2, <2>3
<1> QED BY <1>1, <1>2

\* Nothing is no entry, and its branch is empty.
LEMMA NullIsNoEntry ==
  ASSUME NEW log \in Seq(Mutation), Replays(log)
  PROVE  Null \notin EntryIds(log, Len(log)) /\ WalkToRoot(log, Null) = {}
<1>1. \A i \in Entries(log) : log[i].id \in Id BY EntriesReplay DEF EntryMutation
<1>2. Null \notin EntryIds(log, Len(log)) BY <1>1, EntryOfId, NameAssumption
<1> QED BY <1>2 DEF WalkToRoot

\* A log has finitely many lanes.
LEMMA LanesAreFinite ==
  ASSUME NEW log \in Seq(Mutation)
  PROVE  Lanes(log, Len(log)) \in SUBSET Lane /\ IsFiniteSet(Lanes(log, Len(log)))
<1> DEFINE moves == Of(log, Len(log), {"lane"})
           named == {log[i].lane : i \in moves}
           name == [i \in moves |-> log[i].lane]
<1>1. Len(log) \in Nat /\ moves \in SUBSET (1..Len(log)) BY DEF Of
<1>2. ASSUME NEW i \in moves PROVE log[i].lane \in Lane
  <2>1. log[i] \in Mutation /\ log[i].kind = "lane" BY DEF Of
  <2> QED BY <2>1 DEF Mutation, EntryMutation, RecordMutation, LaneMutation, NameMutation,
               LabelMutation
<1>3. IsFiniteSet(moves)
  <2>1. IsFiniteSet(1..Len(log)) BY <1>1, FS_Interval
  <2> HIDE DEF moves
  <2> QED BY <1>1, <2>1, FS_Subset
<1>4. name \in Surjection(moves, named)
  <2> HIDE DEF moves
  <2> QED BY DEF Surjection
<1>5. IsFiniteSet(named) BY <1>3, <1>4, FS_Surjection
<1>6. Lanes(log, Len(log)) = named \cup {Main} BY DEF Lanes
<1>7. IsFiniteSet(named \cup {Main}) BY <1>5, FS_AddElement
<1> QED BY <1>2, <1>6, <1>7, NameAssumption

\* What a fork copies is closed, and its lanes point into it.
LEMMA ForkIsClosed ==
  ASSUME NEW log \in Seq(Mutation), Replays(log),
         NEW options \in ForkOptions, ForkAllowed(log, options)
  PROVE  /\ CopiedIds(log, options) \in SUBSET EntryIds(log, Len(log))
         /\ IsClosed(log, CopiedIds(log, options))
         /\ DOMAIN ForkLanes(log, options) \in SUBSET Lane
         /\ Main \in DOMAIN ForkLanes(log, options)
         /\ IsFiniteSet(DOMAIN ForkLanes(log, options))
         /\ \A lane \in DOMAIN ForkLanes(log, options) :
              ForkLanes(log, options)[lane] \in CopiedIds(log, options) \cup {Null}
<1> DEFINE all == EntryIds(log, Len(log))
<1>1. CASE options.scope = "tree"
  <2>1. CopiedIds(log, options) = all BY <1>1 DEF CopiedIds
  <2>2. ForkLanes(log, options) = [lane \in Lanes(log, Len(log)) |-> LeafOf(log, Len(log), lane)]
    BY <1>1 DEF ForkLanes
  <2>3. Lanes(log, Len(log)) \in SUBSET Lane /\ IsFiniteSet(Lanes(log, Len(log)))
    BY LanesAreFinite
  <2>4. Main \in Lanes(log, Len(log)) BY DEF Lanes
  <2>5. \A lane \in Lanes(log, Len(log)) : LeafOf(log, Len(log), lane) \in all \cup {Null}
    BY <2>3, LeavesExist
  <2>6. IsClosed(log, all) BY AllAreClosed
  <2>7. DOMAIN ForkLanes(log, options) = Lanes(log, Len(log)) BY <2>2
  <2>8. \A lane \in Lanes(log, Len(log)) : ForkLanes(log, options)[lane] \in all \cup {Null}
    BY <2>2, <2>5
  <2> HIDE DEF all
  <2> QED BY <2>1, <2>3, <2>4, <2>6, <2>7, <2>8 DEF all
<1>2. CASE options.scope = "branch"
  <2> DEFINE target == ForkTarget(log, options)
             selected == SelectedEntry(log, options)
  <2>1. CopiedIds(log, options) = WalkToRoot(log, target)
        /\ ForkLanes(log, options) = [lane \in {Main} |-> target]
    BY <1>2 DEF CopiedIds, ForkLanes
  <2>2. target \in all \cup {Null}
    <3>1. selected # Null => selected \in all BY <1>2 DEF ForkAllowed
    <3>2. target = selected \/ (selected # Null /\ target = EntryOf(log, selected).parentId)
      BY DEF ForkTarget
    <3> HIDE DEF target, selected
    <3> QED BY <3>1, <3>2, ParentsAreEntries
  <2>3. CASE target = Null
    <3>1. CopiedIds(log, options) = {} BY <2>1, <2>3, NullIsNoEntry
    <3>2. IsClosed(log, {}) BY DEF IsClosed
    <3> HIDE DEF target
    <3> QED BY <2>1, <2>3, <3>1, <3>2, NameAssumption, FS_Singleton
  <2>4. CASE target \in all
    <3>1. /\ WalkToRoot(log, target) \in SUBSET all
          /\ target \in WalkToRoot(log, target) /\ IsClosed(log, WalkToRoot(log, target))
      BY <2>4, WalkIsClosed
    <3> HIDE DEF target, all
    <3> QED BY <2>1, <3>1, NameAssumption, FS_Singleton DEF all
  <2> QED BY <2>2, <2>3, <2>4
<1>3. options.scope \in {"tree", "branch"} BY DEF ForkOptions
<1> QED BY <1>1, <1>2, <1>3

(* What createForkMutations puts together: s are the positions in the log  *)
(* of the entries it copies, t the lanes, l the positions of the entries   *)
(* whose label it copies, and c is 1 if there is a name.                   *)
ForkSources(log, ids, lanes, s, t, c, l) ==
  /\ s \in Seq(Entries(log)) /\ t \in Seq(DOMAIN lanes) /\ l \in Seq(Entries(log))
  /\ c = IF NameOf(log) = Null THEN 0 ELSE 1
  /\ \A i, j \in 1..Len(s) : i < j => s[i] < s[j]
  /\ ids = {log[s[i]].id : i \in 1..Len(s)}
  /\ \A i, j \in 1..Len(t) : t[i] = t[j] => i = j
  /\ \A lane \in DOMAIN lanes : \E i \in 1..Len(t) : t[i] = lane
  /\ \A i, j \in 1..Len(l) : l[i] = l[j] => i = j
  /\ \A i \in 1..Len(l) : log[l[i]].id \in ids /\ LabelOf(log, log[l[i]].id) # Null
  /\ \A i \in Entries(log) : log[i].id \in ids /\ LabelOf(log, log[i].id) # Null =>
                               \E j \in 1..Len(l) : l[j] = i

ForkIs(fork, log, lanes, s, t, c, l) ==
  /\ DOMAIN fork = 1..(Len(s) + Len(t) + c + Len(l))
  /\ Len(fork) = Len(s) + Len(t) + c + Len(l)
  /\ \A k \in DOMAIN fork : fork[k].seq = k
  /\ \A i \in 1..Len(s) :
       LET m == fork[i]
       IN  /\ m.kind = "entry" /\ m.lane = Null
           /\ m.id = log[s[i]].id /\ m.parentId = log[s[i]].parentId
  /\ \A i \in 1..Len(t) :
       LET m == fork[Len(s) + i]
       IN  m.kind = "lane" /\ m.lane = t[i] /\ m.leafId = lanes[t[i]]
  /\ \A i \in 1..c :
       LET m == fork[Len(s) + Len(t) + i] IN m.kind = "name" /\ m.name = NameOf(log)
  /\ \A i \in 1..Len(l) :
       LET m == fork[Len(s) + Len(t) + c + i]
       IN  /\ m.kind = "label" /\ m.targetId = log[l[i]].id
           /\ m.label = LabelOf(log, log[l[i]].id)

\* Sequences one behind the other.
LEMMA FunctionIsSeq ==
  ASSUME NEW k \in Nat, NEW T, NEW f \in [1..k -> T]
  PROVE  f \in Seq(T) /\ Len(f) = k /\ DOMAIN f = 1..k
OBVIOUS

LEMMA TwoInRow ==
  ASSUME NEW T, NEW x \in Seq(T), NEW y \in Seq(T)
  PROVE  /\ x \o y \in Seq(T) /\ Len(x \o y) = Len(x) + Len(y)
         /\ Len(x) \in Nat /\ Len(y) \in Nat /\ DOMAIN (x \o y) = 1..Len(x \o y)
         /\ \A i \in 1..Len(x) : (x \o y)[i] = x[i]
         /\ \A i \in 1..Len(y) : (x \o y)[Len(x) + i] = y[i]
OBVIOUS

\* The elements of e, p, n and l are those of row.
InRow(row, e, p, n, l) ==
  /\ DOMAIN row = 1..(Len(e) + Len(p) + Len(n) + Len(l))
  /\ \A i \in 1..Len(e) : row[i] = e[i]
  /\ \A i \in 1..Len(p) : row[Len(e) + i] = p[i]
  /\ \A i \in 1..Len(n) : row[Len(e) + Len(p) + i] = n[i]
  /\ \A i \in 1..Len(l) : row[Len(e) + Len(p) + Len(n) + i] = l[i]

LEMMA FourInRow ==
  ASSUME NEW T, NEW e \in Seq(T), NEW p \in Seq(T), NEW n \in Seq(T), NEW l \in Seq(T)
  PROVE  InRow(e \o p \o n \o l, e, p, n, l)
<1> DEFINE two == e \o p
           three == two \o n
           four == three \o l
<1>1. Len(e) \in Nat /\ Len(p) \in Nat /\ Len(n) \in Nat /\ Len(l) \in Nat OBVIOUS
<1>2. /\ two \in Seq(T) /\ Len(two) = Len(e) + Len(p)
      /\ \A i \in 1..Len(e) : two[i] = e[i]
      /\ \A i \in 1..Len(p) : two[Len(e) + i] = p[i]
  BY TwoInRow
<1> HIDE DEF two
<1>3. /\ three \in Seq(T) /\ Len(three) = Len(two) + Len(n)
      /\ \A i \in 1..Len(two) : three[i] = two[i]
      /\ \A i \in 1..Len(n) : three[Len(two) + i] = n[i]
  <2>1. two \in Seq(T) BY <1>2
  <2> QED BY <2>1, TwoInRow
<1> HIDE DEF three
<1>4. /\ four \in Seq(T) /\ Len(four) = Len(three) + Len(l) /\ DOMAIN four = 1..Len(four)
      /\ \A i \in 1..Len(three) : four[i] = three[i]
      /\ \A i \in 1..Len(l) : four[Len(three) + i] = l[i]
  <2>1. three \in Seq(T) BY <1>3
  <2> QED BY <2>1, TwoInRow
<1> HIDE DEF four
<1>5. \A i \in 1..Len(e) : i \in 1..Len(two) /\ i \in 1..Len(three) BY <1>1, <1>2, <1>3
<1>6. \A i \in 1..Len(p) : Len(e) + i \in 1..Len(two) /\ Len(e) + i \in 1..Len(three)
  BY <1>1, <1>2, <1>3
<1>7. \A i \in 1..Len(n) : Len(two) + i \in 1..Len(three) BY <1>1, <1>2, <1>3
<1>8. InRow(four, e, p, n, l)
  <2>1. DOMAIN four = 1..(Len(e) + Len(p) + Len(n) + Len(l)) BY <1>2, <1>3, <1>4
  <2>2. \A i \in 1..Len(e) : four[i] = e[i] BY <1>2, <1>3, <1>4, <1>5
  <2>3. \A i \in 1..Len(p) : four[Len(e) + i] = p[i] BY <1>2, <1>3, <1>4, <1>6
  <2>4. \A i \in 1..Len(n) : four[Len(e) + Len(p) + i] = n[i]
    <3>1. \A i \in 1..Len(n) : four[Len(two) + i] = n[i] BY <1>3, <1>4, <1>7
    <3> QED BY <1>2, <3>1
  <2>5. \A i \in 1..Len(l) : four[Len(e) + Len(p) + Len(n) + i] = l[i] BY <1>2, <1>3, <1>4
  <2> QED BY <2>1, <2>2, <2>3, <2>4, <2>5 DEF InRow
<1> QED BY <1>8 DEF two, three, four

\* createForkMutations, of the entries and lanes that the options select.
ForkOf(log, ids, lanes) ==
  Numbered(CopiedEntries(log, ids) \o PointersTo(lanes)
             \o CopiedName(log) \o CopiedLabels(log, ids))

\* The orders that createForkMutations goes through are such positions.
LEMMA ForkSourcesAre ==
  ASSUME NEW log \in Seq(Mutation), Replays(log),
         NEW ids \in SUBSET EntryIds(log, Len(log)),
         NEW lanes, IsFiniteSet(DOMAIN lanes)
  PROVE  ForkSources(log, ids, lanes, Ascending(PositionsOf(log, ids)), SetToSeq(DOMAIN lanes),
                     IF NameOf(log) = Null THEN 0 ELSE 1,
                     Ascending({i \in PositionsOf(log, ids) : LabelOf(log, log[i].id) # Null}))
<1> DEFINE P == PositionsOf(log, ids)
           L == {i \in P : LabelOf(log, log[i].id) # Null}
           s == Ascending(P)
           t == SetToSeq(DOMAIN lanes)
           l == Ascending(L)
<1>1. /\ P = {i \in Entries(log) : log[i].id \in ids}
      /\ P \in SUBSET Nat /\ IsFiniteSet(P) /\ L \in SUBSET Nat /\ IsFiniteSet(L)
  <2>1. P = {i \in Entries(log) : log[i].id \in ids} BY DEF PositionsOf, Entries
  <2>2. P \in SUBSET (1..Len(log)) /\ L \in SUBSET (1..Len(log)) /\ Len(log) \in Nat
    BY <2>1, EntriesReplay
  <2>3. IsFiniteSet(1..Len(log)) BY <2>2, FS_Interval
  <2>4. IsFiniteSet(P) /\ IsFiniteSet(L)
    <3> HIDE DEF P, L
    <3> QED BY <2>2, <2>3, FS_Subset
  <2>5. 1..Len(log) \in SUBSET Nat BY <2>2
  <2> HIDE DEF P, L
  <2> QED BY <2>1, <2>2, <2>4, <2>5
<1>2. ASSUME NEW S \in SUBSET P, S \in SUBSET Nat, IsFiniteSet(S)
      PROVE  /\ Ascending(S) \in Seq(Entries(log)) /\ Ascending(S) \in Seq(S)
             /\ \A i, j \in 1..Len(Ascending(S)) : i < j => Ascending(S)[i] < Ascending(S)[j]
             /\ \A i, j \in 1..Len(Ascending(S)) : Ascending(S)[i] = Ascending(S)[j] => i = j
             /\ \A x \in S : \E i \in 1..Len(Ascending(S)) : Ascending(S)[i] = x
  <2> DEFINE n == Cardinality(S)
             f == Ascending(S)
  <2>1. /\ n \in Nat /\ f \in [1..n -> S]
        /\ \A i, j \in 1..n : i < j => f[i] < f[j]
        /\ \A x \in S : \E i \in 1..n : f[i] = x
    BY <1>2, AscendingIs
  <2>2. S \subseteq Entries(log) BY <1>1
  <2> HIDE DEF n, f, P
  <2>3. f \in Seq(S) /\ Len(f) = n BY <2>1, FunctionIsSeq
  <2>4. f \in Seq(Entries(log)) BY <2>2, <2>3, SeqMonotonic
  <2>5. ASSUME NEW i \in 1..n, NEW j \in 1..n, f[i] = f[j] PROVE i = j
    <3>1. f[i] \in S BY <2>1
    <3>2. \A x \in S : x \in Nat BY <1>2
    <3>3. f[i] \in Nat BY <3>1, <3>2
    <3>4. \A k \in 1..n : k \in Nat BY <2>1
    <3>5. f[i] \in Nat /\ i \in Nat /\ j \in Nat BY <3>3, <3>4
    <3>6. ~(i < j) /\ ~(j < i) BY <2>1, <2>5, <3>5
    <3> QED BY <3>5, <3>6
  <2> QED BY <2>1, <2>3, <2>4, <2>5 DEF f
<1>3. /\ s \in Seq(Entries(log)) /\ s \in Seq(P)
      /\ \A i, j \in 1..Len(s) : i < j => s[i] < s[j]
      /\ \A x \in P : \E i \in 1..Len(s) : s[i] = x
  <2> HIDE DEF P
  <2> QED BY <1>1, <1>2
<1>4. /\ l \in Seq(Entries(log)) /\ l \in Seq(L)
      /\ \A i, j \in 1..Len(l) : l[i] = l[j] => i = j
      /\ \A x \in L : \E i \in 1..Len(l) : l[i] = x
  <2>1. L \in SUBSET P OBVIOUS
  <2> HIDE DEF P, L
  <2> QED BY <1>1, <1>2, <2>1
<1>5. /\ t \in Seq(DOMAIN lanes)
      /\ \A i, j \in 1..Len(t) : t[i] = t[j] => i = j
      /\ \A lane \in DOMAIN lanes : \E i \in 1..Len(t) : t[i] = lane
  <2> DEFINE S == DOMAIN lanes
             n == Cardinality(S)
  <2>1. /\ n \in Nat /\ SetToSeq(S) \in [1..n -> S]
        /\ \A i, j \in 1..n : SetToSeq(S)[i] = SetToSeq(S)[j] => i = j
        /\ \A x \in S : \E i \in 1..n : SetToSeq(S)[i] = x
    BY SetToSeqIs
  <2> HIDE DEF n
  <2>2. t \in Seq(S) /\ Len(t) = n BY <2>1, FunctionIsSeq
  <2> QED BY <2>1, <2>2
<1> HIDE DEF s, t, l, P
<1>6. ids = {log[s[i]].id : i \in 1..Len(s)}
  <2>1. ASSUME NEW i \in 1..Len(s) PROVE log[s[i]].id \in ids
    BY <1>1, <1>3
  <2>2. ASSUME NEW id \in ids PROVE \E i \in 1..Len(s) : id = log[s[i]].id
    <3>1. PICK x \in Entries(log) : log[x].id = id BY EntryOfId
    <3>2. x \in P BY <1>1, <3>1
    <3> QED BY <1>3, <3>1, <3>2
  <2> QED BY <2>1, <2>2
<1>7. /\ \A i \in 1..Len(l) : log[l[i]].id \in ids /\ LabelOf(log, log[l[i]].id) # Null
      /\ \A i \in Entries(log) : log[i].id \in ids /\ LabelOf(log, log[i].id) # Null =>
                                   \E j \in 1..Len(l) : l[j] = i
  <2>1. \A i \in 1..Len(l) : l[i] \in L BY <1>4
  <2> QED BY <1>1, <1>4, <2>1
<1> QED BY <1>3, <1>4, <1>5, <1>6, <1>7 DEF ForkSources, s, t, l, P

\* A mutation keeps what it says when it gets its number.
LEMMA NumberedEntry ==
  ASSUME NEW e \in EntryMutation, NEW k
  PROVE  LET m == [[e EXCEPT !.lane = Null] EXCEPT !.seq = k]
         IN  /\ m.kind = "entry" /\ m.seq = k /\ m.lane = Null
             /\ m.id = e.id /\ m.parentId = e.parentId
BY DEF EntryMutation

LEMMA NumberedPointer ==
  ASSUME NEW k, NEW lane, NEW leafId
  PROVE  LET m == [[kind |-> "lane", seq |-> 0, lane |-> lane, leafId |-> leafId] EXCEPT !.seq = k]
         IN  m.kind = "lane" /\ m.seq = k /\ m.lane = lane /\ m.leafId = leafId
OBVIOUS

LEMMA NumberedName ==
  ASSUME NEW k, NEW name
  PROVE  LET m == [[kind |-> "name", seq |-> 0, name |-> name] EXCEPT !.seq = k]
         IN  m.kind = "name" /\ m.seq = k /\ m.name = name
OBVIOUS

LEMMA NumberedLabel ==
  ASSUME NEW k, NEW id, NEW label
  PROVE  LET m == [[kind |-> "label", seq |-> 0, targetId |-> id, label |-> label] EXCEPT !.seq = k]
         IN  m.kind = "label" /\ m.seq = k /\ m.targetId = id /\ m.label = label
OBVIOUS

\* What createForkMutations puts together is one behind the other, and numbered.
LEMMA ForkOfIs ==
  ASSUME NEW log \in Seq(Mutation), Replays(log),
         NEW ids \in SUBSET EntryIds(log, Len(log)),
         NEW lanes, IsFiniteSet(DOMAIN lanes)
  PROVE  ForkIs(ForkOf(log, ids, lanes), log, lanes,
                Ascending(PositionsOf(log, ids)), SetToSeq(DOMAIN lanes),
                IF NameOf(log) = Null THEN 0 ELSE 1,
                Ascending({i \in PositionsOf(log, ids) : LabelOf(log, log[i].id) # Null}))
<1> DEFINE s == Ascending(PositionsOf(log, ids))
           t == SetToSeq(DOMAIN lanes)
           c == IF NameOf(log) = Null THEN 0 ELSE 1
           l == Ascending({i \in PositionsOf(log, ids) : LabelOf(log, log[i].id) # Null})
           E == CopiedEntries(log, ids)
           P == PointersTo(lanes)
           N == CopiedName(log)
           L == CopiedLabels(log, ids)
           row == E \o P \o N \o L
           fork == ForkOf(log, ids, lanes)
<1>1. /\ s \in Seq(Entries(log)) /\ t \in Seq(DOMAIN lanes) /\ l \in Seq(Entries(log))
      /\ \A i \in 1..Len(s) : log[s[i]] \in EntryMutation
  <2>1. s \in Seq(Entries(log)) /\ t \in Seq(DOMAIN lanes) /\ l \in Seq(Entries(log))
    BY ForkSourcesAre DEF ForkSources
  <2>2. \A i \in 1..Len(s) : s[i] \in Entries(log) BY <2>1
  <2> HIDE DEF s, t, l
  <2> QED BY <2>1, <2>2, EntriesReplay
<1>2. /\ E = [i \in 1..Len(s) |-> [log[s[i]] EXCEPT !.lane = Null]]
      /\ P = [i \in 1..Len(t) |-> [kind |-> "lane", seq |-> 0, lane |-> t[i],
                                   leafId |-> lanes[t[i]]]]
      /\ N = [i \in 1..c |-> [kind |-> "name", seq |-> 0, name |-> NameOf(log)]]
      /\ L = [i \in 1..Len(l) |-> [kind |-> "label", seq |-> 0, targetId |-> log[l[i]].id,
                                   label |-> LabelOf(log, log[l[i]].id)]]
  <2>1. DOMAIN s = 1..Len(s) /\ DOMAIN t = 1..Len(t) /\ DOMAIN l = 1..Len(l)
    <3> HIDE DEF s, t, l
    <3> QED BY <1>1
  <2>2. N = [i \in 1..c |-> [kind |-> "name", seq |-> 0, name |-> NameOf(log)]]
    BY DEF CopiedName
  <2>3. E = [i \in DOMAIN s |-> [log[s[i]] EXCEPT !.lane = Null]] BY DEF CopiedEntries
  <2>4. P = [i \in DOMAIN t |-> [kind |-> "lane", seq |-> 0, lane |-> t[i],
                                 leafId |-> lanes[t[i]]]]
    BY DEF PointersTo
  <2>5. L = [i \in DOMAIN l |-> [kind |-> "label", seq |-> 0, targetId |-> log[l[i]].id,
                                   label |-> LabelOf(log, log[l[i]].id)]]
    BY DEF CopiedLabels
  <2> HIDE DEF s, t, l, E, P, N, L, c
  <2> QED BY <2>1, <2>2, <2>3, <2>4, <2>5
<1>3. Len(s) \in Nat /\ Len(t) \in Nat /\ Len(l) \in Nat /\ c \in Nat
  <2> HIDE DEF s, t, l
  <2> QED BY <1>1
<1>4. fork = [k \in DOMAIN row |-> [row[k] EXCEPT !.seq = k]]
  BY DEF ForkOf, Numbered
<1> HIDE DEF s, t, c, l, E, P, N, L, fork
<1> DEFINE T == {E[i] : i \in 1..Len(s)} \cup {P[i] : i \in 1..Len(t)}
                  \cup {N[i] : i \in 1..c} \cup {L[i] : i \in 1..Len(l)}
<1>5. /\ E \in Seq(T) /\ P \in Seq(T) /\ N \in Seq(T) /\ L \in Seq(T)
      /\ Len(E) = Len(s) /\ Len(P) = Len(t) /\ Len(N) = c /\ Len(L) = Len(l)
  <2>1. /\ E \in [1..Len(s) -> T] /\ P \in [1..Len(t) -> T]
        /\ N \in [1..c -> T] /\ L \in [1..Len(l) -> T]
    BY <1>2
  <2> HIDE DEF T
  <2>2. \A k \in Nat : \A f \in [1..k -> T] : f \in Seq(T) /\ Len(f) = k
    BY FunctionIsSeq
  <2>3. E \in Seq(T) /\ Len(E) = Len(s) BY <1>3, <2>1, <2>2, Zenon
  <2>4. P \in Seq(T) /\ Len(P) = Len(t) BY <1>3, <2>1, <2>2, Zenon
  <2>5. N \in Seq(T) /\ Len(N) = c BY <1>3, <2>1, <2>2, Zenon
  <2>6. L \in Seq(T) /\ Len(L) = Len(l) BY <1>3, <2>1, <2>2, Zenon
  <2> QED BY <2>3, <2>4, <2>5, <2>6
<1> HIDE DEF T
<1>6. /\ DOMAIN row = 1..(Len(s) + Len(t) + c + Len(l))
      /\ \A i \in 1..Len(s) : row[i] = E[i]
      /\ \A i \in 1..Len(t) : row[Len(s) + i] = P[i]
      /\ \A i \in 1..c : row[Len(s) + Len(t) + i] = N[i]
      /\ \A i \in 1..Len(l) : row[Len(s) + Len(t) + c + i] = L[i]
  <2>1. E \in Seq(T) /\ P \in Seq(T) /\ N \in Seq(T) /\ L \in Seq(T) BY <1>5
  <2>2. InRow(row, E, P, N, L) BY <2>1, FourInRow
  <2> HIDE DEF row
  <2> QED BY <1>5, <2>2 DEF InRow
<1> HIDE DEF row
<1> DEFINE n == Len(s) + Len(t) + c + Len(l)
<1>7. /\ n \in Nat /\ DOMAIN fork = 1..n /\ Len(fork) = n
      /\ \A k \in 1..n : fork[k] = [row[k] EXCEPT !.seq = k]
  <2>1. n \in Nat BY <1>3
  <2>2. fork = [k \in 1..n |-> [row[k] EXCEPT !.seq = k]] BY <1>4, <1>6
  <2> HIDE DEF n
  <2>3. fork \in [1..n -> {fork[k] : k \in 1..n}] BY <2>2
  <2> QED BY <2>1, <2>2, <2>3, FunctionIsSeq
<1>8. /\ \A i \in 1..Len(s) : i \in 1..n
      /\ \A i \in 1..Len(t) : Len(s) + i \in 1..n
      /\ \A i \in 1..c : Len(s) + Len(t) + i \in 1..n
      /\ \A i \in 1..Len(l) : Len(s) + Len(t) + c + i \in 1..n
      /\ \A k \in 1..n : \/ k \in 1..Len(s)
                         \/ \E i \in 1..Len(t) : k = Len(s) + i
                         \/ \E i \in 1..c : k = Len(s) + Len(t) + i
                         \/ \E i \in 1..Len(l) : k = Len(s) + Len(t) + c + i
  <2>1. ASSUME NEW k \in 1..n
        PROVE  \/ k \in 1..Len(s)
               \/ k - Len(s) \in 1..Len(t) /\ k = Len(s) + (k - Len(s))
               \/ k - Len(s) - Len(t) \in 1..c /\ k = Len(s) + Len(t) + (k - Len(s) - Len(t))
               \/ /\ k - Len(s) - Len(t) - c \in 1..Len(l)
                  /\ k = Len(s) + Len(t) + c + (k - Len(s) - Len(t) - c)
    BY <1>3
  <2>2. \A k \in 1..n : \/ k \in 1..Len(s)
                        \/ \E i \in 1..Len(t) : k = Len(s) + i
                        \/ \E i \in 1..c : k = Len(s) + Len(t) + i
                        \/ \E i \in 1..Len(l) : k = Len(s) + Len(t) + c + i
    <3> HIDE DEF n
    <3> QED BY <2>1
  <2>3. /\ \A i \in 1..Len(s) : i \in 1..n
        /\ \A i \in 1..Len(t) : Len(s) + i \in 1..n
        /\ \A i \in 1..c : Len(s) + Len(t) + i \in 1..n
        /\ \A i \in 1..Len(l) : Len(s) + Len(t) + c + i \in 1..n
    BY <1>3
  <2> HIDE DEF n
  <2> QED BY <2>2, <2>3
<1> HIDE DEF n
<1>9. \A i \in 1..Len(s) :
        /\ fork[i].kind = "entry" /\ fork[i].lane = Null /\ fork[i].seq = i
        /\ fork[i].id = log[s[i]].id /\ fork[i].parentId = log[s[i]].parentId
  <2> TAKE i \in 1..Len(s)
  <2>1. fork[i] = [[log[s[i]] EXCEPT !.lane = Null] EXCEPT !.seq = i]
    BY <1>2, <1>6, <1>7, <1>8
  <2>2. log[s[i]] \in EntryMutation BY <1>1
  <2> QED BY <2>1, <2>2, NumberedEntry
<1>10. \A i \in 1..Len(t) :
         LET m == fork[Len(s) + i]
         IN  m.kind = "lane" /\ m.seq = Len(s) + i /\ m.lane = t[i] /\ m.leafId = lanes[t[i]]
  <2> TAKE i \in 1..Len(t)
  <2>1. fork[Len(s) + i] = [[kind |-> "lane", seq |-> 0, lane |-> t[i], leafId |-> lanes[t[i]]]
                              EXCEPT !.seq = Len(s) + i]
    BY <1>2, <1>6, <1>7, <1>8
  <2> QED BY <2>1, NumberedPointer
<1>11. \A i \in 1..c :
         LET m == fork[Len(s) + Len(t) + i]
         IN  m.kind = "name" /\ m.seq = Len(s) + Len(t) + i /\ m.name = NameOf(log)
  <2> TAKE i \in 1..c
  <2>1. fork[Len(s) + Len(t) + i] = [[kind |-> "name", seq |-> 0, name |-> NameOf(log)]
                              EXCEPT !.seq = Len(s) + Len(t) + i]
    BY <1>2, <1>6, <1>7, <1>8
  <2> QED BY <2>1, NumberedName
<1>12. \A i \in 1..Len(l) :
         LET m == fork[Len(s) + Len(t) + c + i]
         IN  /\ m.kind = "label" /\ m.seq = Len(s) + Len(t) + c + i
             /\ m.targetId = log[l[i]].id /\ m.label = LabelOf(log, log[l[i]].id)
  <2> TAKE i \in 1..Len(l)
  <2>1. fork[Len(s) + Len(t) + c + i]
           = [[kind |-> "label", seq |-> 0, targetId |-> log[l[i]].id,
               label |-> LabelOf(log, log[l[i]].id)] EXCEPT !.seq = Len(s) + Len(t) + c + i]
    BY <1>2, <1>6, <1>7, <1>8
  <2> QED BY <2>1, NumberedLabel
<1>13. \A k \in 1..n : fork[k].seq = k
  BY <1>8, <1>9, <1>10, <1>11, <1>12
<1>14. DOMAIN fork = 1..(Len(s) + Len(t) + c + Len(l)) /\ Len(fork) = Len(s) + Len(t) + c + Len(l)
  BY <1>7 DEF n
<1>15. \A k \in DOMAIN fork : fork[k].seq = k BY <1>7, <1>13
<1>16. ForkIs(fork, log, lanes, s, t, c, l)
  BY <1>9, <1>10, <1>11, <1>12, <1>14, <1>15, Zenon DEF ForkIs
<1> QED BY <1>16 DEF fork, s, t, c, l

\* A fork of a log: it copies a closed set of entries, and its lanes point into that.
ForkFrom(fork, log, ids, lanes, s, t, c, l) ==
  /\ log \in Seq(Mutation) /\ Replays(log)
  /\ ids \in SUBSET EntryIds(log, Len(log)) /\ IsClosed(log, ids)
  /\ DOMAIN lanes \in SUBSET Lane /\ Main \in DOMAIN lanes
  /\ \A lane \in DOMAIN lanes : lanes[lane] \in ids \cup {Null}
  /\ ForkSources(log, ids, lanes, s, t, c, l)
  /\ ForkIs(fork, log, lanes, s, t, c, l)

\* The kind of a mutation of a fork, by its place.
Placed(fork, s, t, c, l, k) ==
  \/ k \in 1..Len(s) /\ fork[k].kind = "entry"
  \/ fork[k].kind = "lane" /\ \E i \in 1..Len(t) : k = Len(s) + i
  \/ fork[k].kind = "name" /\ \E i \in 1..c : k = Len(s) + Len(t) + i
  \/ fork[k].kind = "label" /\ \E i \in 1..Len(l) : k = Len(s) + Len(t) + c + i

\* Every mutation of a fork is of one of the four kinds, each in its own part.
LEMMA ForkPlaces ==
  ASSUME NEW fork, NEW log, NEW ids, NEW lanes, NEW s, NEW t, NEW c, NEW l,
         ForkFrom(fork, log, ids, lanes, s, t, c, l)
  PROVE  /\ Len(s) \in Nat /\ Len(t) \in Nat /\ c \in {0, 1} /\ Len(l) \in Nat
         /\ Len(fork) = Len(s) + Len(t) + c + Len(l)
         /\ \A i \in 1..Len(s) : i \in 1..Len(fork)
         /\ \A i \in 1..Len(t) : Len(s) + i \in 1..Len(fork) /\ Len(s) < Len(s) + i
         /\ \A i \in 1..c :
              Len(s) + Len(t) + i \in 1..Len(fork) /\ Len(s) < Len(s) + Len(t) + i
         /\ \A i \in 1..Len(l) :
              /\ Len(s) + Len(t) + c + i \in 1..Len(fork)
              /\ Len(s) < Len(s) + Len(t) + c + i
         /\ \A k \in 1..Len(fork) : Placed(fork, s, t, c, l, k)
<1>1. Len(s) \in Nat /\ Len(t) \in Nat /\ c \in {0, 1} /\ Len(l) \in Nat
  <2>1. s \in Seq(Entries(log)) /\ t \in Seq(DOMAIN lanes) /\ l \in Seq(Entries(log))
        /\ c = IF NameOf(log) = Null THEN 0 ELSE 1
    BY DEF ForkFrom, ForkSources
  <2> QED BY <2>1
<1>2. Len(fork) = Len(s) + Len(t) + c + Len(l) BY DEF ForkFrom, ForkIs
<1>3. /\ \A i \in 1..Len(s) : i \in 1..Len(fork)
      /\ \A i \in 1..Len(t) : Len(s) + i \in 1..Len(fork) /\ Len(s) < Len(s) + i
      /\ \A i \in 1..c :
           Len(s) + Len(t) + i \in 1..Len(fork) /\ Len(s) < Len(s) + Len(t) + i
      /\ \A i \in 1..Len(l) :
           /\ Len(s) + Len(t) + c + i \in 1..Len(fork)
           /\ Len(s) < Len(s) + Len(t) + c + i
  BY <1>1, <1>2
<1>4. ASSUME NEW k \in 1..Len(fork)
      PROVE  \/ k \in 1..Len(s)
             \/ \E i \in 1..Len(t) : k = Len(s) + i
             \/ \E i \in 1..c : k = Len(s) + Len(t) + i
             \/ \E i \in 1..Len(l) : k = Len(s) + Len(t) + c + i
  <2>1. \/ k \in 1..Len(s)
        \/ k - Len(s) \in 1..Len(t) /\ k = Len(s) + (k - Len(s))
        \/ k - Len(s) - Len(t) \in 1..c /\ k = Len(s) + Len(t) + (k - Len(s) - Len(t))
        \/ /\ k - Len(s) - Len(t) - c \in 1..Len(l)
           /\ k = Len(s) + Len(t) + c + (k - Len(s) - Len(t) - c)
    BY <1>1, <1>2
  <2> QED BY <2>1
<1>5. /\ \A i \in 1..Len(s) : fork[i].kind = "entry"
      /\ \A i \in 1..Len(t) : fork[Len(s) + i].kind = "lane"
      /\ \A i \in 1..c : fork[Len(s) + Len(t) + i].kind = "name"
      /\ \A i \in 1..Len(l) : fork[Len(s) + Len(t) + c + i].kind = "label"
  BY Zenon DEF ForkFrom, ForkIs
<1>6. ASSUME NEW k \in 1..Len(fork)
      PROVE  \/ k \in 1..Len(s) /\ fork[k].kind = "entry"
             \/ fork[k].kind = "lane" /\ \E i \in 1..Len(t) : k = Len(s) + i
             \/ fork[k].kind = "name" /\ \E i \in 1..c : k = Len(s) + Len(t) + i
             \/ fork[k].kind = "label" /\ \E i \in 1..Len(l) : k = Len(s) + Len(t) + c + i
  <2>1. CASE k \in 1..Len(s) BY <1>5, <2>1
  <2>2. CASE \E i \in 1..Len(t) : k = Len(s) + i BY <1>5, <2>2, Zenon
  <2>3. CASE \E i \in 1..c : k = Len(s) + Len(t) + i BY <1>5, <2>3, Zenon
  <2>4. CASE \E i \in 1..Len(l) : k = Len(s) + Len(t) + c + i BY <1>5, <2>4, Zenon
  <2> QED BY <1>4, <2>1, <2>2, <2>3, <2>4, Zenon
<1>7. \A k \in 1..Len(fork) : Placed(fork, s, t, c, l, k)
  BY <1>6, Zenon DEF Placed
<1> QED BY <1>1, <1>2, <1>3, <1>7

\* The entries come first, with the ids and the parents they had.
LEMMA ForkEntries ==
  ASSUME NEW fork, NEW log, NEW ids, NEW lanes, NEW s, NEW t, NEW c, NEW l,
         ForkFrom(fork, log, ids, lanes, s, t, c, l), NEW n \in 0..Len(fork)
  PROVE  /\ Of(fork, n, {"entry"}) = {i \in 1..Len(s) : i <= n}
         /\ Of(fork, n, {"entry", "record"}) = {i \in 1..Len(s) : i <= n}
         /\ \A i \in 1..Len(s) :
              /\ fork[i].id = log[s[i]].id /\ fork[i].parentId = log[s[i]].parentId
              /\ fork[i].lane = Null
         /\ Len(s) <= n => EntryIds(fork, n) = ids
<1>1. /\ Len(s) \in Nat /\ Len(fork) \in Nat
      /\ \A i \in 1..Len(s) : i \in 1..Len(fork) /\ fork[i].kind = "entry"
      /\ \A k \in 1..Len(fork) : fork[k].kind \in {"entry", "record"} => k \in 1..Len(s)
  <2>1. \A i \in 1..Len(s) : fork[i].kind = "entry" BY Zenon DEF ForkFrom, ForkIs
  <2>2. Len(fork) = Len(s) + Len(t) + c + Len(l) /\ Len(s) \in Nat /\ Len(t) \in Nat
        /\ c \in {0, 1} /\ Len(l) \in Nat
    BY ForkPlaces
  <2>3. Len(fork) \in Nat BY <2>2
  <2>4. \A i \in 1..Len(s) : i \in 1..Len(fork) BY ForkPlaces
  <2>5. \A k \in 1..Len(fork) :
          \/ k \in 1..Len(s) /\ fork[k].kind = "entry"
          \/ fork[k].kind = "lane" \/ fork[k].kind = "name" \/ fork[k].kind = "label"
    BY ForkPlaces DEF Placed
  <2> QED BY <2>1, <2>2, <2>3, <2>4, <2>5
<1>2. /\ Of(fork, n, {"entry"}) = {i \in 1..Len(s) : i <= n}
      /\ Of(fork, n, {"entry", "record"}) = {i \in 1..Len(s) : i <= n}
  BY <1>1 DEF Of
<1>3. \A i \in 1..Len(s) :
        /\ fork[i].id = log[s[i]].id /\ fork[i].parentId = log[s[i]].parentId
        /\ fork[i].lane = Null
  BY Zenon DEF ForkFrom, ForkIs
<1>4. ASSUME Len(s) <= n PROVE EntryIds(fork, n) = ids
  <2>1. \A i \in 1..Len(s) : i <= n BY <1>1, <1>4
  <2>2. Of(fork, n, {"entry"}) = 1..Len(s) BY <1>2, <2>1
  <2>3. ids = {log[s[i]].id : i \in 1..Len(s)} BY DEF ForkFrom, ForkSources
  <2> QED BY <1>3, <2>2, <2>3 DEF EntryIds
<1> QED BY <1>2, <1>3, <1>4

\* A fork replays: its entries follow their parents, and all else follows the entries.
LEMMA ForkReplays ==
  ASSUME NEW fork, NEW log, NEW ids, NEW lanes, NEW s, NEW t, NEW c, NEW l,
         ForkFrom(fork, log, ids, lanes, s, t, c, l)
  PROVE  Replays(fork)
<1> SUFFICES ASSUME NEW n \in 1..Len(fork) PROVE Accepts(fork, n - 1, fork[n])
  BY DEF Replays
<1>1. Len(s) \in Nat /\ Len(fork) \in Nat
  <2>1. Len(fork) = Len(s) + Len(t) + c + Len(l) /\ Len(s) \in Nat /\ Len(t) \in Nat
        /\ c \in {0, 1} /\ Len(l) \in Nat
    BY ForkPlaces
  <2> QED BY <2>1
<1>2. fork[n].seq = (n - 1) + 1
  <2>1. fork[n].seq = n
    <3>1. DOMAIN fork = 1..Len(fork) /\ \A k \in DOMAIN fork : fork[k].seq = k
      BY DEF ForkFrom, ForkIs
    <3> QED BY <3>1
  <2> QED BY <1>1, <2>1
<1>3. n - 1 \in 0..Len(fork) BY <1>1
<1>4. \/ n \in 1..Len(s) /\ fork[n].kind = "entry"
      \/ fork[n].kind = "lane" /\ \E i \in 1..Len(t) : n = Len(s) + i
      \/ fork[n].kind = "name" /\ \E i \in 1..c : n = Len(s) + Len(t) + i
      \/ fork[n].kind = "label" /\ \E i \in 1..Len(l) : n = Len(s) + Len(t) + c + i
  <2>1. Placed(fork, s, t, c, l, n) BY ForkPlaces
  <2> QED BY <2>1, Zenon DEF Placed
<1>5. CASE fork[n].kind = "entry"
  <2>1. n \in 1..Len(s) BY <1>5, <1>4
  <2>2. /\ fork[n].lane = Null
        /\ \A i \in 1..Len(s) : fork[i].id = log[s[i]].id /\ fork[i].parentId = log[s[i]].parentId
        /\ Of(fork, n - 1, {"entry"}) = {i \in 1..Len(s) : i <= n - 1}
        /\ Of(fork, n - 1, {"entry", "record"}) = {i \in 1..Len(s) : i <= n - 1}
    <3>1. /\ \A i \in 1..Len(s) :
               /\ fork[i].id = log[s[i]].id /\ fork[i].parentId = log[s[i]].parentId
               /\ fork[i].lane = Null
          /\ Of(fork, n - 1, {"entry"}) = {i \in 1..Len(s) : i <= n - 1}
          /\ Of(fork, n - 1, {"entry", "record"}) = {i \in 1..Len(s) : i <= n - 1}
      BY <1>3, ForkEntries, SMTT(30)
    <3> QED BY <2>1, <3>1
  <2>3. /\ \A i \in 1..Len(s) : s[i] \in Entries(log) /\ s[i] \in Nat
        /\ \A i, j \in 1..Len(s) : i < j => s[i] < s[j]
        /\ ids = {log[s[i]].id : i \in 1..Len(s)}
        /\ log \in Seq(Mutation) /\ Replays(log) /\ IsClosed(log, ids)
    <3>1. /\ s \in Seq(Entries(log)) /\ \A i, j \in 1..Len(s) : i < j => s[i] < s[j]
          /\ ids = {log[s[i]].id : i \in 1..Len(s)}
          /\ log \in Seq(Mutation) /\ Replays(log) /\ IsClosed(log, ids)
      BY DEF ForkFrom, ForkSources
    <3>2. \A i \in 1..Len(s) : s[i] \in Entries(log) BY <3>1
    <3>3. \A x \in Entries(log) : x \in Nat BY <3>1, EntriesReplay
    <3> QED BY <3>1, <3>2, <3>3
  <2>4. fork[n].id \notin UsedIds(fork, n - 1)
    <3> SUFFICES ASSUME NEW i \in 1..Len(s), i <= n - 1, fork[i].id = fork[n].id PROVE FALSE
      BY <2>2 DEF UsedIds
    <3>1. \A x, y \in Entries(log) : log[x].id = log[y].id => x = y BY <2>3, EntriesReplay
    <3>2. s[i] \in Entries(log) /\ s[n] \in Entries(log) /\ s[n] \in Nat BY <2>1, <2>3
    <3>3. log[s[i]].id = log[s[n]].id BY <2>1, <2>2
    <3>4. s[i] = s[n] BY <3>1, <3>2, <3>3, Zenon
    <3>5. i < n BY <1>1
    <3>6. s[i] < s[n] BY <2>1, <2>3, <3>5
    <3> QED BY <3>2, <3>4, <3>6
  <2>5. fork[n].parentId \in EntryIds(fork, n - 1) \cup {Null}
    <3> SUFFICES ASSUME log[s[n]].parentId # Null
                 PROVE  \E i \in 1..Len(s) : i <= n - 1 /\ log[s[i]].id = log[s[n]].parentId
      <4>1. EntryIds(fork, n - 1) = {fork[i].id : i \in {i \in 1..Len(s) : i <= n - 1}}
        BY <2>2 DEF EntryIds
      <4>2. \A i \in 1..Len(s) : i <= n - 1 => fork[i].id \in EntryIds(fork, n - 1)
        BY <4>1, Zenon
      <4> QED BY <2>1, <2>2, <4>2
    <3>1. PICK j \in Entries(log) : j < s[n] /\ log[j].id = log[s[n]].parentId
      BY <2>1, <2>3, EntriesReplay
    <3>2. EntryOf(log, log[s[n]].id) = log[s[n]] BY <2>1, <2>3, EntryOfId
    <3>3. log[s[n]].parentId \in ids BY <2>1, <2>3, <3>2 DEF IsClosed
    <3>4. PICK i \in 1..Len(s) : log[s[i]].id = log[s[n]].parentId BY <2>3, <3>3
    <3>5. s[i] = j BY <2>3, <3>1, <3>4, EntriesReplay
    <3>6. s[i] \in Nat /\ s[n] \in Nat /\ s[i] < s[n] BY <2>1, <2>3, <3>1, <3>5
    <3>7. ~(n < i) /\ n # i BY <2>1, <2>3, <3>6
    <3>8. i <= n - 1 BY <1>1, <3>7
    <3> QED BY <3>4, <3>8
  <2> QED BY <1>2, <1>5, <2>2, <2>4, <2>5 DEF Accepts
<1>6. CASE fork[n].kind = "lane"
  <2>1. PICK i \in 1..Len(t) : n = Len(s) + i BY <1>6, <1>4
  <2>2. Len(s) <= n - 1 BY <1>1, <2>1, ForkPlaces
  <2>3. EntryIds(fork, n - 1) = ids BY <1>3, <2>2, ForkEntries
  <2>4. fork[Len(s) + i].leafId = lanes[t[i]] BY Zenon DEF ForkFrom, ForkIs
  <2>5. t \in Seq(DOMAIN lanes) /\ \A lane \in DOMAIN lanes : lanes[lane] \in ids \cup {Null}
    BY DEF ForkFrom, ForkSources
  <2>6. t[i] \in DOMAIN lanes BY <2>5
  <2>7. fork[n].leafId \in ids \cup {Null} BY <2>1, <2>4, <2>5, <2>6
  <2> QED BY <1>2, <1>6, <2>3, <2>7 DEF Accepts
<1>7. CASE fork[n].kind = "name" BY <1>2, <1>7 DEF Accepts
<1>8. CASE fork[n].kind = "label"
  <2>1. PICK i \in 1..Len(l) : n = Len(s) + Len(t) + c + i BY <1>8, <1>4
  <2>2. Len(s) < n BY <2>1, ForkPlaces
  <2>3. EntryIds(fork, n - 1) = ids
    <3>1. Len(s) <= n - 1 BY <1>1, <2>2
    <3> QED BY <1>3, <3>1, ForkEntries
  <2>4. fork[n].targetId = log[l[i]].id BY <2>1, Zenon DEF ForkFrom, ForkIs
  <2>5. log[l[i]].id \in ids BY DEF ForkFrom, ForkSources
  <2> QED BY <1>2, <1>8, <2>3, <2>4, <2>5 DEF Accepts
<1> QED BY <1>5, <1>6, <1>7, <1>8, <1>4

\* The mutations of one kind of a fork, when all of it is applied.
LEMMA ForkKinds ==
  ASSUME NEW fork, NEW log, NEW ids, NEW lanes, NEW s, NEW t, NEW c, NEW l,
         ForkFrom(fork, log, ids, lanes, s, t, c, l)
  PROVE  /\ Of(fork, Len(fork), {"lane"}) = {Len(s) + i : i \in 1..Len(t)}
         /\ Of(fork, Len(fork), {"lane", "entry"})
              = {Len(s) + i : i \in 1..Len(t)} \cup 1..Len(s)
         /\ Of(fork, Len(fork), {"name"}) = {Len(s) + Len(t) + i : i \in 1..c}
         /\ Of(fork, Len(fork), {"label"}) = {Len(s) + Len(t) + c + i : i \in 1..Len(l)}
<1> DEFINE n == Len(fork)
<1>1. /\ \A k \in 1..n : Placed(fork, s, t, c, l, k)
      /\ \A i \in 1..Len(s) : i \in 1..n
      /\ \A i \in 1..Len(t) : Len(s) + i \in 1..n
      /\ \A i \in 1..c : Len(s) + Len(t) + i \in 1..n
      /\ \A i \in 1..Len(l) : Len(s) + Len(t) + c + i \in 1..n
  BY ForkPlaces
<1>2. /\ \A i \in 1..Len(s) : fork[i].kind = "entry"
      /\ \A i \in 1..Len(t) : fork[Len(s) + i].kind = "lane"
      /\ \A i \in 1..c : fork[Len(s) + Len(t) + i].kind = "name"
      /\ \A i \in 1..Len(l) : fork[Len(s) + Len(t) + c + i].kind = "label"
  BY Zenon DEF ForkFrom, ForkIs
<1> DEFINE A == 1..Len(s)
           B == {Len(s) + i : i \in 1..Len(t)}
           C == {Len(s) + Len(t) + i : i \in 1..c}
           D == {Len(s) + Len(t) + c + i : i \in 1..Len(l)}
<1>3. /\ \A k \in A : k \in 1..n /\ fork[k].kind = "entry"
      /\ \A k \in B : k \in 1..n /\ fork[k].kind = "lane"
      /\ \A k \in C : k \in 1..n /\ fork[k].kind = "name"
      /\ \A k \in D : k \in 1..n /\ fork[k].kind = "label"
  <2> HIDE DEF n
  <2> QED BY <1>1, <1>2, Zenon
<1>4. ASSUME NEW k \in 1..n
      PROVE  \/ k \in A /\ fork[k].kind = "entry"
             \/ k \in B /\ fork[k].kind = "lane"
             \/ k \in C /\ fork[k].kind = "name"
             \/ k \in D /\ fork[k].kind = "label"
  <2>1. Placed(fork, s, t, c, l, k) BY <1>1
  <2> HIDE DEF n
  <2> QED BY <2>1, Zenon DEF Placed
<1> HIDE DEF A, B, C, D, n
<1>5. /\ Of(fork, n, {"lane"}) = B /\ Of(fork, n, {"lane", "entry"}) = B \cup A
      /\ Of(fork, n, {"name"}) = C /\ Of(fork, n, {"label"}) = D
  BY <1>3, <1>4 DEF Of
<1> QED BY <1>5 DEF n, A, B, C, D

\* The latest of one position.
LEMMA LatestOfOne ==
  ASSUME NEW i \in Nat
  PROVE  Latest({i}) = {i} /\ (CHOOSE j \in Latest({i}) : TRUE) = i
<1>1. Latest({i}) = {i} BY DEF Latest
<1> QED BY <1>1

\* It has the lanes it was asked for, and they point where they should.
LEMMA ForkLanesAre ==
  ASSUME NEW fork, NEW log, NEW ids, NEW lanes, NEW s, NEW t, NEW c, NEW l,
         ForkFrom(fork, log, ids, lanes, s, t, c, l)
  PROVE  /\ Lanes(fork, Len(fork)) = DOMAIN lanes
         /\ \A lane \in DOMAIN lanes : LeafOf(fork, Len(fork), lane) = lanes[lane]
<1>1. /\ Of(fork, Len(fork), {"lane"}) = {Len(s) + i : i \in 1..Len(t)}
      /\ Of(fork, Len(fork), {"lane", "entry"}) = {Len(s) + i : i \in 1..Len(t)} \cup 1..Len(s)
  BY ForkKinds
<1>2. \A i \in 1..Len(t) :
         /\ fork[Len(s) + i].kind = "lane" /\ fork[Len(s) + i].lane = t[i]
         /\ fork[Len(s) + i].leafId = lanes[t[i]]
  BY Zenon DEF ForkFrom, ForkIs
<1>3. /\ \A i \in 1..Len(t) : t[i] \in DOMAIN lanes
      /\ \A i, j \in 1..Len(t) : t[i] = t[j] => i = j
      /\ \A lane \in DOMAIN lanes : \E i \in 1..Len(t) : t[i] = lane
      /\ Main \in DOMAIN lanes /\ DOMAIN lanes \in SUBSET Lane
  <2>1. t \in Seq(DOMAIN lanes) BY DEF ForkFrom, ForkSources
  <2>2. \A i \in 1..Len(t) : t[i] \in DOMAIN lanes BY <2>1
  <2> QED BY <2>2 DEF ForkFrom, ForkSources
<1>4. Lanes(fork, Len(fork)) = DOMAIN lanes
  <2>1. Lanes(fork, Len(fork)) = {Main} \cup {t[i] : i \in 1..Len(t)}
    BY <1>1, <1>2 DEF Lanes
  <2>2. \A lane \in DOMAIN lanes : lane \in {t[i] : i \in 1..Len(t)} BY <1>3
  <2>3. \A lane \in {t[i] : i \in 1..Len(t)} : lane \in DOMAIN lanes BY <1>3
  <2> QED BY <1>3, <2>1, <2>2, <2>3
<1>5. ASSUME NEW lane \in DOMAIN lanes PROVE LeafOf(fork, Len(fork), lane) = lanes[lane]
  <2> DEFINE moves == {k \in Of(fork, Len(fork), {"lane", "entry"}) : fork[k].lane = lane}
  <2>1. PICK i \in 1..Len(t) : t[i] = lane BY <1>3
  <2>2. lane # Null BY <1>3, NameAssumption
  <2>3. \A k \in 1..Len(s) : fork[k].lane = Null BY Zenon DEF ForkFrom, ForkIs
  <2>4. moves = {Len(s) + i}
    <3>1. Len(s) + i \in moves BY <1>1, <1>2, <2>1
    <3>2. ASSUME NEW k \in moves PROVE k = Len(s) + i
      <4>1. k \notin 1..Len(s) BY <2>2, <2>3
      <4>2. PICK j \in 1..Len(t) : k = Len(s) + j BY <1>1, <4>1
      <4>3. t[j] = lane BY <1>2, <4>2
      <4> QED BY <1>3, <2>1, <4>2, <4>3
    <3> QED BY <3>1, <3>2
  <2> HIDE DEF moves
  <2>5. Len(s) + i \in Nat
    <3>1. Len(s) \in Nat /\ Len(t) \in Nat BY ForkPlaces
    <3> QED BY <3>1
  <2>6. Latest(moves) = {Len(s) + i} /\ (CHOOSE k \in Latest(moves) : TRUE) = Len(s) + i
    BY <2>4, <2>5, LatestOfOne
  <2>7. /\ fork[Len(s) + i].kind = "lane" /\ fork[Len(s) + i].leafId = lanes[lane]
    BY <1>2, <2>1
  <2>8. LeafOf(fork, Len(fork), lane)
          = IF Latest(moves) = {} THEN Null
            ELSE IF fork[CHOOSE k \in Latest(moves) : TRUE].kind = "lane"
                 THEN fork[CHOOSE k \in Latest(moves) : TRUE].leafId
                 ELSE fork[CHOOSE k \in Latest(moves) : TRUE].id
    BY DEF LeafOf, moves
  <2> QED BY <2>6, <2>7, <2>8
<1> QED BY <1>4, <1>5

\* It has the name of the log,
LEMMA ForkName ==
  ASSUME NEW fork, NEW log, NEW ids, NEW lanes, NEW s, NEW t, NEW c, NEW l,
         ForkFrom(fork, log, ids, lanes, s, t, c, l)
  PROVE  NameOf(fork) = NameOf(log)
<1> DEFINE names == Of(fork, Len(fork), {"name"})
<1>1. /\ names = {Len(s) + Len(t) + i : i \in 1..c}
      /\ Len(s) \in Nat /\ Len(t) \in Nat
  BY ForkKinds, ForkPlaces
<1>2. c = IF NameOf(log) = Null THEN 0 ELSE 1 BY DEF ForkFrom, ForkSources
<1>3. NameOf(fork) = IF names = {} THEN Null ELSE fork[CHOOSE i \in Latest(names) : TRUE].name
  BY DEF NameOf
<1> HIDE DEF names
<1>4. CASE NameOf(log) = Null
  <2>1. names = {} BY <1>1, <1>2, <1>4
  <2> QED BY <1>3, <1>4, <2>1
<1>5. CASE NameOf(log) # Null
  <2>1. 1..c = {1} BY <1>2, <1>5
  <2>2. names = {Len(s) + Len(t) + 1} /\ Len(s) + Len(t) + 1 \in Nat BY <1>1, <2>1
  <2>3. (CHOOSE i \in Latest(names) : TRUE) = Len(s) + Len(t) + 1 BY <2>2, LatestOfOne
  <2>4. fork[Len(s) + Len(t) + 1].name = NameOf(log)
    <3>1. \A i \in 1..c : fork[Len(s) + Len(t) + i].name = NameOf(log)
      BY Zenon DEF ForkFrom, ForkIs
    <3>2. 1 \in 1..c BY <2>1
    <3> QED BY <3>1, <3>2
  <2> QED BY <1>3, <2>2, <2>3, <2>4
<1> QED BY <1>4, <1>5

\* and the labels of what it copied.
LEMMA ForkLabels ==
  ASSUME NEW fork, NEW log, NEW ids, NEW lanes, NEW s, NEW t, NEW c, NEW l,
         ForkFrom(fork, log, ids, lanes, s, t, c, l), NEW id \in ids
  PROVE  LabelOf(fork, id) = LabelOf(log, id)
<1> DEFINE at(i) == Len(s) + Len(t) + c + i
           labels == {k \in Of(fork, Len(fork), {"label"}) : fork[k].targetId = id}
<1>1. Of(fork, Len(fork), {"label"}) = {at(i) : i \in 1..Len(l)}
  BY ForkKinds
<1>2. \A i \in 1..Len(l) : at(i) \in Nat
  <2>1. Len(s) \in Nat /\ Len(t) \in Nat /\ c \in {0, 1} /\ Len(l) \in Nat BY ForkPlaces
  <2> QED BY <2>1
<1>3. \A i \in 1..Len(l) :
        /\ fork[at(i)].targetId = log[l[i]].id
        /\ fork[at(i)].label = LabelOf(log, log[l[i]].id)
  BY Zenon DEF ForkFrom, ForkIs
<1>4. /\ log \in Seq(Mutation) /\ Replays(log) /\ ids \in SUBSET EntryIds(log, Len(log))
      /\ l \in Seq(Entries(log))
      /\ \A i, j \in 1..Len(l) : l[i] = l[j] => i = j
      /\ \A i \in 1..Len(l) : log[l[i]].id \in ids /\ LabelOf(log, log[l[i]].id) # Null
      /\ \A i \in Entries(log) : log[i].id \in ids /\ LabelOf(log, log[i].id) # Null =>
                                   \E j \in 1..Len(l) : l[j] = i
  BY DEF ForkFrom, ForkSources
<1>5. LabelOf(fork, id)
        = IF labels = {} THEN Null ELSE fork[CHOOSE i \in Latest(labels) : TRUE].label
  BY DEF LabelOf
<1>6. labels = {at(i) : i \in {i \in 1..Len(l) : log[l[i]].id = id}}
  <2> HIDE DEF at
  <2>1. \A k : k \in labels <=> \E i \in 1..Len(l) : k = at(i) /\ fork[k].targetId = id
    BY <1>1
  <2> HIDE DEF labels
  <2> QED BY <1>3, <2>1
<1> HIDE DEF labels, at
<1>7. CASE LabelOf(log, id) = Null
  <2>1. labels = {} BY <1>4, <1>6, <1>7
  <2> QED BY <1>5, <1>7, <2>1
<1>8. CASE LabelOf(log, id) # Null
  <2>1. PICK x \in Entries(log) : log[x].id = id
    <3>1. id \in EntryIds(log, Len(log)) BY <1>4
    <3> QED BY <1>4, <3>1, EntryOfId
  <2>2. PICK i \in 1..Len(l) : l[i] = x BY <1>4, <1>8, <2>1
  <2>3. ASSUME NEW j \in 1..Len(l), log[l[j]].id = id PROVE j = i
    <3>1. l[j] \in Entries(log) BY <1>4
    <3>2. l[j] = x BY <1>4, <2>1, <2>3, <3>1, EntriesReplay
    <3> QED BY <1>4, <2>2, <3>2
  <2>4. labels = {at(i)} BY <1>6, <2>1, <2>2, <2>3
  <2>5. (CHOOSE k \in Latest(labels) : TRUE) = at(i) BY <1>2, <2>4, LatestOfOne
  <2> QED BY <1>3, <1>5, <2>1, <2>2, <2>4, <2>5
<1> QED BY <1>7, <1>8

\* The branches of a fork are those of the log.
LEMMA ForkBranches ==
  ASSUME NEW fork, NEW log, NEW ids, NEW lanes, NEW s, NEW t, NEW c, NEW l,
         ForkFrom(fork, log, ids, lanes, s, t, c, l)
  PROVE  /\ EntryIds(fork, Len(fork)) = ids
         /\ \A lane \in DOMAIN lanes : WalkToRoot(fork, lanes[lane]) = WalkToRoot(log, lanes[lane])
<1>1. /\ log \in Seq(Mutation) /\ Replays(log) /\ ids \in SUBSET EntryIds(log, Len(log))
      /\ IsClosed(log, ids) /\ ids = {log[s[i]].id : i \in 1..Len(s)}
      /\ \A lane \in DOMAIN lanes : lanes[lane] \in ids \cup {Null}
      /\ s \in Seq(Entries(log))
  BY DEF ForkFrom, ForkSources
<1>2. Len(s) \in Nat /\ Len(fork) \in Nat /\ Len(s) <= Len(fork)
  <2>1. Len(fork) = Len(s) + Len(t) + c + Len(l) /\ Len(s) \in Nat /\ Len(t) \in Nat
        /\ c \in {0, 1} /\ Len(l) \in Nat
    BY ForkPlaces
  <2> QED BY <2>1
<1>3. /\ EntryIds(fork, Len(fork)) = ids
      /\ Of(fork, Len(fork), {"entry"}) = 1..Len(s)
      /\ \A i \in 1..Len(s) : fork[i].id = log[s[i]].id /\ fork[i].parentId = log[s[i]].parentId
  <2>1. Len(fork) \in 0..Len(fork) BY <1>2
  <2>2. /\ Of(fork, Len(fork), {"entry"}) = {i \in 1..Len(s) : i <= Len(fork)}
        /\ \A i \in 1..Len(s) : fork[i].id = log[s[i]].id /\ fork[i].parentId = log[s[i]].parentId
        /\ EntryIds(fork, Len(fork)) = ids
    BY <1>2, <2>1, ForkEntries
  <2>3. \A i \in 1..Len(s) : i <= Len(fork) BY <1>2
  <2> QED BY <2>2, <2>3
<1>4. ASSUME NEW id \in ids PROVE EntryOf(fork, id).parentId = EntryOf(log, id).parentId
  <2> DEFINE one == CHOOSE i \in 1..Len(s) : fork[i].id = id
  <2>1. one \in 1..Len(s) /\ fork[one].id = id BY <1>1, <1>3
  <2>2. EntryOf(fork, id) = fork[one] BY <1>3 DEF EntryOf
  <2> HIDE DEF one
  <2>3. s[one] \in Entries(log) /\ log[s[one]].id = id BY <1>1, <1>3, <2>1
  <2>4. EntryOf(log, id) = log[s[one]] BY <1>1, <2>3, EntryOfId
  <2> QED BY <1>3, <2>1, <2>2, <2>4
<1>5. \A start \in ids \cup {Null} : WalkToRoot(fork, start) = WalkToRoot(log, start)
  BY <1>1, <1>3, <1>4, WalkStays
<1> QED BY <1>1, <1>3, <1>5

\* A fork that is allowed is faithful.
LEMMA ForkIsGood ==
  ASSUME NEW log \in Seq(Mutation), Replays(log),
         NEW options \in ForkOptions, ForkAllowed(log, options)
  PROVE  ForkIsFaithful(log, options)
<1> DEFINE ids == CopiedIds(log, options)
           lanes == ForkLanes(log, options)
           fork == ForkMutations(log, options)
           s == Ascending(PositionsOf(log, ids))
           t == SetToSeq(DOMAIN lanes)
           c == IF NameOf(log) = Null THEN 0 ELSE 1
           l == Ascending({i \in PositionsOf(log, ids) : LabelOf(log, log[i].id) # Null})
<1>1. /\ ids \in SUBSET EntryIds(log, Len(log)) /\ IsClosed(log, ids)
      /\ DOMAIN lanes \in SUBSET Lane /\ Main \in DOMAIN lanes /\ IsFiniteSet(DOMAIN lanes)
      /\ \A lane \in DOMAIN lanes : lanes[lane] \in ids \cup {Null}
  BY ForkIsClosed
<1>2. fork = ForkOf(log, ids, lanes) BY DEF ForkMutations, ForkOf
<1>3. options.scope = "branch" => ids = WalkToRoot(log, ForkTarget(log, options))
  BY DEF CopiedIds
<1> HIDE DEF ids, lanes, fork
<1>4. ForkSources(log, ids, lanes, s, t, c, l) BY <1>1, ForkSourcesAre
<1>5. ForkIs(fork, log, lanes, s, t, c, l) BY <1>1, <1>2, ForkOfIs
<1> HIDE DEF s, t, c, l
<1>6. ForkFrom(fork, log, ids, lanes, s, t, c, l) BY <1>1, <1>4, <1>5 DEF ForkFrom
<1>7. Replays(fork) BY <1>6, ForkReplays
<1>8. /\ Lanes(fork, Len(fork)) = DOMAIN lanes
      /\ \A lane \in DOMAIN lanes : LeafOf(fork, Len(fork), lane) = lanes[lane]
  BY <1>6, ForkLanesAre
<1>9. NameOf(fork) = NameOf(log) BY <1>6, ForkName
<1>10. /\ EntryIds(fork, Len(fork)) = ids
       /\ \A lane \in DOMAIN lanes : WalkToRoot(fork, lanes[lane]) = WalkToRoot(log, lanes[lane])
  BY <1>6, ForkBranches
<1>11. \A id \in ids : LabelOf(fork, id) = LabelOf(log, id) BY <1>6, ForkLabels
<1> QED BY <1>3, <1>7, <1>8, <1>9, <1>10, <1>11 DEF ForkIsFaithful, ids, lanes, fork

\* What a storage has in memory was accepted one by one, also what it read from the file.
MemoryReplays == \A h \in Handle : Replays(mem[h])

LEMMA EmptyReplays == Replays(<<>>)
BY EmptySeq DEF Replays

\* Every step keeps that: an append is applied if it is accepted, a load replays.
LEMMA NextReplays == TypeOK /\ MemoryReplays /\ [Next]_vars => MemoryReplays'
<1> SUFFICES ASSUME TypeOK, MemoryReplays, [Next]_vars PROVE MemoryReplays'
  OBVIOUS
<1>1. mem \in [Handle -> Seq(Mutation)] BY DEF TypeOK
<1>2. ASSUME NEW h \in Handle, NEW log, mem' = [mem EXCEPT ![h] = log], Replays(log)
      PROVE  MemoryReplays'
  BY <1>1, <1>2 DEF MemoryReplays
<1>3. CASE UNCHANGED mem BY <1>3 DEF MemoryReplays
<1>4. ASSUME NEW h \in Handle, Read(h) PROVE MemoryReplays'
  <2>1. Replays(ValidPrefix(file)) BY <1>4 DEF Read, Loadable
  <2> QED BY <1>2, <1>4, <2>1 DEF Read
<1>5. ASSUME NEW h \in Handle, LoadFails(h) PROVE MemoryReplays'
  BY <1>2, <1>5, EmptyReplays DEF LoadFails
<1>6. ASSUME NEW h \in Handle, Acknowledge(h) PROVE MemoryReplays'
  <2>1. mem[h] \in Seq(Mutation) /\ Replays(mem[h]) BY <1>1 DEF MemoryReplays
  <2>2. Replays(Applied(mem[h], pending[h])) BY <2>1, ReplaysOneMore DEF Applied
  <2>3. mem' = [mem EXCEPT ![h] = Applied(mem[h], pending[h])] BY <1>1, <1>6 DEF Acknowledge
  <2> QED BY <1>2, <2>2, <2>3
<1>7. ASSUME NEW h \in Handle, AppendFails(h) PROVE MemoryReplays'
  <2>1. mem' = [mem EXCEPT ![h] = mem[h]] BY <1>1, <1>7 DEF AppendFails, AfterFailure
  <2> QED BY <1>2, <2>1 DEF MemoryReplays
<1>8. ASSUME Crash PROVE MemoryReplays'
  BY <1>8, EmptyReplays DEF Crash, MemoryReplays
<1>9. ASSUME NEW h \in Handle,
             Stage(h) \/ Publish(h) \/ RepairNewline(h) \/ WritePart(h) \/ Write(h)
      PROVE  UNCHANGED mem
  BY <1>9 DEF Stage, Publish, RepairNewline, WritePart, Write
<1>10. ASSUME NEW h \in Handle, Operation(h) PROVE UNCHANGED mem
  BY <1>10 DEF Operation, CreateLane, MoveLane, PointLane, AppendEntry, StartOperation,
     FinishOperation, SetName, SetLabel, Begin
<1>11. CASE UNCHANGED vars BY <1>3, <1>11 DEF vars
<1> QED BY <1>3, <1>4, <1>5, <1>6, <1>7, <1>8, <1>9, <1>10, <1>11 DEF Next

LEMMA MemoryInvariant == Spec => [](TypeOK /\ MemoryReplays)
<1>1. Init => TypeOK /\ MemoryReplays BY InitTypes, EmptyReplays DEF Init, MemoryReplays
<1>2. TypeOK /\ MemoryReplays /\ [Next]_vars => (TypeOK /\ MemoryReplays)'
  BY NextTypes, NextReplays
<1> QED BY <1>1, <1>2, PTL DEF Spec

\* Every fork of the session that any storage holds is faithful (ForksAreFaithful):
\* it replays, and has the lanes, the branches, the name and the labels it should.
THEOREM ForksKeepTheirBranches == Spec => []ForksAreFaithful
<1>1. TypeOK /\ MemoryReplays => ForksAreFaithful
  <2> SUFFICES ASSUME TypeOK, MemoryReplays, NEW h \in Handle, NEW options \in ForkOptions,
                      ForkAllowed(mem[h], options)
               PROVE  ForkIsFaithful(mem[h], options)
    BY DEF ForksAreFaithful
  <2>1. mem[h] \in Seq(Mutation) /\ Replays(mem[h]) BY DEF TypeOK, MemoryReplays
  <2> QED BY <2>1, ForkIsGood
<1> QED BY <1>1, MemoryInvariant, PTL
=============================================================================
