---------------------- MODULE EndpointEnumeratorProofs ----------------------
(***************************************************************************)
(* For every set of devices, of which any may vanish at any call: what is  *)
(* printed follows the collection and is all of it unless the enumeration  *)
(* or the output has failed, no entry mixes two devices, and what is       *)
(* acquired is released before CoUninitialize, but for a name whose copy   *)
(* throws.                                                                 *)
(***************************************************************************)
EXTENDS EndpointEnumerator, FiniteSetTheorems, SequenceTheorems, TLAPS

-----------------------------------------------------------------------------
(* The inductive invariant. *)

\* The calls between Item and the end of the loop's scope.
Body == {"GetId", "OpenPropertyStore", "GetValue", "CopyName", "Activate",
         "GetMixFormat", "push_back"}

\* Entry e tells of device d alone.
EntryOf(e, d) ==
  /\ e.device_id = d /\ e.format = d /\ e.friendly_name \in {d, None}
  /\ e.channel_mask = IF d \in Extensible THEN d ELSE None

\* The entries are those of the first devices of the collection, in order.
EntriesInOrder ==
  /\ devices \in Seq(Devices) /\ endpoints \in Seq(Entry)
  /\ Len(endpoints) <= Len(devices)
  /\ \A i \in 1..Len(endpoints) : EntryOf(endpoints[i], devices[i])

\* What has been read of the current device so far.
EntryInProgress ==
  /\ endpoint \in Entry
  /\ call \in Body => Len(endpoints) < Len(devices)
  /\ call \in {"GetValue", "CopyName", "Activate", "GetMixFormat"} =>
       /\ endpoint.device_id = Current /\ endpoint.format = None
       /\ endpoint.friendly_name \in {Current, None}
       /\ endpoint.channel_mask = None
  /\ call = "push_back" => EntryOf(endpoint, Current)

\* What is owned, by how far the calls have come: nothing outlives the
\* enumeration but the name that it failed to copy.
HeldByCall ==
  /\ held \subseteq Resources
  /\ main = "start" \/ call = "CoCreateInstance" => held = {}
  /\ call = "EnumAudioEndpoints" => held = {"enumerator"}
  /\ call = "Item" => held = {"enumerator", "collection"}
  /\ main # "enumerating" =>
       held \subseteq {"name"} /\ ("name" \in held => result = "failed")

\* What has been printed is a beginning of the list, once it is complete.
PrintedSoFar ==
  /\ wcout \in {"good", "failed"}
  /\ printed \in Seq(Entry) /\ Len(printed) <= Len(endpoints)
  /\ \A i \in 1..Len(printed) : printed[i] = endpoints[i]
  /\ result = "failed" \/ main \notin {"uninitialized", "done"} => printed = <<>>
  /\ main = "done" /\ result = "ok" /\ wcout = "good" =>
       Len(printed) = Len(endpoints)

\* What the program knows, by how far it has come.
Progress ==
  /\ main \in {"start", "enumerating", "returned", "uninitialized", "done"}
  /\ com \in BOOLEAN /\ result \in {"ok", "failed"}
  /\ call \in {"none", "CoCreateInstance", "EnumAudioEndpoints", "Item"} \cup Body
  /\ main = "enumerating" <=> call # "none"
  /\ main \in {"enumerating", "returned"} => com
  /\ main = "start" => devices = <<>>
  /\ call \in {"CoCreateInstance", "EnumAudioEndpoints"} => endpoints = <<>>
  /\ main \in {"returned", "uninitialized", "done"} /\ result = "ok" =>
       Len(endpoints) = Len(devices)

\* What every step preserves.
IInv == EntriesInOrder /\ EntryInProgress /\ HeldByCall /\ PrintedSoFar /\ Progress
\* The invariant holds before anything has happened.
LEMMA InitEstablishes == Init => IInv
  <1> SUFFICES ASSUME Init
               PROVE  IInv
    OBVIOUS
  <1>1. EntriesInOrder
    BY DEF Init, EntriesInOrder
  <1>2. EntryInProgress
    BY DEF Init, EntryInProgress, Blank, Entry, OrNone, Body
  <1>3. HeldByCall /\ Progress
    BY DEF Init, HeldByCall, Progress
  <1>4. PrintedSoFar
    BY DEF Init, PrintedSoFar
  <1> QED BY <1>1, <1>2, <1>3, <1>4 DEF IInv

\* Leaving the enumeration, with a complete list or with a failure, ends
\* every scope.
LEMMA LeavePreserves ==
  ASSUME IInv, main = "enumerating", NEW hresult \in {"ok", "failed"},
         Leave(hresult),
         hresult = "ok" => Len(endpoints) = Len(devices) /\ call = "Item"
  PROVE  IInv'
  <1>1. EntriesInOrder'
    BY DEF IInv, Leave, EntriesInOrder
  <1>2. EntryInProgress'
    BY DEF Leave, EntryInProgress, Blank, Entry, OrNone, Body
  <1>3. HeldByCall'
    BY DEF IInv, Leave, HeldByCall
  <1>4. PrintedSoFar'
    BY DEF IInv, Leave, PrintedSoFar
  <1>5. Progress'
    BY DEF IInv, Leave, Progress, Body
  <1> QED BY <1>1, <1>2, <1>3, <1>4, <1>5 DEF IInv

\* A call that succeeds, other than the one that makes the collection, keeps
\* the list; the rest is up to what the call adds to the entry.
LEMMA SucceedsPreserves ==
  ASSUME IInv, NEW this, NEW next \in Body \cup {"EnumAudioEndpoints"},
         NEW acquired, NEW released,
         this \in Body \cup {"CoCreateInstance", "Item"},
         Succeeds(this, next, acquired, released), devices' = devices,
         EntryInProgress', HeldByCall',
         next = "EnumAudioEndpoints" => endpoints = <<>>
  PROVE  IInv'
  <1>1. EntriesInOrder'
    BY DEF IInv, Succeeds, EntriesInOrder
  <1>2. Progress' /\ PrintedSoFar'
    BY DEF IInv, Succeeds, Progress, PrintedSoFar, mainVars, Body
  <1> QED BY <1>1, <1>2 DEF IInv

\* The calls before the loop.
LEMMA CollectionPreserves ==
  ASSUME IInv, CoCreateInstance \/ EnumAudioEndpoints
  PROVE  IInv'
  <1>1. CASE CoCreateInstance
    <2>1. EntryInProgress'
      BY <1>1 DEF IInv, CoCreateInstance, Succeeds, EntryInProgress, Body
    <2>2. HeldByCall'
      BY <1>1 DEF IInv, CoCreateInstance, Succeeds, HeldByCall, Resources, mainVars
    <2>3. endpoints = <<>>
      BY <1>1 DEF IInv, CoCreateInstance, Succeeds, Progress
    <2> QED BY <1>1, <2>1, <2>2, <2>3, SucceedsPreserves DEF CoCreateInstance
  <1>2. CASE EnumAudioEndpoints
    <2>1. endpoints = <<>> /\ endpoints' = <<>> /\ call' = "Item"
          /\ endpoint' = endpoint
      BY <1>2 DEF IInv, EnumAudioEndpoints, Succeeds, Progress
    <2>2. devices' \in Seq(Devices)
      <3>1. PICK n \in 0..Cardinality(Devices) : devices' \in [1..n -> Devices]
        BY <1>2 DEF EnumAudioEndpoints
      <3>2. n \in Nat
        BY <3>1, DevicesAssumption, FS_CardinalityType
      <3> QED BY <3>1, <3>2
    <2>3. EntriesInOrder'
      BY <2>1, <2>2 DEF EntriesInOrder
    <2>4. EntryInProgress'
      BY <2>1 DEF IInv, EntryInProgress, Body
    <2>5. HeldByCall'
      BY <1>2 DEF IInv, EnumAudioEndpoints, Succeeds, HeldByCall, Resources, mainVars
    <2>6. Progress' /\ PrintedSoFar'
      BY <1>2, <2>1 DEF IInv, EnumAudioEndpoints, Succeeds, Progress, PrintedSoFar,
                        mainVars, Body
    <2> QED BY <2>3, <2>4, <2>5, <2>6 DEF IInv
  <1> QED BY <1>1, <1>2

\* The calls for one device.
LEMMA BodyPreserves ==
  ASSUME IInv,
         \/ Item \/ GetId \/ OpenPropertyStore \/ ReadFriendlyName
         \/ Activate \/ ReadMixFormat
  PROVE  IInv'
  <1> USE DEF Body
  <1>0. EntriesInOrder /\ EntryInProgress /\ HeldByCall
    BY DEF IInv
  <1>1. CASE Item
    <2>1. EntryInProgress'
      <3>1. Len(endpoints) < Len(devices)
        BY <1>0, <1>1 DEF Item, Succeeds, Done, EntriesInOrder
      <3> QED BY <1>0, <1>1, <3>1 DEF Item, Succeeds, EntryInProgress
    <2>2. HeldByCall'
      BY <1>0, <1>1 DEF Item, Succeeds, HeldByCall, Resources, mainVars
    <2> QED BY <1>1, <2>1, <2>2, SucceedsPreserves DEF Item
  <1>2. CASE GetId
    <2>1. EntryInProgress' /\ HeldByCall'
      BY <1>0, <1>2 DEF GetId, Succeeds, EntryInProgress, HeldByCall, Resources,
                        mainVars
    <2> QED BY <1>2, <2>1, SucceedsPreserves DEF GetId
  <1>3. CASE OpenPropertyStore
    <2>1. Current' = Current /\ Current \in Devices
      BY <1>0, <1>3 DEF OpenPropertyStore, Succeeds, Current, EntryInProgress,
                        EntriesInOrder
    <2>2. EntryInProgress'
      BY <1>0, <1>3, <2>1 DEF OpenPropertyStore, Succeeds, EntryInProgress,
                              Fresh, Blank, Entry, OrNone
    <2>3. HeldByCall'
      BY <1>0, <1>3 DEF OpenPropertyStore, Succeeds, HeldByCall, Resources, mainVars
    <2> QED BY <1>3, <2>2, <2>3, SucceedsPreserves DEF OpenPropertyStore
  <1>4. CASE ReadFriendlyName
    <2>1. CASE GetValue
      <3>1. PICK value \in {{}, {"name"}} : Succeeds("GetValue", "CopyName", value, {})
        BY <2>1 DEF GetValue
      <3>2. EntryInProgress' /\ HeldByCall' /\ devices' = devices
        BY <1>0, <2>1, <3>1 DEF GetValue, Succeeds, Current, EntryInProgress,
                                HeldByCall, Resources, mainVars
      <3> QED BY <3>1, <3>2, SucceedsPreserves
    <2>2. CASE CopyName
      <3>1. Current' = Current /\ Current \in Devices
        BY <1>0, <2>2 DEF CopyName, Succeeds, Current, EntryInProgress,
                          EntriesInOrder
      <3>2. EntryInProgress'
        BY <1>0, <2>2, <3>1 DEF CopyName, Succeeds, EntryInProgress, Entry, OrNone
      <3>3. HeldByCall'
        BY <1>0, <2>2 DEF CopyName, Succeeds, HeldByCall, Resources, mainVars
      <3> DEFINE name == {"name"}
      <3>4. Succeeds("CopyName", "Activate", {}, name) /\ devices' = devices
        BY <2>2 DEF CopyName
      <3> HIDE DEF name
      <3> QED BY <3>2, <3>3, <3>4, SucceedsPreserves
    <2> QED BY <1>4, <2>1, <2>2 DEF ReadFriendlyName
  <1>5. CASE Activate
    <2>1. Current' = Current
      BY <1>5 DEF Activate, Succeeds, Current
    <2>2. EntryInProgress' /\ HeldByCall'
      BY <1>0, <1>5, <2>1 DEF Activate, Succeeds, EntryInProgress, HeldByCall,
                              Resources, mainVars
    <2> QED BY <1>5, <2>2, SucceedsPreserves DEF Activate
  <1>6. CASE ReadMixFormat
    <2>1. Current' = Current /\ Current \in Devices
      BY <1>0, <1>6 DEF ReadMixFormat, Succeeds, Current, EntryInProgress,
                        EntriesInOrder
    <2>2. EntryInProgress'
      BY <1>0, <1>6, <2>1 DEF ReadMixFormat, Succeeds, EntryInProgress, Entry,
                              OrNone, EntryOf
    <2>3. HeldByCall'
      BY <1>0, <1>6 DEF ReadMixFormat, Succeeds, HeldByCall, Resources, mainVars
    <2> DEFINE client == {"client"}
    <2>4. /\ Succeeds("GetMixFormat", "push_back", {}, client)
          /\ devices' = devices
      BY <1>6 DEF ReadMixFormat
    <2> HIDE DEF client
    <2> QED BY <2>2, <2>3, <2>4, SucceedsPreserves
  <1> QED BY <1>1, <1>2, <1>3, <1>4, <1>5, <1>6

\* Appending the entry of the current device keeps the list in order.
LEMMA PushBackPreserves ==
  ASSUME IInv, PushBack
  PROVE  IInv'
  <1>1. /\ endpoint \in Entry /\ EntryOf(endpoint, Current)
        /\ Len(endpoints) < Len(devices)
        /\ devices \in Seq(Devices) /\ endpoints \in Seq(Entry)
        /\ endpoints' = Append(endpoints, endpoint) /\ devices' = devices
    BY DEF IInv, PushBack, EntriesInOrder, EntryInProgress, Body
  <1>2. EntriesInOrder'
    <2>1. /\ endpoints' \in Seq(Entry) /\ Len(endpoints') = Len(endpoints) + 1
          /\ \A i \in 1..Len(endpoints) : endpoints'[i] = endpoints[i]
          /\ endpoints'[Len(endpoints) + 1] = endpoint
      BY <1>1, AppendProperties
    <2>2. ASSUME NEW i \in 1..Len(endpoints')
          PROVE  EntryOf(endpoints'[i], devices[i])
      <3>1. CASE i = Len(endpoints) + 1
        BY <1>1, <2>1, <3>1 DEF Current
      <3>2. CASE i \in 1..Len(endpoints)
        BY <2>1, <3>2 DEF IInv, EntriesInOrder
      <3> QED BY <1>1, <2>1, <3>1, <3>2
    <2> QED BY <1>1, <2>1, <2>2 DEF EntriesInOrder
  <1>3. EntryInProgress'
    BY DEF PushBack, EntryInProgress, Blank, Entry, OrNone, Body
  <1>4. HeldByCall' /\ Progress'
    BY DEF IInv, PushBack, HeldByCall, Resources, Progress, mainVars, Body
  <1>5. PrintedSoFar'
    <2>1. printed = <<>> /\ UNCHANGED <<printed, wcout, main, result>>
          /\ main = "enumerating"
      BY DEF IInv, PushBack, PrintedSoFar, mainVars
    <2>2. Len(endpoints') = Len(endpoints) + 1 /\ Len(endpoints) \in Nat
      BY <1>1, AppendProperties
    <2> QED BY <2>1, <2>2 DEF IInv, PrintedSoFar
  <1> QED BY <1>2, <1>3, <1>4, <1>5 DEF IInv

\* The program around the enumeration.
LEMMA MainPreserves ==
  ASSUME IInv, CoInitializeEx \/ CoUninitialize \/ PrintEndpoint \/ Return
  PROVE  IInv'
  <1>1. EntriesInOrder'
    <2>1. CASE CoInitializeEx
      <3>1. endpoints' = <<>> /\ devices' = devices /\ devices \in Seq(Devices)
        BY <2>1 DEF IInv, EntriesInOrder, CoInitializeEx
      <3> QED BY <3>1 DEF EntriesInOrder
    <2>2. CASE CoUninitialize \/ PrintEndpoint \/ Return
      BY <2>2 DEF IInv, EntriesInOrder, CoUninitialize, PrintEndpoint, Return
    <2> QED BY <2>1, <2>2
  <1>2. EntryInProgress'
    BY DEF IInv, EntryInProgress, Progress, Body, Current, CoInitializeEx,
           CoUninitialize, PrintEndpoint, Return
  <1>3. HeldByCall'
    BY DEF IInv, HeldByCall, Progress, Body, CoInitializeEx, CoUninitialize,
           PrintEndpoint, Return
  <1>4. Progress'
    BY DEF IInv, Progress, Body, CoInitializeEx, CoUninitialize, PrintEndpoint,
           Return
  <1>5. PrintedSoFar'
    <2>1. CASE CoInitializeEx
      <3>1. /\ printed = <<>> /\ printed' = <<>> /\ endpoints' = <<>>
            /\ wcout' \in {"good", "failed"}
        BY <2>1 DEF IInv, PrintedSoFar, CoInitializeEx
      <3> QED BY <3>1 DEF PrintedSoFar
    <2>2. CASE CoUninitialize
      BY <2>2 DEF IInv, PrintedSoFar, CoUninitialize
    <2>3. CASE Return
      BY <2>3 DEF IInv, PrintedSoFar, Progress, Return
    <2>4. CASE PrintEndpoint
      <3>1. CASE UNCHANGED printed
        BY <2>4, <3>1 DEF IInv, PrintedSoFar, PrintEndpoint
      <3>2. CASE printed' = Append(printed, endpoints[Len(printed) + 1])
        <4> DEFINE n == Len(printed)
                   e == endpoints[n + 1]
        <4>1. /\ endpoints \in Seq(Entry) /\ printed \in Seq(Entry) /\ n \in Nat
              /\ n < Len(endpoints) /\ \A i \in 1..n : printed[i] = endpoints[i]
          BY <2>4 DEF IInv, EntriesInOrder, PrintedSoFar, PrintEndpoint
        <4>2. e \in Entry
          BY <4>1
        <4> HIDE DEF e
        <4>3. /\ printed' \in Seq(Entry) /\ Len(printed') = n + 1
              /\ printed'[n + 1] = e /\ \A i \in 1..n : printed'[i] = printed[i]
          BY <3>2, <4>1, <4>2, AppendProperties DEF e
        <4> HIDE DEF n
        <4>4. \A i \in 1..n + 1 : i \in 1..n \/ i = n + 1
          BY <4>1
        <4>5. \A i \in 1..n + 1 : printed'[i] = endpoints[i]
          BY <4>1, <4>3, <4>4 DEF e
        <4>6. n + 1 <= Len(endpoints)
          BY <4>1
        <4>7. /\ main' = "uninitialized" /\ result' = "ok" /\ endpoints' = endpoints
              /\ wcout' \in {"good", "failed"}
          BY <2>4 DEF PrintEndpoint
        <4> QED BY <4>3, <4>5, <4>6, <4>7 DEF PrintedSoFar
      <3> QED BY <2>4, <3>1, <3>2 DEF PrintEndpoint
    <2> QED BY <2>1, <2>2, <2>3, <2>4
  <1> QED BY <1>1, <1>2, <1>3, <1>4, <1>5 DEF IInv

\* Every reachable state satisfies the inductive invariant.
THEOREM Invariance == Spec => []IInv
  <1>1. Init => IInv
    BY InitEstablishes
  <1>2. IInv /\ [Next]_vars => IInv'
    <2> SUFFICES ASSUME IInv, [Next]_vars
                 PROVE  IInv'
      OBVIOUS
    <2>1. CASE LeaveLoop
      BY <2>1, LeavePreserves DEF LeaveLoop, Done
    <2>2. CASE Fails
      BY <2>2, LeavePreserves DEF Fails, MayFail
    <2>3. CASE UNCHANGED vars
      BY <2>3 DEF vars, mainVars, IInv, EntriesInOrder, EntryInProgress,
                  HeldByCall, PrintedSoFar, Progress, Current
    <2> QED BY <2>1, <2>2, <2>3, CollectionPreserves, BodyPreserves,
               PushBackPreserves, MainPreserves
            DEF Next, EnumerateActiveRenderEndpoints
  <1> QED BY <1>1, <1>2, PTL DEF Spec

-----------------------------------------------------------------------------
(* What follows. *)

\* Every variable keeps its type, and every entry of the list, and of what is
\* printed, has the identifier of a device.
THEOREM TypeCorrect == Spec => []TypeOK
  <1>1. IInv => TypeOK
    <2> SUFFICES ASSUME IInv
                 PROVE  TypeOK
      OBVIOUS
    <2>1. /\ endpoints \in Seq(Entry) /\ printed \in Seq(Entry)
          /\ Len(printed) <= Len(endpoints)
          /\ \A i \in 1..Len(printed) : printed[i] = endpoints[i]
      BY DEF IInv, EntriesInOrder, PrintedSoFar
    <2>2. ASSUME NEW i \in DOMAIN endpoints
          PROVE  endpoints[i].device_id \in Devices
      BY <2>2 DEF IInv, EntriesInOrder, EntryOf
    <2>3. ASSUME NEW i \in DOMAIN printed
          PROVE  printed[i].device_id \in Devices
      <3>1. i \in DOMAIN endpoints /\ printed[i] = endpoints[i]
        BY <2>1
      <3> QED BY <2>2, <3>1
    <2>4. call \in Calls /\ held \subseteq Resources /\ endpoint \in Entry
      BY DEF IInv, Progress, HeldByCall, EntryInProgress, Calls, Body
    <2> QED BY <2>1, <2>2, <2>3, <2>4
            DEF IInv, EntriesInOrder, PrintedSoFar, Progress, TypeOK
  <1> QED BY <1>1, Invariance, PTL

\* Whatever call fails and whenever a device vanishes or the output fails, what
\* is printed follows the collection, nothing of it after a failed
\* enumeration, and all of it in the end unless something failed.
THEOREM AlwaysPrintsCollection == Spec => []PrintsCollection
  <1>1. IInv => PrintsCollection
    <2> SUFFICES ASSUME IInv
                 PROVE  PrintsCollection
      OBVIOUS
    <2>1. /\ endpoints \in Seq(Entry) /\ printed \in Seq(Entry)
          /\ devices \in Seq(Devices)
          /\ Len(printed) <= Len(endpoints) /\ Len(endpoints) <= Len(devices)
          /\ \A i \in 1..Len(printed) : printed[i] = endpoints[i]
          /\ \A i \in 1..Len(endpoints) : endpoints[i].device_id = devices[i]
      BY DEF IInv, EntriesInOrder, PrintedSoFar, EntryOf
    <2>2. Len(printed) <= Len(devices)
      BY <2>1
    <2>3. \A i \in DOMAIN printed : printed[i].device_id = devices[i]
      BY <2>1
    <2>4. result = "failed" => printed = <<>>
      BY DEF IInv, PrintedSoFar
    <2>5. main = "done" /\ result = "ok" /\ wcout = "good" =>
            Len(printed) = Len(devices)
      BY DEF IInv, PrintedSoFar, Progress
    <2> QED BY <2>2, <2>3, <2>4, <2>5 DEF PrintsCollection
  <1> QED BY <1>1, Invariance, PTL

\* No entry mixes two devices, not even in the fields a device has nothing
\* for, for any order of the devices in the collection.
THEOREM EntriesNeverMix == Spec => []EntriesOfOneDevice
  <1>1. IInv => EntriesOfOneDevice
    BY DEF IInv, EntriesInOrder, EntryOf, EntriesOfOneDevice
  <1> QED BY <1>1, Invariance, PTL

\* On every path what was acquired is released while COM is initialised, but
\* for the name whose copy made the enumeration fail, and nothing is carried
\* from one device to the next.
THEOREM AlwaysReleasedInApartment == Spec => []ReleasedInApartment
  <1>1. IInv => ReleasedInApartment
    BY DEF IInv, HeldByCall, Progress, Body, ReleasedInApartment
  <1> QED BY <1>1, Invariance, PTL
=============================================================================
