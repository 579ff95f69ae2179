------------------------- MODULE EndpointEnumerator -------------------------
(***************************************************************************)
(* AudioEngine's EnumerateActiveRenderEndpoints and the program around it: *)
(* one COM call after the other for each device of a collection.  Every    *)
(* call may fail, as it does when its device has vanished, and every       *)
(* allocation may; either leaves the function, and with it the scope of    *)
(* what has been acquired, if it has one.                                  *)
(*                                                                         *)
(* What is read of a device (its name, its mix format, the channel mask of *)
(* an extensible format) is the device itself here.                        *)
(***************************************************************************)
EXTENDS Integers, Sequences, FiniteSets

CONSTANTS
  Devices,     \* the active render devices
  Extensible,  \* those whose mix format is a WAVEFORMATEXTENSIBLE
  None         \* the value of a field that was not read

ASSUME DevicesAssumption ==
  IsFiniteSet(Devices) /\ Extensible \subseteq Devices /\ None \notin Devices

VARIABLES
  main,       \* wmain: "start", "enumerating", "returned", "uninitialized", "done"
  call,       \* the next COM call of the enumeration
  com,        \* CoInitializeEx without CoUninitialize
  held,       \* the COM objects and allocations the enumeration owns
  devices,    \* the IMMDeviceCollection (history once it is released)
  endpoint,   \* the entry being filled
  endpoints,  \* the vector that is returned
  result,     \* the HRESULT: "ok" or "failed"
  printed,    \* the entries the program has printed whole
  wcout       \* the output stream: "good", or "failed" from then on

mainVars == <<main, com, printed, wcout>>
vars == <<mainVars, call, held, devices, endpoint, endpoints, result>>

\* RenderEndpointInfo endpoint{}
Blank == [device_id |-> None, friendly_name |-> None, format |-> None,
          channel_mask |-> None]

Init ==
  /\ main = "start" /\ com = FALSE /\ printed = <<>> /\ wcout = "good"
  /\ call = "none" /\ held = {} /\ devices = <<>> /\ endpoint = Blank
  /\ endpoints = <<>> /\ result = "ok"

-----------------------------------------------------------------------------
(* EnumerateActiveRenderEndpoints *)

\* Faulty variant: the string GetId allocates is a raw pointer too.
Leave_Leaks(hresult) ==
  /\ result' = hresult
  /\ main' = "returned" /\ call' = "none"
  /\ held' = held \cap {"id", "name"} /\ endpoint' = Blank
  /\ UNCHANGED <<com, printed, wcout, devices, endpoints>>

\* Every return, and every exception that is caught, ends all scopes.  The
\* PROPVARIANT with a name is the one thing that no scope releases.
Leave(hresult) ==
  /\ result' = hresult
  /\ main' = "returned" /\ call' = "none"
  /\ held' = held \cap {"name"} /\ endpoint' = Blank
  /\ UNCHANGED <<com, printed, wcout, devices, endpoints>>

\* The loop ends at the count, before the next Item.
Done == call = "Item" /\ Len(endpoints) = Len(devices)
LeaveLoop == main = "enumerating" /\ Done /\ Leave("ok")

\* Every call may fail but the one for the name, and so may every allocation:
\* the copy of a name there is, but not push_back, for which the memory is
\* reserved.
MayFail ==
  /\ main = "enumerating" /\ ~Done /\ call # "push_back"
  /\ call = "CopyName" => "name" \in held

\* Faulty variant: the failure is lost on the way out.
Fails_Unreported == MayFail /\ Leave("ok")
Fails == MayFail /\ Leave("failed")

Succeeds(this, next, acquired, released) ==
  /\ main = "enumerating" /\ call = this
  /\ call' = next
  /\ held' = (held \cup acquired) \ released
  /\ UNCHANGED <<mainVars, endpoints, result>>

CoCreateInstance ==
  /\ Succeeds("CoCreateInstance", "EnumAudioEndpoints", {"enumerator"}, {})
  /\ UNCHANGED <<devices, endpoint>>

\* A snapshot of the active devices, each of them once, and its GetCount.
EnumAudioEndpoints ==
  /\ Succeeds("EnumAudioEndpoints", "Item", {"collection"}, {})
  /\ devices' \in UNION {{s \in [1..n -> Devices] :
                            \A i, j \in 1..n : s[i] = s[j] => i = j} :
                         n \in 0..Cardinality(Devices)}
  /\ UNCHANGED endpoint

Current == devices[Len(endpoints) + 1]

\* Faulty variant: the entry is declared outside of the loop.
Fresh_Reused == IF endpoints = <<>> THEN Blank ELSE endpoints[Len(endpoints)]
Fresh == Blank

Item ==
  /\ ~Done
  /\ Succeeds("Item", "GetId", {"device"}, {})
  /\ UNCHANGED <<devices, endpoint>>

GetId ==
  /\ Succeeds("GetId", "OpenPropertyStore", {"id"}, {})
  /\ UNCHANGED <<devices, endpoint>>

\* Faulty variant: the identifier is not stored.
OpenPropertyStore_NoId ==
  /\ Succeeds("OpenPropertyStore", "GetValue", {"store"}, {})
  /\ endpoint' = Fresh
  /\ UNCHANGED devices

OpenPropertyStore ==
  /\ Succeeds("OpenPropertyStore", "GetValue", {"store"}, {})
  /\ endpoint' = [Fresh EXCEPT !.device_id = Current]
  /\ UNCHANGED devices

\* ReadFriendlyName: GetValue may fail without failing the function, or give a
\* value, which is cleared once it has been copied; a name that cannot be read
\* stays empty.
GetValue ==
  /\ \E value \in {{}, {"name"}} : Succeeds("GetValue", "CopyName", value, {})
  /\ UNCHANGED <<devices, endpoint>>

CopyName ==
  /\ Succeeds("CopyName", "Activate", {}, {"name"})
  /\ \/ "name" \in held /\ endpoint' = [endpoint EXCEPT !.friendly_name = Current]
     \/ UNCHANGED endpoint
  /\ UNCHANGED devices

ReadFriendlyName == GetValue \/ CopyName

Activate ==
  /\ Succeeds("Activate", "GetMixFormat", {"client"}, {})
  /\ UNCHANGED <<devices, endpoint>>

ReadMixFormat ==
  /\ Succeeds("GetMixFormat", "push_back", {}, {"client"})
  /\ endpoint' = [endpoint EXCEPT
                    !.format = Current,
                    !.channel_mask = IF Current \in Extensible THEN Current ELSE @]
  /\ UNCHANGED devices

\* The end of the loop's scope.
PushBack ==
  /\ main = "enumerating" /\ call = "push_back"
  /\ endpoints' = Append(endpoints, endpoint)
  /\ call' = "Item"
  /\ held' = {"enumerator", "collection"}
  /\ endpoint' = Blank
  /\ UNCHANGED <<mainVars, devices, result>>

EnumerateActiveRenderEndpoints ==
  \/ CoCreateInstance \/ EnumAudioEndpoints \/ Item \/ GetId
  \/ OpenPropertyStore \/ ReadFriendlyName \/ Activate \/ ReadMixFormat
  \/ PushBack \/ LeaveLoop \/ Fails

-----------------------------------------------------------------------------
(* wmain *)

CoInitializeEx ==
  /\ main = "start"
  /\ \/ main' = "done" /\ UNCHANGED <<com, call>>
     \/ main' = "enumerating" /\ com' = TRUE /\ call' = "CoCreateInstance"
  /\ endpoints' = <<>>
  /\ UNCHANGED <<printed, wcout, held, devices, endpoint, result>>

CoUninitialize ==
  /\ main = "returned"
  /\ main' = "uninitialized" /\ com' = FALSE
  /\ UNCHANGED <<printed, wcout, call, held, devices, endpoint, endpoints, result>>

\* One turn of the loop over the endpoints.  wcout may fail at any entry, of
\* which a part may have been printed; it then fails for all that follow.
PrintEndpoint ==
  /\ main = "uninitialized" /\ result = "ok"
  /\ wcout = "good" /\ Len(printed) < Len(endpoints)
  /\ \/ printed' = Append(printed, endpoints[Len(printed) + 1]) /\ UNCHANGED wcout
     \/ wcout' = "failed" /\ UNCHANGED printed
  /\ UNCHANGED <<main, com, call, held, devices, endpoint, endpoints, result>>

\* Nobody looks at wcout: the exit code is 0 unless the enumeration failed.
Return ==
  /\ main = "uninitialized"
  /\ result = "ok" /\ wcout = "good" => Len(printed) = Len(endpoints)
  /\ main' = "done"
  /\ UNCHANGED <<com, printed, wcout, call, held, devices, endpoint, endpoints,
                 result>>

Next ==
  \/ EnumerateActiveRenderEndpoints
  \/ CoInitializeEx \/ CoUninitialize \/ PrintEndpoint \/ Return

Spec == Init /\ [][Next]_vars

-----------------------------------------------------------------------------
OrNone == Devices \cup {None}
Entry == [device_id : OrNone, friendly_name : OrNone, format : OrNone,
          channel_mask : OrNone]
Calls == {"none", "CoCreateInstance", "EnumAudioEndpoints", "Item", "GetId",
          "OpenPropertyStore", "GetValue", "CopyName", "Activate",
          "GetMixFormat", "push_back"}
Resources == {"enumerator", "collection", "device", "id", "store", "name",
              "client"}

\* Every variable keeps its type, and an entry of the list has its device.
TypeOK ==
  /\ main \in {"start", "enumerating", "returned", "uninitialized", "done"}
  /\ com \in BOOLEAN /\ result \in {"ok", "failed"} /\ wcout \in {"good", "failed"}
  /\ call \in Calls /\ held \subseteq Resources /\ endpoint \in Entry
  /\ devices \in Seq(Devices) /\ Len(endpoints) <= Len(devices)
  /\ \A list \in {endpoints, printed} :
       list \in Seq(Entry) /\ \A i \in DOMAIN list : list[i].device_id \in Devices

\* A device that vanishes half way leaves a list that is not complete, of
\* which nothing is ever printed.  What is printed follows the collection from
\* its first device on, and in the end, unless the enumeration or the output
\* stream has failed, it is all of them.
PrintsCollection ==
  /\ result = "failed" => printed = <<>>
  /\ Len(printed) <= Len(devices)
  /\ \A i \in DOMAIN printed : printed[i].device_id = devices[i]
  /\ main = "done" /\ result = "ok" /\ wcout = "good" => Len(printed) = Len(devices)

\* An entry never mixes two devices, not even where a call gave nothing for
\* a field (a name that cannot be read, a format without a mask) and the
\* device before it had one.
EntriesOfOneDevice ==
  \A i \in DOMAIN endpoints :
    LET e == endpoints[i]
    IN /\ e.format = e.device_id
       /\ e.friendly_name \in {e.device_id, None}
       /\ e.channel_mask = IF e.device_id \in Extensible THEN e.device_id ELSE None

\* On every path, failures included, what was acquired is released before
\* CoUninitialize, and nothing piles up from one device to the next.  One thing
\* is not: a name whose copy throws; the enumeration that loses it has failed.
ReleasedInApartment ==
  /\ held \ {"name"} # {} => com /\ main = "enumerating"
  /\ "name" \in held /\ main # "enumerating" => result = "failed"
  /\ call = "Item" => held = {"enumerator", "collection"}
============================================================================
