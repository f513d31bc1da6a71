----------------------------- MODULE PartsProofs -----------------------------
(***************************************************************************)
(* Proofs about the self-contained parts, those of the run "parts": what   *)
(* the desktop keeps or chooses while something else changes under it (the *)
(* session size in the footer, SessionDisk.tla; the saved setup,           *)
(* Settings.tla; receivers by identity, DeviceIdentity.tla; the export of a*)
(* survey, SurveyExport.tla), the two parts behind the detectors (the      *)
(* association of fits from overlapping subbands, DiscoveryObservations,   *)
(* and the automatic decoder of a subband, DiscoveryDecoder), the event    *)
(* tracks of the spectrum processor (SpectrumEvents), their bursts         *)
(* (BurstGrouper), and the desktop around the engine (Desktop.tla, run     *)
(* "desktop").                                                             *)
(***************************************************************************)
EXTENDS SessionDisk, Settings, DeviceIdentity, SurveyExport, DiscoveryObservations,
        DiscoveryDecoder, SpectrumEvents, BurstGrouper, Desktop, FifoLemmas, SequenceTheorems,
        FiniteSetTheorems, TLAPS

-----------------------------------------------------------------------------
(* The session size.                                                       *)

\* A task under way knows its path, and what it has read is of that path.
TaskType == [path : Paths \cup {NoPath}, done : BOOLEAN, read : Paths \cup {NoPath}]
DiskInv ==
  /\ session \in Paths \cup {NoPath}
  /\ pending # NoPath => pending \in TaskType /\ pending.read \in {NoPath, pending.path}
  /\ SizeIsOfItsSession

LEMMA DiskStep == DiskInv /\ [DiskNext]_dvars => DiskInv'
  <1> SUFFICES ASSUME DiskInv, [DiskNext]_dvars PROVE DiskInv'
    OBVIOUS
  <1> USE DEF DiskInv, SizeIsOfItsSession
  <1>1. CASE TaskReads
    <2>1. PICK ok \in BOOLEAN : pending' = [pending EXCEPT !.done = TRUE,
                                  !.read = IF ok THEN pending.path ELSE NoPath]
      BY <1>1 DEF TaskReads
    <2> DEFINE r == IF ok THEN pending.path ELSE NoPath
    <2>2. pending \in TaskType /\ UNCHANGED <<session, display, value>>
      BY <1>1 DEF TaskReads
    <2>3. r \in {NoPath, pending.path} /\ r \in Paths \cup {NoPath}
      BY <2>2 DEF TaskType
    <2>4. pending' = [pending EXCEPT !.done = TRUE, !.read = r]
      BY <2>1
    <2> HIDE DEF r
    <2>5. pending' \in TaskType /\ pending'.read = r /\ pending'.path = pending.path
      BY <2>2, <2>3, <2>4 DEF TaskType
    <2> QED BY <2>2, <2>3, <2>5
  <1>2. CASE SwitchSession
    BY <1>2 DEF SwitchSession
  <1>3. CASE Tick
    BY <1>3 DEF Tick
  <1>4. CASE DiskPoll
    <2>1. session' = session /\ display' = session
      BY <1>4 DEF DiskPoll
    <2>2. \/ pending' = [path |-> session, done |-> FALSE, read |-> NoPath]
          \/ pending' = NoPath \/ pending' = pending
      BY <1>4 DEF DiskPoll
    <2> DEFINE begun == [path |-> session, done |-> FALSE, read |-> NoPath]
    <2>a. begun \in TaskType /\ begun.read = NoPath
      <3>1. session \in Paths \cup {NoPath} /\ NoPath \in Paths \cup {NoPath} /\ FALSE \in BOOLEAN
        OBVIOUS
      <3> QED BY <3>1 DEF TaskType
    <2> HIDE DEF begun
    <2>b. pending' = begun \/ pending' = NoPath \/ pending' = pending
      BY <2>2 DEF begun
    <2>3. pending' # NoPath => pending' \in TaskType /\ pending'.read \in {NoPath, pending'.path}
      BY <2>a, <2>b
    <2>4. \/ pending # NoPath /\ pending.path = session /\ value' = pending.read
          \/ session # display /\ value' = NoPath
          \/ session = display /\ value' = value
      BY <1>4 DEF DiskPoll, Accepts
    <2>5. value' \in {NoPath, display'}
      BY <2>1, <2>4
    <2> QED BY <2>1, <2>3, <2>5
  <1>5. CASE UNCHANGED dvars
    BY <1>5 DEF dvars
  <1> QED BY <1>1, <1>2, <1>3, <1>4, <1>5 DEF DiskNext

\* The size in the footer belongs to the session named beside it, whatever New or
\* Open did while a task was reading: poll drops the answer for another path.
THEOREM SizeShownIsRight == DiskSpec => []SizeIsOfItsSession
  <1>1. DiskInit => DiskInv
    BY DEF DiskInit, DiskInv, SizeIsOfItsSession
  <1>2. DiskInv => SizeIsOfItsSession
    BY DEF DiskInv
  <1> QED BY <1>1, <1>2, DiskStep, PTL DEF DiskSpec

-----------------------------------------------------------------------------
(* The saved setup.                                                        *)

Steps == {"idle", "check", "write", "recheck", "rename", "flush"}
SaveType == [step : Steps, synced : BOOLEAN, clean : BOOLEAN]
\* From the check on, the setup being saved is one that was tried; a file to be
\* renamed has been flushed; nothing is being saved while the program is down.
SettingsInv ==
  /\ save \in SaveType
  /\ save.step \in {"write", "recheck", "rename"} => File("new", cfg) \in tried
  /\ save.step \in {"recheck", "rename", "flush"} => save.synced
  /\ ~prefsReady.up => save.step = "idle"
  /\ SettingsSurvive

LEMMA NoSaveType == NoSave \in SaveType /\ NoSave.step = "idle"
  BY DEF NoSave, SaveType, Steps

\* A save that moves on keeps its other fields.
LEMMA GoToStep ==
  ASSUME save \in SaveType, NEW s \in Steps, GoTo(s)
  PROVE  /\ save' \in SaveType /\ save'.step = s
         /\ save'.synced = save.synced /\ save'.clean = save.clean
  BY DEF GoTo, SaveType

LEMMA BeginSave ==
  ASSUME NEW s, s = [NoSave EXCEPT !.step = "check"]
  PROVE  s \in SaveType /\ s.step = "check"
  BY DEF NoSave, SaveType, Steps

LEMMA SettingsStep == SettingsInv /\ [SettingsNext]_svars => SettingsInv'
  <1> SUFFICES ASSUME SettingsInv, [SettingsNext]_svars PROVE SettingsInv'
    OBVIOUS
  <1>0. /\ save \in SaveType /\ diskAfter \subseteq tried
        /\ save.step \in {"write", "recheck", "rename"} => File("new", cfg) \in tried
        /\ save.step \in {"recheck", "rename", "flush"} => save.synced
        /\ ~prefsReady.up => save.step = "idle"
        /\ save.step = "rename" /\ save.clean => Recognized(diskNow)
    BY DEF SettingsInv, SettingsSurvive
  <1>1. CASE Launch
    <2>1. save' = NoSave \/ save' = [NoSave EXCEPT !.step = "check"]
      BY <1>1 DEF Launch
    <2>2. save' \in SaveType /\ save'.step \in {"idle", "check"}
      BY <2>1, NoSaveType, BeginSave
    <2>3. prefsReady'.up /\ UNCHANGED <<diskAfter, tried>>
      BY <1>1 DEF Launch
    <2> QED BY <1>0, <2>2, <2>3 DEF SettingsInv, SettingsSurvive
  <1>2. ASSUME NEW c, Change(c) PROVE SettingsInv'
    <2>1. save' = save \/ save' = [NoSave EXCEPT !.step = "check"]
      BY <1>2 DEF Change
    <2>2. save' \in SaveType /\ save'.step \in {"idle", "check"}
      BY <1>0, <1>2, <2>1, BeginSave DEF Change
    <2>3. prefsReady'.up /\ UNCHANGED <<diskAfter, tried>>
      BY <1>2 DEF Change
    <2> QED BY <1>0, <2>2, <2>3 DEF SettingsInv, SettingsSurvive
  <1>3. CASE Check
    <2>1. save.step = "check" /\ UNCHANGED <<cfg, prefsReady, diskNow, diskAfter>>
      BY <1>3 DEF Check, At
    <2>2. CASE Valid(cfg) /\ Recognized(diskNow)
      <3>1. GoTo("write") /\ tried' = tried \cup {File("new", cfg)}
        BY <1>3, <2>2 DEF Check
      <3>2. save' \in SaveType /\ save'.step = "write"
        BY <1>0, <3>1, GoToStep DEF Steps
      <3> HIDE DEF File
      <3> QED BY <1>0, <2>1, <3>1, <3>2 DEF SettingsInv, SettingsSurvive
    <2>3. CASE ~ (Valid(cfg) /\ Recognized(diskNow))
      <3>1. save' = NoSave /\ tried' = tried
        BY <1>3, <2>3 DEF Check, Give
      <3> QED BY <1>0, <2>1, <3>1, NoSaveType DEF SettingsInv, SettingsSurvive
    <2> QED BY <2>2, <2>3
  <1>4. CASE Sync
    <2>1. save.step = "write" /\ UNCHANGED <<cfg, prefsReady, diskNow, diskAfter, tried>>
      BY <1>4 DEF Sync, At
    <2>2. CASE save' = NoSave
      BY <1>0, <2>1, <2>2, NoSaveType DEF SettingsInv, SettingsSurvive
    <2>3. CASE save' = [save EXCEPT !.step = "recheck", !.synced = TRUE]
      <3>1. save' \in SaveType /\ save'.step = "recheck" /\ save'.synced = TRUE
        BY <1>0, <2>3 DEF SaveType, Steps
      <3> QED BY <1>0, <2>1, <3>1 DEF SettingsInv, SettingsSurvive
    <2> QED BY <1>4, <2>2, <2>3 DEF Sync, Give
  <1>5. CASE Recheck
    <2>1. save.step = "recheck" /\ UNCHANGED <<cfg, prefsReady, diskNow, diskAfter, tried>>
      BY <1>5 DEF Recheck, At
    <2>2. CASE Recognized(diskNow)
      <3>1. save' \in SaveType /\ save'.step = "rename" /\ save'.synced = save.synced
        BY <1>0, <1>5, <2>2, GoToStep DEF Recheck, Steps
      <3>2. Recognized(diskNow)'
        BY <2>1, <2>2 DEF Recognized
      <3> QED BY <1>0, <2>1, <3>1, <3>2 DEF SettingsInv, SettingsSurvive
    <2>3. CASE ~Recognized(diskNow)
      <3>1. save' = NoSave
        BY <1>5, <2>3 DEF Recheck, Give
      <3> QED BY <1>0, <2>1, <3>1, NoSaveType DEF SettingsInv, SettingsSurvive
    <2> QED BY <2>2, <2>3
  <1>6. CASE Rename
    <2>1. save.step = "rename" /\ UNCHANGED <<cfg, prefsReady, tried>>
      BY <1>6 DEF Rename, At
    <2>2. CASE save' = NoSave /\ UNCHANGED <<diskNow, diskAfter>>
      BY <1>0, <2>1, <2>2, NoSaveType DEF SettingsInv, SettingsSurvive
    <2>3. CASE /\ diskNow' = File("new", cfg) /\ GoTo("flush")
               /\ diskAfter' = diskAfter \cup {IF save.synced THEN diskNow' ELSE Torn}
      <3>1. save' \in SaveType /\ save'.step = "flush" /\ save'.synced = save.synced
        BY <1>0, <2>3, GoToStep DEF Steps
      <3>2. diskAfter' \subseteq tried
        BY <1>0, <2>1, <2>3
      <3> QED BY <1>0, <2>1, <3>1, <3>2 DEF SettingsInv, SettingsSurvive
    <2> QED BY <1>6, <2>2, <2>3 DEF Rename, Give
  <1>7. CASE Flush
    <2>1. save.step = "flush" /\ save' = NoSave /\ UNCHANGED <<cfg, prefsReady>>
      BY <1>7 DEF Flush, At, Give
    <2>2. diskAfter' \subseteq tried'
      BY <1>0, <1>7, <2>1 DEF Flush
    <2> QED BY <2>1, <2>2, NoSaveType DEF SettingsInv, SettingsSurvive
  <1>8. CASE OtherProgramWrites
    <2> DEFINE b == save.step # "rename"
    <2>1. /\ save' = [save EXCEPT !.clean = b] /\ b \in BOOLEAN
          /\ diskAfter' = {Foreign} /\ tried' = tried \cup {Foreign}
          /\ UNCHANGED <<cfg, prefsReady>>
      BY <1>8 DEF OtherProgramWrites
    <2>2. b <=> save.step # "rename"
      OBVIOUS
    <2> HIDE DEF b
    <2>3. /\ save' \in SaveType /\ save'.step = save.step /\ save'.synced = save.synced
          /\ save'.clean = b
      BY <1>0, <2>1 DEF SaveType
    <2> QED BY <1>0, <2>1, <2>2, <2>3 DEF SettingsInv, SettingsSurvive
  <1>9. CASE Crash
    <2>1. save' = NoSave /\ tried' = tried
      BY <1>9 DEF Crash
    <2>2. diskAfter' \subseteq tried
      BY <1>0, <1>9 DEF Crash
    <2> QED BY <2>1, <2>2, NoSaveType DEF SettingsInv, SettingsSurvive
  <1>10. CASE UNCHANGED svars
    BY <1>10 DEF svars, SettingsInv, SettingsSurvive, Recognized
  <1>11. CASE Edit \/ SwitchReceiver
    BY <1>2, <1>11 DEF Edit, SwitchReceiver
  <1> QED BY <1>1, <1>3, <1>4, <1>5, <1>6, <1>7, <1>8, <1>9, <1>10, <1>11 DEF SettingsNext

\* Wherever a crash interrupts a save, the settings file is a whole setup: the
\* last acknowledged one or one whose save had begun since; and a file found
\* unrecognized by the last check is not replaced.
THEOREM SettingsAlwaysSurvive == SettingsSpec => []SettingsSurvive
  <1>1. SettingsInit => SettingsInv
    <2> SUFFICES ASSUME SettingsInit PROVE SettingsInv
      OBVIOUS
    <2>1. diskAfter = tried /\ save = NoSave
      BY DEF SettingsInit
    <2> QED BY <2>1, NoSaveType DEF SettingsInv, SettingsSurvive
  <1>2. SettingsInv => SettingsSurvive
    BY DEF SettingsInv
  <1> QED BY <1>1, <1>2, SettingsStep, PTL DEF SettingsSpec

-----------------------------------------------------------------------------
(* Receivers by identity.                                                  *)

\* A unit sits in one port and every unit on the bus has a node of its own.
BusInv ==
  /\ bus \in [Ports -> Units \cup {None}] /\ DOMAIN node = Units
  /\ \A p, q \in Ports : bus[p] = bus[q] /\ bus[p] # None => p = q
  /\ \A u, v \in Present : node[u] = node[v] => u = v

\* Two boards resolved by one inventory have identities and different nodes, and a
\* unit that was checked keeps the node it was checked at for as long as it is not unplugged.
CheckedInv ==
  /\ phase # "setup" => /\ boards[1].path # boards[2].path
                        /\ \A i \in Boards : boards[i].id # None
  /\ DOMAIN opened = Boards
  /\ phase = "started" => \A i \in Boards :
       checked[i] \in left \/ (checked[i] \in Present /\ node[checked[i]] = boards[i].path)

IdentityInv == BusInv /\ CheckedInv /\ OpenedAsChosen

\* select_gps_device returns at most one device: the only one with its identity.
LEMMA SelectedIsUnique ==
  ASSUME NEW devices, NEW id, NEW d \in Select(devices, id)
  PROVE  Cardinality({e \in devices : e.id = d.id}) = 1
  <1>1. d \in devices /\ d.id = id /\ \A e \in devices \ {d} : e.id # id
    BY DEF Select
  <1>2. {e \in devices : e.id = d.id} = {d}
    BY <1>1
  <1> QED BY <1>2, FS_Singleton

LEMMA MatchedIsUnique ==
  ASSUME NEW devices, NEW b, NEW d \in Matched(devices, b)
  PROVE  d \in devices /\ Cardinality({e \in devices : e.id = d.id}) = 1
  <1>1. PICK id : d \in Select(devices, id)
    BY DEF Matched
  <1>2. d \in devices
    BY <1>1 DEF Select
  <1> QED BY <1>1, <1>2, SelectedIsUnique

\* Every device of an inventory has an identity.
LEMMA InventoryHasIds == \A d \in Inventory : d.id # None
  <1> SUFFICES ASSUME NEW u \in Present PROVE Device(u).id # None
    BY DEF Inventory
  <1>1. u \in Units /\ PortOf(u) \in Ports
    BY DEF Present, PortOf
  <1> QED BY <1>1, NoneIsNeither DEF Device, StableId

\* A unit that is plugged in gets a free port and a node no other unit has.
LEMMA PlugStep ==
  ASSUME IdentityInv, NEW u \in Units, NEW p \in Ports, Plug(u, p)
  PROVE  IdentityInv'
  <1>1. /\ bus[p] = None /\ u \notin Present /\ bus' = [bus EXCEPT ![p] = u]
        /\ UNCHANGED <<seen, boards, phase, checked, opened, left>>
    BY DEF Plug, receivers
  <1>2. PICK n : (\A v \in Present : node[v] # n) /\ node' = [node EXCEPT ![u] = n]
    BY DEF Plug
  <1>3. /\ bus \in [Ports -> Units \cup {None}] /\ DOMAIN node = Units
        /\ \A q \in Ports : bus[q] # u
    BY <1>1 DEF IdentityInv, BusInv, Present
  <1>4. Present' = Present \cup {u}
    <2>1. \A q \in Ports : bus'[q] = IF q = p THEN u ELSE bus[q]
      BY <1>1, <1>3
    <2>2. \A v \in Units : v # u => ((\E q \in Ports : bus'[q] = v) <=> \E q \in Ports : bus[q] = v)
      <3> SUFFICES ASSUME NEW v \in Units, v # u
                   PROVE  (\E q \in Ports : bus'[q] = v) <=> \E q \in Ports : bus[q] = v
        OBVIOUS
      <3>1. v # bus[p]
        BY <1>1, NoneIsNeither
      <3> QED BY <2>1, <3>1
    <2> QED BY <2>1, <2>2 DEF Present
  <1>5. BusInv'
    <2>1. bus' \in [Ports -> Units \cup {None}] /\ DOMAIN node' = Units
      BY <1>1, <1>2, <1>3
    <2>2. \A q, r \in Ports : bus'[q] = bus'[r] /\ bus'[q] # None => q = r
      BY <1>1, <1>3 DEF IdentityInv, BusInv
    <2>3. \A v, w \in Present' : node'[v] = node'[w] => v = w
      <3>1. node'[u] = n /\ \A v \in Present : node'[v] = node[v]
        BY <1>1, <1>2, <1>3 DEF Present
      <3> QED BY <1>2, <1>4, <3>1 DEF IdentityInv, BusInv
    <2> QED BY <2>1, <2>2, <2>3 DEF BusInv
  <1>6. CheckedInv'
    <2>1. \A v \in Present : v \in Present' /\ node'[v] = node[v]
      BY <1>1, <1>2, <1>3, <1>4 DEF Present
    <2> QED BY <1>1, <2>1 DEF IdentityInv, CheckedInv
  <1> QED BY <1>1, <1>5, <1>6 DEF IdentityInv, OpenedAsChosen

\* A unit that is unplugged is remembered as gone; the others keep their nodes.
LEMMA UnplugStep ==
  ASSUME IdentityInv, NEW p \in Ports, Unplug(p)
  PROVE  IdentityInv'
  <1>1. /\ bus[p] # None /\ bus' = [bus EXCEPT ![p] = None]
        /\ node' = [node EXCEPT ![bus[p]] = None] /\ left' = left \cup {bus[p]}
        /\ UNCHANGED <<seen, boards, phase, checked, opened>>
    BY DEF Unplug, receivers
  <1>2. /\ bus \in [Ports -> Units \cup {None}] /\ DOMAIN node = Units
        /\ \A q \in Ports : bus[q] = bus[p] => q = p
    BY <1>1 DEF IdentityInv, BusInv
  <1>3. Present' = Present \ {bus[p]}
    <2>1. \A q \in Ports : bus'[q] = IF q = p THEN None ELSE bus[q]
      BY <1>1, <1>2
    <2>2. \A v \in Units : (\E q \in Ports : bus'[q] = v) <=> v # bus[p] /\ \E q \in Ports : bus[q] = v
      <3> SUFFICES ASSUME NEW v \in Units
                   PROVE  (\E q \in Ports : bus'[q] = v) <=> v # bus[p] /\ \E q \in Ports : bus[q] = v
        OBVIOUS
      <3>1. v # None
        BY NoneIsNeither
      <3> QED BY <1>2, <2>1, <3>1
    <2> QED BY <2>2 DEF Present
  <1>4. \A v \in Present' : v \in Present /\ node'[v] = node[v]
    BY <1>1, <1>2, <1>3 DEF Present
  <1>5. BusInv'
    <2>1. bus' \in [Ports -> Units \cup {None}] /\ DOMAIN node' = Units
      BY <1>1, <1>2
    <2>2. \A q, r \in Ports : bus'[q] = bus'[r] /\ bus'[q] # None => q = r
      BY <1>1, <1>2 DEF IdentityInv, BusInv
    <2> QED BY <1>4, <2>1, <2>2 DEF IdentityInv, BusInv
  <1>6. CheckedInv'
    <2> SUFFICES ASSUME phase = "started", NEW i \in Boards, checked[i] \notin left'
                 PROVE  checked[i] \in Present' /\ node'[checked[i]] = boards[i].path
      BY <1>1 DEF IdentityInv, CheckedInv
    <2>1. checked[i] \in Present /\ node[checked[i]] = boards[i].path /\ checked[i] # bus[p]
      BY <1>1 DEF IdentityInv, CheckedInv
    <2> QED BY <1>3, <1>4, <2>1
  <1>7. OpenedAsChosen'
    BY <1>1 DEF IdentityInv, OpenedAsChosen
  <1> QED BY <1>5, <1>6, <1>7 DEF IdentityInv

\* Steps of the interface and the engine leave the bus alone.
LEMMA BusKept ==
  ASSUME BusInv, UNCHANGED <<bus, node>>
  PROVE  BusInv'
  BY DEF BusInv, Present

\* Opening by name finds the checked unit, unless that one is gone.
LEMMA OpenStep ==
  ASSUME IdentityInv, NEW i \in Boards, OpenNode(i)
  PROVE  IdentityInv'
  <1>1. /\ phase = "started" /\ UNCHANGED <<bus, node, seen, boards, checked, left>>
        /\ \/ phase' = "setup" /\ opened' = opened
           \/ /\ phase' = phase
              /\ \E u \in Present : node[u] = boards[i].path /\ opened' = [opened EXCEPT ![i] = u]
    BY DEF OpenNode
  <1>2. BusInv' /\ DOMAIN opened = Boards /\ Present' = Present
    BY <1>1, BusKept DEF IdentityInv, CheckedInv, Present
  <1>3. CASE phase' = "setup" /\ opened' = opened
    BY <1>2, <1>3 DEF IdentityInv, CheckedInv, OpenedAsChosen
  <1>4. CASE /\ phase' = phase
             /\ \E u \in Present : node[u] = boards[i].path /\ opened' = [opened EXCEPT ![i] = u]
    <2>1. PICK u \in Present : node[u] = boards[i].path /\ opened' = [opened EXCEPT ![i] = u]
      BY <1>4
    <2>2. u = checked[i] \/ checked[i] \in left
      BY <1>1, <2>1 DEF IdentityInv, CheckedInv, BusInv
    <2>3. CheckedInv'
      BY <1>1, <1>2, <1>4, <2>1 DEF IdentityInv, CheckedInv
    <2>4. \A j \in Boards : opened'[j] # None => opened'[j] = checked[j] \/ checked[j] \in left
      <3> SUFFICES ASSUME NEW j \in Boards, opened'[j] # None
                   PROVE  opened'[j] = checked[j] \/ checked[j] \in left
        OBVIOUS
      <3>1. CASE j = i
        BY <1>2, <2>1, <2>2, <3>1
      <3>2. CASE j # i
        BY <1>1, <1>2, <2>1, <3>2 DEF IdentityInv, OpenedAsChosen
      <3> QED BY <3>1, <3>2
    <2> QED BY <1>1, <1>2, <1>4, <2>3, <2>4 DEF IdentityInv, OpenedAsChosen
  <1> QED BY <1>1, <1>3, <1>4

LEMMA IdentityStep == IdentityInv /\ [IdentityNext]_ivars => IdentityInv'
  <1> SUFFICES ASSUME IdentityInv, [IdentityNext]_ivars PROVE IdentityInv'
    OBVIOUS
  <1>1. CASE UNCHANGED ivars
    <2>1. UNCHANGED <<bus, node, boards, seen, phase, checked, opened, left>>
      BY <1>1 DEF ivars
    <2> QED BY <2>1, BusKept DEF IdentityInv, CheckedInv, OpenedAsChosen, Present
  <1>2. CASE phase' = "setup" /\ UNCHANGED <<bus, node, opened>>
    BY <1>2, BusKept DEF IdentityInv, CheckedInv, OpenedAsChosen
  <1>3. CASE Resolve
    <2> DEFINE found == [i \in Boards |-> Matched(seen', boards[i])]
               chosen == [i \in Boards |-> CHOOSE d \in found[i] : TRUE]
    <2>1. /\ UNCHANGED <<bus, node, checked, opened, left>> /\ phase = "setup"
          /\ \/ /\ \A i \in Boards : found[i] # {}
                /\ chosen[1].path # chosen[2].path
                /\ boards' = chosen /\ phase' = "resolved"
             \/ phase' = phase
      BY <1>3 DEF Resolve, receivers
    <2>2. CASE phase' = phase
      BY <1>2, <2>1, <2>2
    <2>3. CASE /\ \A i \in Boards : found[i] # {}
               /\ chosen[1].path # chosen[2].path
               /\ boards' = chosen /\ phase' = "resolved"
      <3>1. ASSUME NEW i \in Boards
            PROVE  /\ Cardinality({d \in seen' : d.id = boards'[i].id}) = 1
                   /\ boards'[i].id # None
        <4>1. boards'[i] \in Matched(seen', boards[i])
          BY <2>3
        <4>2. seen' = Inventory
          BY <1>3 DEF Resolve
        <4> QED BY <4>1, <4>2, MatchedIsUnique, InventoryHasIds
      <3>2. boards'[1].path # boards'[2].path
        BY <2>3
      <3>3. BusInv' /\ DOMAIN opened' = Boards
        BY <2>1, BusKept DEF IdentityInv, CheckedInv
      <3> QED BY <2>3, <3>1, <3>2, <3>3 DEF IdentityInv, CheckedInv, OpenedAsChosen
    <2> QED BY <2>1, <2>2, <2>3
  <1>4. CASE EngineStart
    <2> DEFINE matching(i) == {u \in Present : StillMatches(u, boards[i])}
    <2>1. /\ phase = "resolved" /\ UNCHANGED <<bus, node, seen, boards>>
          /\ \/ /\ phase' = "started" /\ left' = {}
                /\ \A i \in Boards : Cardinality(matching(i)) = 1
                /\ checked' = [i \in Boards |-> CHOOSE u \in matching(i) : TRUE]
                /\ opened' = [i \in Boards |-> None]
             \/ phase' = "setup" /\ opened' = opened
      BY <1>4 DEF EngineStart, receivers
    <2>2. CASE phase' = "setup" /\ opened' = opened
      BY <1>2, <2>1, <2>2
    <2>3. CASE /\ phase' = "started"
               /\ \A i \in Boards : Cardinality(matching(i)) = 1
               /\ checked' = [i \in Boards |-> CHOOSE u \in matching(i) : TRUE]
               /\ opened' = [i \in Boards |-> None]
      <3>1. ASSUME NEW i \in Boards
            PROVE  /\ checked'[i] \in Present /\ node[checked'[i]] = boards[i].path
                   /\ boards[i].id = None \/ StableId(checked'[i]) = boards[i].id
        <4>1. matching(i) # {}
          BY <2>3, FS_EmptySet
        <4>2. checked'[i] \in matching(i)
          BY <2>3, <4>1
        <4> QED BY <4>2 DEF StillMatches
      <3>2. checked'[1] # checked'[2] /\ BusInv' /\ Present' = Present
        BY <2>1, <3>1, BusKept DEF IdentityInv, CheckedInv, Boards, Present
      <3>3. ASSUME NEW i \in Boards, SerialOf[checked'[i]] # NoSerial
            PROVE  boards'[i].id = <<"serial", SerialOf[checked'[i]]>>
        <4>1. boards[i].id # None
          BY <2>1 DEF IdentityInv, CheckedInv
        <4> QED BY <2>1, <3>1, <3>3, <4>1 DEF StableId
      <3>4. /\ boards'[1].path # boards'[2].path /\ \A i \in Boards : boards'[i].id # None
            /\ \A i \in Boards : Cardinality({d \in seen' : d.id = boards'[i].id}) = 1
        BY <2>1 DEF IdentityInv, CheckedInv, OpenedAsChosen
      <3>5. CheckedInv'
        BY <2>1, <2>3, <3>1, <3>2, <3>4 DEF CheckedInv
      <3> QED BY <2>3, <3>2, <3>3, <3>4, <3>5 DEF IdentityInv, OpenedAsChosen
    <2> QED BY <2>1, <2>2, <2>3
  <1>5. CASE \/ \E i \in Boards : ClearBoard(i) \/ (\E d \in seen : ChooseBoard(i, d))
             \/ \E i \in Boards, n \in 0..1 : NamePath(i, n)
             \/ Refresh \/ ResolveRefused
    BY <1>2, <1>5 DEF ClearBoard, ChooseBoard, NamePath, Refresh, ResolveRefused, receivers
  <1> QED BY <1>1, <1>3, <1>4, <1>5, PlugStep, UnplugStep, OpenStep DEF IdentityNext, Discovery

\* A survey starts on two different units, each with the identity the setup names
\* and neither ambiguous when it was resolved, and each receiver process opens the
\* unit that was checked unless that unit was unplugged after the check, for any
\* units and ports and any number of changes of the bus in between
\* (resolve_concentrators, Engine::start, main of rak_worker.c).
THEOREM OpensWhatWasChosen == IdentitySpec => []OpenedAsChosen
  <1>1. IdentityInit => IdentityInv
    BY NoneIsNeither DEF IdentityInit, IdentityInv, BusInv, CheckedInv, OpenedAsChosen, Present
  <1>2. IdentityInv => OpenedAsChosen
    BY DEF IdentityInv
  <1> QED BY <1>1, <1>2, IdentityStep, PTL DEF IdentitySpec

-----------------------------------------------------------------------------
(* The export of a survey.                                                 *)

Surveys == SavedSurveys \cup {NoSurvey}
Kinds == ReportKinds \cup {"image", "none"}
WindowType == [open : BOOLEAN, survey : Surveys, kind : ReportKinds, gps : BOOLEAN,
               path : FileNames \cup {NoEntry}]
WriterType == [step : {"none", "create", "write"}, path : FileNames \cup {NoEntry}, kind : Kinds,
               survey : Surveys, reviewed : Surveys, id : Nat, row : Nat]
FileType == [id : Nat, by : {"app", "other"}, kind : Kinds, survey : Surveys,
             reviewed : Surveys, whole : BOOLEAN]

ExportTypes ==
  /\ engineOn \in Surveys /\ shown \in Surveys /\ made \in Nat
  /\ window \in WindowType /\ writer \in WriterType
  /\ files \in [FileNames -> FileType \cup {NoEntry}]

\* What the frame shows is the engine's survey, or none, unless an operation runs.
ShownInv == busy = "idle" => shown \in {engineOn, NoSurvey}

\* An export under way is of the survey that was reviewed; it has a file only
\* between creating it and finishing it.
WriterInv ==
  /\ writer.survey = writer.reviewed
  /\ writer.step # "none" => writer.path \in FileNames
  /\ writer.step # "write" => writer.id = 0
  /\ writer.id <= made

\* Every file has a number of its own, and the one with the writer's number is the
\* unfinished file under the writer's name.
FileInv ==
  \A p \in FileNames : files[p] # NoEntry =>
    /\ files[p].id \in 1 .. made
    /\ files[p].id = writer.id =>
         /\ p = writer.path /\ ~files[p].whole
         /\ files[p].kind = writer.kind

ExportInv == ExportTypes /\ ShownInv /\ WriterInv /\ FileInv /\ ExportAsReviewed

\* The writer at rest.
LEMMA NoWriterType ==
  /\ NoWriter \in WriterType /\ NoWriter.step = "none" /\ NoWriter.id = 0
  /\ NoWriter.survey = NoSurvey /\ NoWriter.reviewed = NoSurvey
  BY DEF NoWriter, WriterType, Kinds, Surveys, NoSurvey

\* The steps of the window and of the session: no file and no export changes.
LEMMA WindowStep ==
  ASSUME ExportInv,
         OpenWindow \/ SetOptions \/ ChooseName \/ BeginOpen \/ EngineOpens \/ RecordSurvey \/ NextFrame
  PROVE  ExportInv'
  <1>1. /\ window \in WindowType /\ engineOn \in Surveys /\ shown \in Surveys
        /\ ShownInv
    BY DEF ExportInv, ExportTypes
  <1>2. UNCHANGED <<files, writer, made>>
    BY DEF OpenWindow, SetOptions, ChooseName, BeginOpen, EngineOpens, RecordSurvey, NextFrame
  <1>3. window' \in WindowType
    <2>1. CASE OpenWindow
      <3>1. window' = [NoWindow EXCEPT !.open = TRUE, !.survey = shown]
        BY <2>1 DEF OpenWindow
      <3>2. NoWindow \in WindowType
        <4>1. FALSE \in BOOLEAN /\ NoSurvey \in Surveys /\ "summary" \in ReportKinds
          BY DEF Surveys, ReportKinds
        <4> QED BY <4>1 DEF NoWindow, WindowType
      <3> QED BY <1>1, <3>1, <3>2 DEF WindowType
    <2>2. CASE SetOptions
      BY <1>1, <2>2 DEF SetOptions, WindowType
    <2>3. CASE ChooseName
      BY <1>1, <2>3 DEF ChooseName, WindowType
    <2>4. CASE NextFrame
      <3>1. window' = [window EXCEPT !.open = FALSE] \/ window' = window
        BY <2>4 DEF NextFrame
      <3> QED BY <1>1, <3>1 DEF WindowType
    <2>5. CASE BeginOpen \/ EngineOpens \/ RecordSurvey
      BY <1>1, <2>5 DEF BeginOpen, EngineOpens, RecordSurvey
    <2> QED BY <2>1, <2>2, <2>3, <2>4, <2>5
  <1>4. engineOn' \in Surveys /\ shown' \in Surveys /\ ShownInv'
    <2>1. CASE OpenWindow \/ SetOptions \/ ChooseName
      BY <1>1, <2>1 DEF OpenWindow, SetOptions, ChooseName, ShownInv
    <2>2. CASE BeginOpen \/ EngineOpens
      BY <1>1, <2>2 DEF BeginOpen, EngineOpens, ShownInv, Surveys
    <2>3. CASE RecordSurvey
      BY <1>1, <2>3 DEF RecordSurvey, Idle, ShownInv, Surveys
    <2>4. CASE NextFrame
      BY <1>1, <2>4 DEF NextFrame, ShownInv
    <2> QED BY <2>1, <2>2, <2>3, <2>4
  <1> QED BY <1>2, <1>3, <1>4
          DEF ExportInv, ExportTypes, WriterInv, FileInv, ExportAsReviewed

\* An export begins for the survey the engine holds: the one shown and reviewed.
LEMMA BeginStep ==
  ASSUME ExportInv, BeginExport \/ BeginImage
  PROVE  ExportInv' /\ files' = files
  <1>1. /\ window \in WindowType /\ engineOn \in Surveys /\ shown \in Surveys /\ made \in Nat
        /\ ShownInv
    BY DEF ExportInv, ExportTypes
  <1>2. UNCHANGED <<files, engineOn, shown, busy, window, made>> /\ Idle
    BY DEF BeginExport, BeginImage, Allowed
  <1>3. writer.id = 0
    BY <1>2 DEF ExportInv, WriterInv, Idle
  <1>4. /\ writer' \in WriterType /\ writer'.survey = writer'.reviewed
        /\ writer'.path \in FileNames /\ writer'.id = 0
    <2>1. CASE BeginExport
      <3>1. /\ shown # NoSurvey /\ window.survey = shown /\ window.path # NoEntry
            /\ writer' = [step |-> "create", path |-> window.path, kind |-> window.kind,
                          survey |-> engineOn, reviewed |-> window.survey, id |-> 0, row |-> 0]
        BY <2>1 DEF BeginExport, Allowed, SurveyUnchanged
      <3>2. engineOn = window.survey
        BY <1>1, <1>2, <3>1 DEF ShownInv, Idle
      <3>3. window.path \in FileNames /\ window.kind \in Kinds /\ window.survey \in Surveys
        BY <1>1, <3>1 DEF WindowType, Kinds
      <3> QED BY <1>1, <3>1, <3>2, <3>3 DEF WriterType
    <2>2. CASE BeginImage
      <3>1. PICK p \in FileNames :
              writer' = [NoWriter EXCEPT !.step = "create", !.path = p, !.kind = "image",
                                         !.survey = shown, !.reviewed = shown]
        BY <2>2 DEF BeginImage
      <3>2. "image" \in Kinds
        BY DEF Kinds
      <3> QED BY <1>1, <3>1, <3>2, NoWriterType DEF WriterType
    <2> QED BY <2>1, <2>2
  <1>5. writer'.step # "write" => writer'.id = 0
    BY <1>4
  <1>6. FileInv'
    <2> SUFFICES ASSUME NEW p \in FileNames, files[p] # NoEntry
                 PROVE  files[p].id \in 1 .. made /\ files[p].id # 0
      BY <1>2, <1>4 DEF FileInv
    <2> QED BY <1>1 DEF ExportInv, FileInv
  <1>7. ExportAsReviewed'
    BY <1>2, <1>3, <1>4 DEF ExportInv, ExportAsReviewed
  <1> QED BY <1>1, <1>2, <1>4, <1>6, <1>7 DEF ExportInv, ExportTypes, WriterInv, ShownInv

\* The name is created exclusively: what is there already ends the export.
LEMMA CreateStep ==
  ASSUME ExportInv, CreateFile
  PROVE  ExportInv' /\ \A p \in FileNames : files[p] # NoEntry => files'[p] = files[p]
  <1>1. /\ writer.step = "create" /\ UNCHANGED <<engineOn, shown, busy, window>>
        /\ writer.id = 0 /\ writer.path \in FileNames /\ writer \in WriterType /\ made \in Nat
        /\ writer.survey = writer.reviewed
        /\ files \in [FileNames -> FileType \cup {NoEntry}]
    BY DEF CreateFile, ExportInv, ExportTypes, WriterInv
  <1>2. \A p \in FileNames : files[p] # NoEntry => files[p].id \in 1 .. made /\ files[p].id # 0
    BY <1>1 DEF ExportInv, FileInv
  <1>3. CASE writer' = NoWriter /\ UNCHANGED <<files, made>>
    <2>1. FileInv' /\ ExportAsReviewed'
      BY <1>1, <1>2, <1>3, NoWriterType DEF ExportInv, FileInv, ExportAsReviewed
    <2> QED BY <1>1, <1>3, <2>1, NoWriterType
            DEF ExportInv, ExportTypes, WriterInv, ShownInv
  <1>4. CASE files[writer.path] = NoEntry
    <2> DEFINE n == made + 1
               f == [id |-> n, by |-> "app", kind |-> writer.kind, survey |-> writer.survey,
                     reviewed |-> writer.reviewed, whole |-> FALSE]
    <2>1. /\ made' = n /\ writer' = [writer EXCEPT !.step = "write", !.id = n]
          /\ files' = [files EXCEPT ![writer.path] = f]
      BY <1>4 DEF CreateFile
    <2>2. n \in Nat /\ made < n /\ n \in 1 .. n
      BY <1>1
    <2>3. /\ f \in FileType /\ f.id = n /\ f.by = "app" /\ f.kind = writer.kind
          /\ f.survey = f.reviewed /\ ~f.whole
      <3>1. /\ writer.kind \in Kinds /\ writer.survey \in Surveys /\ writer.reviewed \in Surveys
            /\ FALSE \in BOOLEAN
        BY <1>1 DEF WriterType
      <3> QED BY <1>1, <2>2, <3>1 DEF FileType
    <2> HIDE DEF f
    <2>4. /\ writer' \in WriterType /\ writer'.step = "write" /\ writer'.id = n
          /\ writer'.path = writer.path /\ writer'.kind = writer.kind
          /\ writer'.survey = writer'.reviewed
      BY <1>1, <2>1, <2>2 DEF WriterType
    <2>5. files' \in [FileNames -> FileType \cup {NoEntry}]
      BY <1>1, <2>1, <2>3
    <2>6. \A p \in FileNames : files'[p] = IF p = writer.path THEN f ELSE files[p]
      BY <1>1, <2>1
    <2>7. \A p \in FileNames : files[p] # NoEntry => files[p].id \in 1 .. n /\ files[p].id # n
      BY <1>1, <1>2
    <2>8. FileInv'
      BY <2>1, <2>2, <2>3, <2>4, <2>6, <2>7 DEF FileInv
    <2>9. ExportAsReviewed'
      BY <1>1, <1>2, <2>3, <2>4, <2>6 DEF ExportInv, ExportAsReviewed
    <2>10. \A p \in FileNames : files[p] # NoEntry => files'[p] = files[p]
      BY <1>4, <2>6
    <2>11. ExportTypes' /\ ShownInv' /\ WriterInv'
      BY <1>1, <2>1, <2>2, <2>4, <2>5 DEF ExportInv, ExportTypes, WriterInv, ShownInv
    <2> QED BY <2>8, <2>9, <2>10, <2>11 DEF ExportInv
  <1>5. files[writer.path] # NoEntry => writer' = NoWriter /\ UNCHANGED <<files, made>>
    BY DEF CreateFile
  <1> QED BY <1>3, <1>4, <1>5

\* A row changes neither the files nor whose export it is.
LEMMA RowStep ==
  ASSUME ExportInv, WriteRow
  PROVE  ExportInv' /\ files' = files
  <1>1. /\ writer' = [writer EXCEPT !.row = writer.row + 1]
        /\ UNCHANGED <<files, engineOn, shown, busy, window, made>> /\ writer \in WriterType
        /\ writer.step = "write"
    BY DEF WriteRow, ExportInv, ExportTypes
  <1>2. /\ writer' \in WriterType /\ writer'.step = writer.step /\ writer'.id = writer.id
        /\ writer'.path = writer.path /\ writer'.kind = writer.kind
        /\ writer'.survey = writer.survey /\ writer'.reviewed = writer.reviewed
    <2>1. writer.row + 1 \in Nat
      BY <1>1 DEF WriterType
    <2> QED BY <1>1, <2>1 DEF WriterType
  <1> QED BY <1>1, <1>2
          DEF ExportInv, ExportTypes, ShownInv, WriterInv, FileInv, ExportAsReviewed

\* The end of an export, whether it fails or is flushed: only its own unfinished
\* file may change, and nothing unfinished but an archive is left behind.
LEMMA EndStep ==
  ASSUME ExportInv, FailExport \/ SyncFile
  PROVE  ExportInv' /\ \A p \in FileNames : Complete(p) => files'[p] = files[p]
  <1>1. /\ writer.step = "write" /\ writer' = NoWriter
        /\ UNCHANGED <<engineOn, shown, busy, made>>
        /\ writer.path \in FileNames /\ window \in WindowType /\ made \in Nat
        /\ files \in [FileNames -> FileType \cup {NoEntry}]
    BY DEF FailExport, SyncFile, ExportInv, ExportTypes, WriterInv
  <1>2. window' \in WindowType
    <2>1. CASE FailExport
      BY <1>1, <2>1 DEF FailExport
    <2>2. CASE SyncFile
      <3> DEFINE o == writer.kind = "image" /\ window.open
      <3>1. window' = [window EXCEPT !.open = o]
        BY <2>2 DEF SyncFile
      <3>2. o \in BOOLEAN
        OBVIOUS
      <3> HIDE DEF o
      <3> QED BY <1>1, <3>1, <3>2 DEF WindowType
    <2> QED BY <2>1, <2>2
  <1>3. ASSUME NEW p \in FileNames, files[p] # NoEntry, files[p].id = writer.id
        PROVE  p = writer.path /\ ~files[p].whole /\ files[p].kind = writer.kind /\ Own
    BY <1>3 DEF ExportInv, FileInv, Own
  <1> DEFINE whole == [files[writer.path] EXCEPT !.whole = TRUE]
  <1>4. Own => /\ whole \in FileType /\ whole.whole /\ whole.id = files[writer.path].id
               /\ whole.survey = files[writer.path].survey
               /\ whole.reviewed = files[writer.path].reviewed
    <2>1. Own => files[writer.path] \in FileType
      BY <1>1 DEF Own
    <2>2. TRUE \in BOOLEAN
      OBVIOUS
    <2> QED BY <2>1, <2>2 DEF FileType
  <1>5. \/ Discards /\ Own /\ files' = [files EXCEPT ![writer.path] = NoEntry]
        \/ Own /\ files' = [files EXCEPT ![writer.path] = whole]
        \/ (~Own \/ writer.kind = "archive") /\ files' = files
    BY DEF FailExport, SyncFile, Discards
  <1> HIDE DEF whole
  <1>6. \/ Own /\ \A p \in FileNames : files'[p] = IF p = writer.path THEN NoEntry ELSE files[p]
        \/ Own /\ \A p \in FileNames : files'[p] = IF p = writer.path THEN whole ELSE files[p]
        \/ (~Own \/ writer.kind = "archive") /\ files' = files
    BY <1>1, <1>5
  <1>7. files' \in [FileNames -> FileType \cup {NoEntry}]
    BY <1>1, <1>4, <1>5
  <1>8. \A p \in FileNames : files[p] # NoEntry => files[p].id \in 1 .. made /\ files[p].id # 0
    BY <1>1 DEF ExportInv, FileInv
  <1>9. \A p \in FileNames : files'[p] # NoEntry =>
          files[p] # NoEntry /\ files'[p].id = files[p].id
    BY <1>4, <1>6 DEF Own
  <1>10. FileInv'
    BY <1>1, <1>8, <1>9, NoWriterType DEF FileInv
  <1>11. \A p \in FileNames : Complete(p) => files'[p] = files[p]
    BY <1>3, <1>6 DEF Own, Complete
  <1>12. ExportAsReviewed'
    <2> SUFFICES ASSUME NEW p \in FileNames, files'[p] # NoEntry, files'[p].by = "app"
                 PROVE  /\ files'[p].survey = files'[p].reviewed
                        /\ files'[p].whole \/ files'[p].kind = "archive"
      BY DEF ExportAsReviewed
    <2>1. CASE files'[p] = files[p]
      <3>1. /\ files[p].survey = files[p].reviewed
            /\ files[p].whole \/ files[p].kind = "archive" \/ files[p].id = writer.id
        BY <2>1 DEF ExportInv, ExportAsReviewed
      <3>2. ASSUME files[p].id = writer.id PROVE files[p].whole \/ files[p].kind = "archive"
        <4>1. p = writer.path /\ Own /\ files[p].kind = writer.kind
          BY <1>3, <2>1, <3>2
        <4>2. CASE writer.kind = "archive"
          BY <4>1, <4>2
        <4>3. CASE files'[p] = whole
          BY <1>4, <2>1, <4>1, <4>3
        <4> QED BY <1>6, <4>1, <4>2, <4>3
      <3> QED BY <2>1, <3>1, <3>2
    <2>2. CASE files'[p] # files[p]
      <3>1. Own /\ files'[p] = whole /\ p = writer.path
        BY <1>6, <2>2
      <3>2. files[p].survey = files[p].reviewed
        <4>1. whole.by = files[writer.path].by
          BY <1>1, <3>1 DEF Own, FileType, whole
        <4> QED BY <3>1, <4>1 DEF ExportInv, ExportAsReviewed, Own
      <3> QED BY <1>4, <3>1, <3>2
    <2> QED BY <2>1, <2>2
  <1>13. ExportTypes' /\ ShownInv' /\ WriterInv'
    BY <1>1, <1>2, <1>7, NoWriterType DEF ExportInv, ExportTypes, ShownInv, WriterInv
  <1> QED BY <1>10, <1>11, <1>12, <1>13 DEF ExportInv

\* Another program's file has a number no export has.
LEMMA OtherStep ==
  ASSUME ExportInv, OtherProgram
  PROVE  ExportInv'
  <1>1. /\ UNCHANGED <<engineOn, shown, busy, window, writer>> /\ made \in Nat /\ writer.id <= made
        /\ files \in [FileNames -> FileType \cup {NoEntry}] /\ writer.id \in Nat
    BY DEF OtherProgram, ExportInv, ExportTypes, WriterInv, WriterType
  <1>2. PICK p \in FileNames :
          \/ files' = [files EXCEPT ![p] = NoEntry] /\ UNCHANGED made
          \/ /\ made' = made + 1
             /\ files' = [files EXCEPT ![p] = [id |-> made + 1, by |-> "other", kind |-> "none",
                  survey |-> NoSurvey, reviewed |-> NoSurvey, whole |-> TRUE]]
    BY DEF OtherProgram
  <1>3. CASE files' = [files EXCEPT ![p] = NoEntry] /\ UNCHANGED made
    <2>1. \A q \in FileNames : files'[q] # NoEntry => files'[q] = files[q] /\ files[q] # NoEntry
      BY <1>1, <1>3
    <2>2. files' \in [FileNames -> FileType \cup {NoEntry}]
      BY <1>1, <1>3
    <2>3. FileInv' /\ ExportAsReviewed'
      BY <1>1, <1>3, <2>1 DEF ExportInv, FileInv, ExportAsReviewed
    <2> QED BY <1>1, <1>3, <2>2, <2>3 DEF ExportInv, ExportTypes, ShownInv, WriterInv
  <1>4. CASE /\ made' = made + 1
             /\ files' = [files EXCEPT ![p] = [id |-> made + 1, by |-> "other", kind |-> "none",
                  survey |-> NoSurvey, reviewed |-> NoSurvey, whole |-> TRUE]]
    <2> DEFINE n == made + 1
               f == [id |-> n, by |-> "other", kind |-> "none",
                     survey |-> NoSurvey, reviewed |-> NoSurvey, whole |-> TRUE]
    <2>1. n \in Nat /\ n \in 1 .. n /\ n # writer.id /\ writer.id <= n
      BY <1>1
    <2>2. f \in FileType /\ f.id = n /\ f.by = "other"
      <3>1. NoSurvey \in Surveys /\ "none" \in Kinds /\ TRUE \in BOOLEAN
        BY DEF Surveys, Kinds
      <3> QED BY <2>1, <3>1 DEF FileType
    <2>3. made' = n /\ files' = [files EXCEPT ![p] = f]
      BY <1>4
    <2> HIDE DEF f
    <2>4. files' \in [FileNames -> FileType \cup {NoEntry}]
      BY <1>1, <2>2, <2>3
    <2>5. \A q \in FileNames : files'[q] = IF q = p THEN f ELSE files[q]
      BY <1>1, <2>3
    <2>6. \A q \in FileNames : files[q] # NoEntry => files[q].id \in 1 .. n
      BY <1>1 DEF ExportInv, FileInv
    <2>7. FileInv'
      BY <1>1, <2>1, <2>2, <2>3, <2>5, <2>6 DEF ExportInv, FileInv
    <2>8. ExportAsReviewed'
      BY <1>1, <2>2, <2>5 DEF ExportInv, ExportAsReviewed
    <2> QED BY <1>1, <2>1, <2>3, <2>4, <2>7, <2>8 DEF ExportInv, ExportTypes, ShownInv, WriterInv
  <1> QED BY <1>2, <1>3, <1>4

LEMMA ExportBegins == ExportInit => ExportInv
  <1> SUFFICES ASSUME ExportInit PROVE ExportInv
    OBVIOUS
  <1>1. /\ engineOn \in Surveys /\ shown = engineOn /\ made = 0 /\ writer = NoWriter
        /\ window = NoWindow /\ files = [p \in FileNames |-> NoEntry]
    BY DEF ExportInit, Surveys
  <1>2. NoWindow \in WindowType
    <2>1. FALSE \in BOOLEAN /\ NoSurvey \in Surveys /\ "summary" \in ReportKinds
      BY DEF Surveys, ReportKinds
    <2> QED BY <2>1 DEF NoWindow, WindowType
  <1> QED BY <1>1, <1>2, NoWriterType
          DEF ExportInv, ExportTypes, ShownInv, WriterInv, FileInv, ExportAsReviewed

\* One step of the window, of an export or of another program.
LEMMA ExportStep ==
  ASSUME ExportInv, [ExportNext]_xvars
  PROVE  /\ ExportInv'
         /\ \A p \in FileNames : Complete(p) /\ files'[p] # files[p] => OtherProgram
  <1>1. CASE OpenWindow \/ SetOptions \/ ChooseName \/ BeginOpen \/ EngineOpens \/ RecordSurvey \/ NextFrame
    <2>1. files' = files
      BY <1>1 DEF OpenWindow, SetOptions, ChooseName, BeginOpen, EngineOpens, RecordSurvey, NextFrame
    <2> QED BY <1>1, <2>1, WindowStep
  <1>2. CASE BeginExport \/ BeginImage
    BY <1>2, BeginStep
  <1>3. CASE CreateFile
    BY <1>3, CreateStep DEF Complete
  <1>4. CASE WriteRow
    BY <1>4, RowStep
  <1>5. CASE FailExport \/ SyncFile
    BY <1>5, EndStep
  <1>6. CASE OtherProgram
    BY <1>6, OtherStep
  <1>7. CASE UNCHANGED xvars
    BY <1>7 DEF xvars, ExportInv, ExportTypes, ShownInv, WriterInv, FileInv, ExportAsReviewed
  <1> QED BY <1>1, <1>2, <1>3, <1>4, <1>5, <1>6, <1>7 DEF ExportNext

\* What an export leaves under the application's name is of the survey that was
\* reviewed in the window, whole unless it is a failed archive, whatever New and
\* Open did since the review (report_export_block_reason, PrivateFile).
THEOREM ExportsAsReviewed == ExportSpec => []ExportAsReviewed
  <1>1. ExportInv /\ [ExportNext]_xvars => ExportInv'
    BY ExportStep
  <1>2. ExportInv => ExportAsReviewed
    BY DEF ExportInv
  <1> QED BY <1>1, <1>2, ExportBegins, PTL DEF ExportSpec

\* No export alters or removes a finished file or one it did not create; only
\* another program's own step may (O_EXCL, PrivateFile::discard).
THEOREM ExportsKeepFiles == ExportSpec => FinishedFilesKept
  <1>1. ExportInv /\ [ExportNext]_xvars => ExportInv'
    BY ExportStep
  <1>2. ExportInv /\ [ExportNext]_xvars =>
          [\A p \in FileNames : Complete(p) /\ files'[p] # files[p] => OtherProgram]_xvars
    BY ExportStep
  <1> QED BY <1>1, <1>2, ExportBegins, PTL DEF ExportSpec, FinishedFilesKept

-----------------------------------------------------------------------------
(* Least and greatest of two or three numbers.                             *)

LEMMA OfTwo ==
  ASSUME NEW a \in Int, NEW b \in Int
  PROVE  /\ Smallest({a, b}) \in {a, b} /\ Smallest({a, b}) <= a /\ Smallest({a, b}) <= b
         /\ Largest({a, b}) \in {a, b} /\ Largest({a, b}) >= a /\ Largest({a, b}) >= b
  <1>1. \E x \in {a, b} : \A y \in {a, b} : x <= y
    <2>1. CASE a <= b
      BY <2>1
    <2>2. CASE b <= a
      BY <2>2
    <2> QED BY <2>1, <2>2
  <1>2. \E x \in {a, b} : \A y \in {a, b} : y <= x
    <2>1. CASE a <= b
      BY <2>1
    <2>2. CASE b <= a
      BY <2>2
    <2> QED BY <2>1, <2>2
  <1>3. Smallest({a, b}) \in {a, b} /\ \A y \in {a, b} : Smallest({a, b}) <= y
    BY <1>1 DEF Smallest
  <1>4. Largest({a, b}) \in {a, b} /\ \A y \in {a, b} : y <= Largest({a, b})
    BY <1>2 DEF Largest
  <1> QED BY <1>3, <1>4

LEMMA OfThree ==
  ASSUME NEW a \in Int, NEW b \in Int, NEW c \in Int
  PROVE  LET S == {a, b, c}
         IN  /\ Smallest(S) \in S /\ \A y \in S : Smallest(S) <= y
             /\ Largest(S) \in S /\ \A y \in S : y <= Largest(S)
  <1> DEFINE S == {a, b, c}
  <1>1. \E x \in S : \A y \in S : x <= y
    <2>1. CASE a <= b /\ a <= c
      BY <2>1
    <2>2. CASE b <= a /\ b <= c
      BY <2>2
    <2>3. CASE c <= a /\ c <= b
      BY <2>3
    <2> QED BY <2>1, <2>2, <2>3
  <1>2. \E x \in S : \A y \in S : y <= x
    <2>1. CASE a >= b /\ a >= c
      BY <2>1
    <2>2. CASE b >= a /\ b >= c
      BY <2>2
    <2>3. CASE c >= a /\ c >= b
      BY <2>3
    <2> QED BY <2>1, <2>2, <2>3
  <1> HIDE DEF S
  <1>3. Smallest(S) \in S /\ \A y \in S : Smallest(S) <= y
    BY <1>1 DEF Smallest
  <1>4. Largest(S) \in S /\ \A y \in S : y <= Largest(S)
    BY <1>2 DEF Largest
  <1> QED BY <1>3, <1>4 DEF S

\* A spread within a tolerance bounds every difference.
LEMMA SpreadBounds ==
  ASSUME NEW a \in Int, NEW b \in Int, NEW x \in Int, NEW t \in Int, Spread(a, b, x) <= t
  PROVE  /\ b - a <= t /\ x - a <= t /\ b - x <= t
         /\ Largest({b, x}) - Smallest({a, x}) <= t
  <1> DEFINE S == {a, b, x}
             l == Smallest(S)
             h == Largest(S)
  <1>1. l \in Int /\ h \in Int /\ l <= a /\ l <= b /\ l <= x /\ h >= a /\ h >= b /\ h >= x
    BY OfThree
  <1>2. h - l <= t
    BY DEF Spread
  <1> HIDE DEF S, l, h
  <1>3. /\ Smallest({a, x}) \in {a, x} /\ Largest({b, x}) \in {b, x}
    BY OfTwo
  <1>4. Smallest({a, x}) \in Int /\ Largest({b, x}) \in Int
        /\ Smallest({a, x}) >= l /\ Largest({b, x}) <= h
    BY <1>1, <1>3
  <1> QED BY <1>1, <1>2, <1>4

-----------------------------------------------------------------------------
(* What an observation knows of the fits that were given its id.           *)

ObservationType ==
  [id : Nat, place : Int, time : Int, score : Int, best : Subbands,
   subbands : SUBSET Subbands, low : Int, high : Int, early : Int, late : Int,
   ambiguous : BOOLEAN]
ReportType == [fit : Fits, id : Nat]

Covers(o, f) ==
  /\ f.subband \in o.subbands /\ f.score <= o.score
  /\ o.low <= f.place /\ f.place <= o.high
  /\ o.early <= f.time /\ f.time <= o.late
IsBest(o, f) ==
  f.place = o.place /\ f.time = o.time /\ f.subband = o.best /\ f.score = o.score
Narrow(o) == o.high - o.low <= PlaceTolerance /\ o.late - o.early <= TimeTolerance

\* The fits with its id are inside its bounds, one per subband it lists, and
\* its values are those of one of them.
Describes(o, reports) ==
  /\ Narrow(o)
  /\ \A k \in DOMAIN reports : reports[k].id = o.id => Covers(o, reports[k].fit)
  /\ \A s \in o.subbands : \E k \in DOMAIN reports :
        reports[k].id = o.id /\ reports[k].fit.subband = s
  /\ \A j, k \in DOMAIN reports :
        (reports[j].id = o.id /\ reports[k].id = o.id
           /\ reports[j].fit.subband = reports[k].fit.subband) => j = k
  /\ \E k \in DOMAIN reports : reports[k].id = o.id /\ IsBest(o, reports[k].fit)

LEMMA FitFields ==
  ASSUME NEW f \in Fits
  PROVE  f.subband \in Subbands /\ f.place \in Int /\ f.time \in Int /\ f.score \in Int
  BY ObservationsAssumption DEF Fits

LEMMA Appended ==
  ASSUME NEW reports \in Seq(ReportType), NEW r \in ReportType
  PROVE  LET longer == Append(reports, r)
         IN  /\ DOMAIN reports = 1 .. Len(reports) /\ Len(reports) \in Nat
             /\ longer \in Seq(ReportType)
             /\ DOMAIN longer = 1 .. Len(reports) + 1 /\ Len(longer) = Len(reports) + 1
             /\ \A k \in 1 .. Len(reports) : longer[k] = reports[k]
             /\ longer[Len(reports) + 1] = r
  BY AppendProperties, LenProperties

LEMMA ReportFields ==
  ASSUME NEW reports \in Seq(ReportType)
  PROVE  \A k \in DOMAIN reports : reports[k].fit \in Fits /\ reports[k].id \in Nat
  <1>1. \A k \in DOMAIN reports : reports[k] \in ReportType
    BY ElementOfSeq, LenProperties
  <1> QED BY <1>1 DEF ReportType

\* A report for another observation changes nothing for this one.
LEMMA OtherReport ==
  ASSUME NEW o, NEW reports \in Seq(ReportType), NEW r \in ReportType,
         Describes(o, reports), r.id # o.id
  PROVE  Describes(o, Append(reports, r))
  <1> DEFINE longer == Append(reports, r)
  <1>1. /\ DOMAIN reports = 1 .. Len(reports) /\ Len(reports) \in Nat
        /\ DOMAIN longer = 1 .. Len(reports) + 1
        /\ \A k \in 1 .. Len(reports) : longer[k] = reports[k]
        /\ longer[Len(reports) + 1] = r
    BY Appended
  <1> HIDE DEF longer
  <1>2. \A k \in DOMAIN longer : longer[k].id = o.id =>
           k \in DOMAIN reports /\ longer[k] = reports[k]
    BY <1>1
  <1>3. \A k \in DOMAIN reports : k \in DOMAIN longer /\ longer[k] = reports[k]
    BY <1>1
  <1>4. Describes(o, longer)
    BY <1>2, <1>3 DEF Describes
  <1> QED BY <1>4 DEF longer

\* The first report of a new id.
LEMMA FirstReport ==
  ASSUME NEW f \in Fits, NEW ambiguous \in BOOLEAN, NEW reports \in Seq(ReportType),
         nextId \in Nat, \A k \in DOMAIN reports : reports[k].id < nextId
  PROVE  /\ NewObservation(f, ambiguous) \in ObservationType
         /\ NewObservation(f, ambiguous).id = nextId
         /\ Describes(NewObservation(f, ambiguous), Append(reports, [fit |-> f, id |-> nextId]))
  <1> DEFINE r == [fit |-> f, id |-> nextId]
             o == NewObservation(f, ambiguous)
             longer == Append(reports, r)
  <1>0. f.subband \in Subbands /\ f.place \in Int /\ f.time \in Int /\ f.score \in Int
    BY FitFields
  <1>1. o \in ObservationType
    <2>1. {f.subband} \in SUBSET Subbands
      BY <1>0
    <2> QED BY <1>0, <2>1 DEF NewObservation, ObservationType
  <1>2. /\ o.id = nextId /\ o.subbands = {f.subband} /\ o.best = f.subband
        /\ o.place = f.place /\ o.low = f.place /\ o.high = f.place
        /\ o.time = f.time /\ o.early = f.time /\ o.late = f.time /\ o.score = f.score
    BY DEF NewObservation
  <1>3. r \in ReportType /\ r.id = nextId /\ r.fit = f
    BY DEF ReportType
  <1> HIDE DEF r, o
  <1>4. /\ DOMAIN reports = 1 .. Len(reports) /\ Len(reports) \in Nat
        /\ DOMAIN longer = 1 .. Len(reports) + 1
        /\ \A k \in 1 .. Len(reports) : longer[k] = reports[k]
        /\ longer[Len(reports) + 1] = r
    BY <1>3, Appended, Zenon
  <1> HIDE DEF longer
  <1>a. \A k \in DOMAIN reports : reports[k].id \in Nat
    BY ReportFields
  <1>5. \A k \in DOMAIN longer : longer[k].id = nextId => k = Len(reports) + 1
    BY <1>4, <1>a
  <1>6. Covers(o, f) /\ IsBest(o, f)
    BY <1>0, <1>2 DEF Covers, IsBest
  <1>7. Narrow(o)
    BY <1>0, <1>2, ObservationsAssumption DEF Narrow
  <1>8. Len(reports) + 1 \in DOMAIN longer
    BY <1>4
  <1>9. Describes(o, longer)
    BY <1>2, <1>3, <1>4, <1>5, <1>6, <1>7, <1>8 DEF Describes
  <1> QED BY <1>1, <1>2, <1>9 DEF o, r, longer

\* A report that joins: the bounds grow to hold it and stay narrow, because the
\* whole range was compared and not the best fit alone.
LEMMA JoiningReport ==
  ASSUME NEW o \in ObservationType, NEW f \in Fits, NEW reports \in Seq(ReportType),
         Describes(o, reports), Agrees(o, f)
  PROVE  /\ Merged(o, f) \in ObservationType /\ Merged(o, f).id = o.id
         /\ Describes(Merged(o, f), Append(reports, [fit |-> f, id |-> o.id]))
  <1> DEFINE r == [fit |-> f, id |-> o.id]
             m == Merged(o, f)
             longer == Append(reports, r)
             better == f.score > o.score
             low == Smallest({o.low, f.place})
             high == Largest({o.high, f.place})
             early == Smallest({o.early, f.time})
             late == Largest({o.late, f.time})
             place == IF better THEN f.place ELSE o.place
             time == IF better THEN f.time ELSE o.time
             score == IF better THEN f.score ELSE o.score
             best == IF better THEN f.subband ELSE o.best
             all == o.subbands \cup {f.subband}
  <1>0. f.subband \in Subbands /\ f.place \in Int /\ f.time \in Int /\ f.score \in Int
    BY FitFields
  <1>1. /\ o.low \in Int /\ o.high \in Int /\ o.early \in Int /\ o.late \in Int
        /\ o.place \in Int /\ o.time \in Int /\ o.score \in Int /\ o.best \in Subbands
        /\ o.id \in Nat /\ o.subbands \in SUBSET Subbands
    BY DEF ObservationType
  <1>2. /\ low \in Int /\ low <= o.low /\ low <= f.place
        /\ high \in Int /\ high >= o.high /\ high >= f.place
        /\ early \in Int /\ early <= o.early /\ early <= f.time
        /\ late \in Int /\ late >= o.late /\ late >= f.time
    BY <1>0, <1>1, OfTwo
  <1>3. high - low <= PlaceTolerance
    <2>1. Spread(o.low, o.high, f.place) <= PlaceTolerance
      BY DEF Agrees
    <2>2. PlaceTolerance \in Int
      BY ObservationsAssumption
    <2> QED BY <2>1, <2>2, <1>0, <1>1, SpreadBounds, Zenon
  <1>4. late - early <= TimeTolerance
    <2>1. Spread(o.early, o.late, f.time) <= TimeTolerance
      BY DEF Agrees
    <2>2. TimeTolerance \in Int
      BY ObservationsAssumption
    <2> QED BY <2>1, <2>2, <1>0, <1>1, SpreadBounds, Zenon
  <1>5. /\ place \in Int /\ time \in Int /\ score \in Int /\ best \in Subbands
        /\ all \in SUBSET Subbands /\ score >= o.score /\ score >= f.score
    BY <1>0, <1>1
  <1>6. m = [o EXCEPT !.place = place, !.time = time, !.score = score, !.best = best,
                      !.subbands = all, !.low = low, !.high = high,
                      !.early = early, !.late = late]
    BY DEF Merged
  <1>7. \/ place = f.place /\ time = f.time /\ best = f.subband /\ score = f.score
        \/ place = o.place /\ time = o.time /\ best = o.best /\ score = o.score
    OBVIOUS
  <1>b. all = o.subbands \cup {f.subband} /\ f.subband \notin o.subbands
    BY DEF Agrees
  <1> HIDE DEF m, low, high, early, late, place, time, score, best, all, better
  <1>8. m \in ObservationType
    BY <1>2, <1>5, <1>6 DEF ObservationType
  <1>9. /\ m.id = o.id /\ m.subbands = all /\ m.best = best /\ m.place = place
        /\ m.time = time /\ m.score = score /\ m.low = low /\ m.high = high
        /\ m.early = early /\ m.late = late
    BY <1>6 DEF ObservationType
  <1>10. r \in ReportType /\ r.id = o.id /\ r.fit = f
    BY <1>1 DEF ReportType
  <1> HIDE DEF r
  <1>11. /\ DOMAIN reports = 1 .. Len(reports) /\ Len(reports) \in Nat
         /\ DOMAIN longer = 1 .. Len(reports) + 1
         /\ \A k \in 1 .. Len(reports) : longer[k] = reports[k]
         /\ longer[Len(reports) + 1] = r
    BY <1>10, Appended
  <1> HIDE DEF longer
  <1>12. \A k \in DOMAIN longer :
            \/ k \in DOMAIN reports /\ longer[k] = reports[k]
            \/ k = Len(reports) + 1 /\ longer[k] = r
    <2>1. \A k \in 1 .. Len(reports) + 1 : k \in 1 .. Len(reports) \/ k = Len(reports) + 1
      BY <1>11
    <2> QED BY <2>1, <1>11
  <1>13. /\ \A k \in DOMAIN reports : k \in DOMAIN longer /\ longer[k] = reports[k]
         /\ Len(reports) + 1 \in DOMAIN longer /\ longer[Len(reports) + 1] = r
    BY <1>11
  <1>14. Narrow(m)
    BY <1>3, <1>4, <1>9 DEF Narrow
  <1>15. ASSUME NEW g \in Fits, Covers(o, g) PROVE Covers(m, g)
    <2>1. g.place \in Int /\ g.time \in Int /\ g.score \in Int
      BY FitFields
    <2>2. g.subband \in m.subbands
      BY <1>15, <1>9, <1>b DEF Covers
    <2>3. g.score <= m.score
      BY <1>15, <1>9, <1>5, <1>1, <2>1 DEF Covers
    <2>4. m.low <= g.place /\ g.place <= m.high
      <3>1. o.low <= g.place /\ g.place <= o.high
        BY <1>15 DEF Covers
      <3>2. low <= g.place /\ g.place <= high
        <4>1. /\ low \in Int /\ o.low \in Int /\ g.place \in Int
              /\ low <= o.low /\ o.low <= g.place
          BY <3>1, <1>1, <1>2, <2>1
        <4>2. /\ high \in Int /\ o.high \in Int /\ g.place \in Int
              /\ high >= o.high /\ g.place <= o.high
          BY <3>1, <1>1, <1>2, <2>1
        <4>3. low <= g.place
          BY <4>1
        <4>4. g.place <= high
          BY <4>2
        <4> QED BY <4>3, <4>4
      <3> QED BY <3>2, <1>9
    <2>5. m.early <= g.time /\ g.time <= m.late
      <3>1. o.early <= g.time /\ g.time <= o.late
        BY <1>15 DEF Covers
      <3>2. early <= g.time /\ g.time <= late
        <4>1. /\ early \in Int /\ o.early \in Int /\ g.time \in Int
              /\ early <= o.early /\ o.early <= g.time
          BY <3>1, <1>1, <1>2, <2>1
        <4>2. /\ late \in Int /\ o.late \in Int /\ g.time \in Int
              /\ late >= o.late /\ g.time <= o.late
          BY <3>1, <1>1, <1>2, <2>1
        <4>3. early <= g.time
          BY <4>1
        <4>4. g.time <= late
          BY <4>2
        <4> QED BY <4>3, <4>4
      <3> QED BY <3>2, <1>9
    <2> QED BY <2>2, <2>3, <2>4, <2>5 DEF Covers
  <1>16. Covers(m, f)
    <2>1. f.subband \in m.subbands
      BY <1>9, <1>b
    <2>2. f.score <= m.score /\ m.low <= f.place /\ f.place <= m.high
          /\ m.early <= f.time /\ f.time <= m.late
      BY <1>0, <1>2, <1>5, <1>9
    <2> QED BY <2>1, <2>2 DEF Covers
  <1>c. \A k \in DOMAIN reports : reports[k].fit \in Fits
    BY ReportFields
  <1>17. \A k \in DOMAIN longer : longer[k].id = m.id => Covers(m, longer[k].fit)
    BY <1>9, <1>10, <1>12, <1>15, <1>16, <1>c DEF Describes
  <1>18. ASSUME NEW s \in m.subbands
         PROVE  \E k \in DOMAIN longer : longer[k].id = m.id /\ longer[k].fit.subband = s
    <2>1. CASE s = f.subband
      BY <2>1, <1>9, <1>10, <1>13
    <2>2. CASE s \in o.subbands
      <3>1. PICK k \in DOMAIN reports : reports[k].id = o.id /\ reports[k].fit.subband = s
        BY <2>2 DEF Describes
      <3> QED BY <3>1, <1>9, <1>13
    <2> QED BY <2>1, <2>2, <1>9, <1>b
  <1>19. \A k \in DOMAIN reports : reports[k].id = o.id => reports[k].fit.subband # f.subband
    BY <1>b DEF Describes, Covers
  <1>20. \A j, k \in DOMAIN longer :
            (longer[j].id = m.id /\ longer[k].id = m.id
               /\ longer[j].fit.subband = longer[k].fit.subband) => j = k
    BY <1>9, <1>10, <1>12, <1>19 DEF Describes
  <1>21. \E k \in DOMAIN longer : longer[k].id = m.id /\ IsBest(m, longer[k].fit)
    <2>1. CASE place = f.place /\ time = f.time /\ best = f.subband /\ score = f.score
      BY <2>1, <1>9, <1>10, <1>13 DEF IsBest
    <2>2. CASE place = o.place /\ time = o.time /\ best = o.best /\ score = o.score
      <3>1. PICK k \in DOMAIN reports : reports[k].id = o.id /\ IsBest(o, reports[k].fit)
        BY DEF Describes
      <3> QED BY <2>2, <3>1, <1>9, <1>13 DEF IsBest
    <2> QED BY <2>1, <2>2, <1>7
  <1>22. Describes(m, longer)
    BY <1>14, <1>17, <1>18, <1>20, <1>21 DEF Describes
  <1> QED BY <1>8, <1>9, <1>22 DEF m, r, longer

-----------------------------------------------------------------------------
(* The association is an invariant.                                        *)

\* Ids grow: with the position of an observation, and past every id given.
IdsGrow ==
  /\ \A k \in DOMAIN fits : fits[k].id < nextId
  /\ \A i \in DOMAIN observed : observed[i].id < nextId
  /\ \A i, j \in DOMAIN observed : j < i => observed[j].id < observed[i].id
ObservationsInv ==
  /\ observed \in Seq(ObservationType) /\ fits \in Seq(ReportType) /\ nextId \in Nat
  /\ IdsGrow
  /\ \A i \in DOMAIN observed : Describes(observed[i], fits)

LEMMA ObservationsInvInit == ObservationsInit => ObservationsInv
  BY DEF ObservationsInit, ObservationsInv, IdsGrow

\* A fit that joins observation i.
LEMMA JoinKeepsInv ==
  ASSUME ObservationsInv, NEW f \in Fits, NEW i \in DOMAIN observed, Agrees(observed[i], f),
         observed' = [observed EXCEPT ![i] = Merged(observed[i], f)],
         fits' = Append(fits, [fit |-> f, id |-> observed[i].id]),
         nextId' = nextId
  PROVE  ObservationsInv'
  <1> DEFINE o == observed[i]
             m == Merged(o, f)
             r == [fit |-> f, id |-> o.id]
  <1>1. /\ observed \in Seq(ObservationType) /\ fits \in Seq(ReportType) /\ nextId \in Nat
        /\ IdsGrow /\ Describes(o, fits)
    BY DEF ObservationsInv
  <1>2. \A j \in DOMAIN observed : observed[j] \in ObservationType /\ observed[j].id \in Nat
    <2>1. \A j \in DOMAIN observed : observed[j] \in ObservationType
      BY <1>1, ElementOfSeq, LenProperties
    <2> QED BY <2>1 DEF ObservationType
  <1>3. m \in ObservationType /\ m.id = o.id /\ Describes(m, Append(fits, r))
    BY <1>1, <1>2, JoiningReport
  <1>4. r \in ReportType /\ r.id = o.id
    BY <1>2 DEF ReportType
  <1>5. observed' = [observed EXCEPT ![i] = m] /\ fits' = Append(fits, r)
    OBVIOUS
  <1> HIDE DEF m, r
  <1>6. /\ fits' \in Seq(ReportType) /\ DOMAIN fits = 1 .. Len(fits) /\ Len(fits) \in Nat
        /\ DOMAIN fits' = 1 .. Len(fits) + 1
        /\ \A k \in 1 .. Len(fits) : fits'[k] = fits[k]
        /\ fits'[Len(fits) + 1] = r
    BY <1>1, <1>4, <1>5, Appended
  <1>7. /\ observed' \in Seq(ObservationType) /\ DOMAIN observed' = DOMAIN observed
        /\ observed'[i] = m /\ \A j \in DOMAIN observed : j # i => observed'[j] = observed[j]
    BY <1>1, <1>3, <1>5, ExceptSeq
  <1>8. \A j \in DOMAIN observed' : observed'[j].id = observed[j].id
    BY <1>3, <1>7
  <1>9. IdsGrow'
    <2>1. o.id < nextId
      BY <1>1 DEF IdsGrow
    <2>2. \A k \in DOMAIN fits' : k \in 1 .. Len(fits) \/ k = Len(fits) + 1
      BY <1>6
    <2>3. \A k \in DOMAIN fits' : fits'[k].id < nextId
      BY <2>1, <2>2, <1>1, <1>4, <1>6 DEF IdsGrow
    <2> QED BY <2>3, <1>1, <1>7, <1>8 DEF IdsGrow
  <1>10. ASSUME NEW j \in DOMAIN observed' PROVE Describes(observed'[j], fits')
    <2>1. CASE j = i
      BY <2>1, <1>3, <1>5, <1>7
    <2>2. CASE j # i
      <3>1. observed'[j] = observed[j] /\ j \in DOMAIN observed
        BY <2>2, <1>7
      <3>2. j \in Int /\ i \in Int
        BY <1>1, <3>1, LenProperties
      <3>3. j < i \/ i < j
        BY <2>2, <3>2
      <3>4. observed[j].id # o.id
        BY <1>1, <1>2, <3>1, <3>3 DEF IdsGrow
      <3>5. Describes(observed[j], fits)
        BY <3>1 DEF ObservationsInv
      <3> QED BY <1>1, <1>4, <1>5, <3>1, <3>4, <3>5, OtherReport
    <2> QED BY <2>1, <2>2
  <1> QED BY <1>1, <1>6, <1>7, <1>9, <1>10 DEF ObservationsInv

\* A fit that becomes an observation, the oldest one leaving a full list.
LEMMA BeginKeepsInv ==
  ASSUME ObservationsInv, NEW f \in Fits, NEW ambiguous \in BOOLEAN, NEW kept,
         kept = observed \/ (Len(observed) = Capacity /\ kept = Tail(observed)),
         observed' = Append(kept, NewObservation(f, ambiguous)),
         fits' = Append(fits, [fit |-> f, id |-> nextId]),
         nextId' = nextId + 1
  PROVE  ObservationsInv'
  <1> DEFINE n == NewObservation(f, ambiguous)
             r == [fit |-> f, id |-> nextId]
  <1>1. /\ observed \in Seq(ObservationType) /\ fits \in Seq(ReportType) /\ nextId \in Nat
        /\ IdsGrow
    BY DEF ObservationsInv
  <1>2. \A k \in DOMAIN fits : fits[k].id < nextId
    BY <1>1 DEF IdsGrow
  <1>3. n \in ObservationType /\ n.id = nextId /\ Describes(n, Append(fits, r))
    BY <1>1, <1>2, FirstReport
  <1>4. r \in ReportType /\ r.id = nextId
    BY <1>1 DEF ReportType
  <1>5. observed' = Append(kept, n) /\ fits' = Append(fits, r)
    OBVIOUS
  <1> HIDE DEF n, r
  <1>6. /\ fits' \in Seq(ReportType) /\ DOMAIN fits = 1 .. Len(fits) /\ Len(fits) \in Nat
        /\ DOMAIN fits' = 1 .. Len(fits) + 1
        /\ \A k \in 1 .. Len(fits) : fits'[k] = fits[k]
        /\ fits'[Len(fits) + 1] = r
    BY <1>1, <1>4, <1>5, Appended
  <1>7. Len(observed) \in Nat /\ DOMAIN observed = 1 .. Len(observed)
    BY <1>1, LenProperties
  <1>8. \E d \in {0, 1} : /\ kept \in Seq(ObservationType) /\ d <= Len(observed)
                          /\ Len(kept) = Len(observed) - d
                          /\ \A j \in 1 .. Len(kept) : kept[j] = observed[j + d]
    <2>1. CASE kept = observed
      <3>1. \A j \in 1 .. Len(observed) : j + 0 = j
        BY <1>7
      <3>2. 0 <= Len(observed) /\ Len(observed) = Len(observed) - 0
        BY <1>7
      <3> QED BY <2>1, <1>1, <3>1, <3>2
    <2>2. CASE Len(observed) = Capacity /\ kept = Tail(observed)
      <3>1. observed # <<>>
        BY <2>2, ObservationsAssumption
      <3>2. /\ kept \in Seq(ObservationType) /\ Len(kept) = Len(observed) - 1
            /\ \A j \in 1 .. Len(kept) : kept[j] = observed[j + 1]
        BY <2>2, <3>1, <1>1, HeadTailProperties
      <3>3. 1 <= Len(observed)
        BY <2>2, ObservationsAssumption
      <3> QED BY <3>2, <3>3
    <2> QED BY <2>1, <2>2
  <1>9. PICK d \in {0, 1} : /\ kept \in Seq(ObservationType) /\ d <= Len(observed)
                            /\ Len(kept) = Len(observed) - d
                            /\ \A j \in 1 .. Len(kept) : kept[j] = observed[j + d]
    BY <1>8
  <1>10. /\ observed' \in Seq(ObservationType) /\ DOMAIN observed' = 1 .. Len(kept) + 1
         /\ \A j \in 1 .. Len(kept) : observed'[j] = kept[j]
         /\ observed'[Len(kept) + 1] = n
    BY <1>3, <1>5, <1>9, AppendProperties
  <1>11. \A j \in DOMAIN observed' :
            \/ j \in 1 .. Len(kept) /\ observed'[j] = observed[j + d] /\ j + d \in DOMAIN observed
            \/ j = Len(kept) + 1 /\ observed'[j] = n
    <2>1. \A j \in 1 .. Len(kept) + 1 : j \in 1 .. Len(kept) \/ j = Len(kept) + 1
      BY <1>7, <1>9
    <2>2. \A j \in 1 .. Len(kept) : j + d \in DOMAIN observed
      BY <1>7, <1>9
    <2> QED BY <2>1, <2>2, <1>9, <1>10
  <1>12. \A k \in DOMAIN observed : observed[k].id < nextId /\ observed[k].id \in Nat
    <2>1. \A j \in DOMAIN observed : observed[j] \in ObservationType
      BY <1>1, ElementOfSeq, LenProperties
    <2> QED BY <2>1, <1>1 DEF ObservationType, IdsGrow
  <1>13. IdsGrow'
    <2>1. \A k \in DOMAIN fits' : k \in 1 .. Len(fits) \/ k = Len(fits) + 1
      BY <1>6
    <2>a. \A k \in DOMAIN fits : fits[k].id \in Nat
      BY <1>1, ReportFields
    <2>2. \A k \in DOMAIN fits' : fits'[k].id < nextId'
      BY <2>1, <2>a, <1>1, <1>2, <1>4, <1>6
    <2>3. \A j \in DOMAIN observed' : observed'[j].id < nextId'
      BY <1>1, <1>3, <1>11, <1>12
    <2>4. ASSUME NEW i \in DOMAIN observed', NEW j \in DOMAIN observed', j < i
          PROVE  observed'[j].id < observed'[i].id
      <3>1. j \in 1 .. Len(kept) /\ observed'[j] = observed[j + d] /\ j + d \in DOMAIN observed
            /\ i \in Int /\ j \in Int /\ d \in Int
        BY <2>4, <1>7, <1>9, <1>10, <1>11
      <3>2. CASE observed'[i] = n
        BY <3>1, <3>2, <1>3, <1>12
      <3>3. CASE observed'[i] = observed[i + d] /\ i + d \in DOMAIN observed
        <4>1. j + d < i + d
          BY <2>4, <3>1
        <4> QED BY <4>1, <3>1, <3>3, <1>1 DEF IdsGrow
      <3> QED BY <3>2, <3>3, <1>11
    <2> QED BY <2>2, <2>3, <2>4 DEF IdsGrow
  <1>14. ASSUME NEW j \in DOMAIN observed' PROVE Describes(observed'[j], fits')
    <2>1. CASE observed'[j] = n
      BY <2>1, <1>3, <1>5
    <2>2. CASE observed'[j] = observed[j + d] /\ j + d \in DOMAIN observed
      <3>1. Describes(observed[j + d], fits)
        BY <2>2 DEF ObservationsInv
      <3>2. r.id # observed[j + d].id
        BY <2>2, <1>1, <1>4, <1>12
      <3> QED BY <1>1, <1>4, <1>5, <2>2, <3>1, <3>2, OtherReport
    <2> QED BY <2>1, <2>2, <1>11
  <1>15. nextId' \in Nat
    BY <1>1
  <1> QED BY <1>6, <1>10, <1>13, <1>14, <1>15 DEF ObservationsInv

LEMMA ObservationsStep == ObservationsInv /\ [ObservationsNext]_ovars => ObservationsInv'
  <1> SUFFICES ASSUME ObservationsInv, [ObservationsNext]_ovars PROVE ObservationsInv'
    OBVIOUS
  <1>1. CASE UNCHANGED ovars
    BY <1>1 DEF ObservationsInv, IdsGrow, ovars
  <1>2. CASE ObservationsNext
    <2>1. PICK f \in Fits : Associate(f)
      BY <1>2 DEF ObservationsNext
    <2> DEFINE matches == {i \in DOMAIN observed : Agrees(observed[i], f)}
               kept == IF Len(observed) = Capacity THEN Tail(observed) ELSE observed
    <2>2. \/ \E i \in matches :
               /\ observed' = [observed EXCEPT ![i] = Merged(observed[i], f)]
               /\ fits' = Append(fits, [fit |-> f, id |-> observed[i].id])
               /\ nextId' = nextId
          \/ /\ observed' = Append(kept, NewObservation(f, Cardinality(matches) > 1))
             /\ fits' = Append(fits, [fit |-> f, id |-> nextId])
             /\ nextId' = nextId + 1
      BY <2>1, Zenon DEF Associate
    <2>3. CASE \E i \in matches :
               /\ observed' = [observed EXCEPT ![i] = Merged(observed[i], f)]
               /\ fits' = Append(fits, [fit |-> f, id |-> observed[i].id])
               /\ nextId' = nextId
      BY <2>3, JoinKeepsInv
    <2>4. CASE /\ observed' = Append(kept, NewObservation(f, Cardinality(matches) > 1))
               /\ fits' = Append(fits, [fit |-> f, id |-> nextId])
               /\ nextId' = nextId + 1
      <3>1. (Cardinality(matches) > 1) \in BOOLEAN
        OBVIOUS
      <3>2. kept = observed \/ (Len(observed) = Capacity /\ kept = Tail(observed))
        OBVIOUS
      <3> HIDE DEF kept, matches
      <3> QED BY <2>4, <3>1, <3>2, BeginKeepsInv
    <2> QED BY <2>2, <2>3, <2>4
  <1> QED BY <1>1, <1>2

\* What the bounds say of each pair, and the count of fits as a bijection with
\* the subbands.
LEMMA ObservationsInvImplies == ObservationsInv => ObservationsFaithful
  <1> SUFFICES ASSUME ObservationsInv, NEW i \in DOMAIN observed
               PROVE  LET o == observed[i]
                          mine == {fits[k].fit : k \in {j \in DOMAIN fits : fits[j].id = o.id}}
                      IN /\ o.subbands = {f.subband : f \in mine}
                         /\ Cardinality(o.subbands)
                              = Cardinality({j \in DOMAIN fits : fits[j].id = o.id})
                         /\ \E f \in mine : /\ f.place = o.place /\ f.time = o.time
                                            /\ f.subband = o.best /\ f.score = o.score
                         /\ \A f, g \in mine : /\ f.score <= o.score
                                               /\ f.place - g.place <= PlaceTolerance
                                               /\ f.time - g.time <= TimeTolerance
                         /\ \A j \in DOMAIN observed : j < i => observed[j].id < o.id
    BY DEF ObservationsFaithful
  <1> DEFINE o == observed[i]
             J == {j \in DOMAIN fits : fits[j].id = o.id}
             mine == {fits[k].fit : k \in J}
  <1>1. /\ Describes(o, fits) /\ IdsGrow /\ fits \in Seq(ReportType)
        /\ observed \in Seq(ObservationType)
    BY DEF ObservationsInv
  <1>2. o \in ObservationType
    BY <1>1, ElementOfSeq, LenProperties
  <1>3. \A k \in DOMAIN fits : fits[k].fit \in Fits
    BY <1>1, ReportFields
  <1>4. \A f \in mine : f \in Fits /\ Covers(o, f)
    BY <1>1, <1>3 DEF Describes
  <1>5. \A s \in o.subbands : \E k \in J : fits[k].fit.subband = s
    BY <1>1 DEF Describes
  <1>6. o.subbands = {f.subband : f \in mine}
    BY <1>4, <1>5 DEF Covers
  <1>7. Cardinality(o.subbands) = Cardinality(J)
    <2> DEFINE g == [j \in J |-> fits[j].fit.subband]
    <2>1. g \in [J -> o.subbands]
      BY <1>6
    <2>2. \A j, k \in J : g[j] = g[k] => j = k
      BY <1>1 DEF Describes
    <2>3. \A s \in o.subbands : \E k \in J : g[k] = s
      BY <1>5
    <2>4. IsFiniteSet(J)
      <3>1. Len(fits) \in Nat /\ DOMAIN fits = 1 .. Len(fits)
        BY <1>1, LenProperties
      <3>2. J \in SUBSET (1 .. Len(fits))
        BY <3>1
      <3>3. 1 \in Int /\ Len(fits) \in Int
        BY <3>1
      <3> HIDE DEF J
      <3>4. IsFiniteSet(1 .. Len(fits))
        BY <3>3, FS_Interval
      <3> QED BY <3>2, <3>4, FS_Subset
    <2> HIDE DEF g, J, o
    <2>5. g \in Bijection(J, o.subbands)
      BY <2>1, <2>2, <2>3 DEF Bijection, Injection, Surjection, IsInjective
    <2>6. ExistsBijection(J, o.subbands)
      BY <2>5 DEF ExistsBijection
    <2> QED BY <2>4, <2>6, FS_Bijection
  <1>8. \E f \in mine : f.place = o.place /\ f.time = o.time /\ f.subband = o.best
                        /\ f.score = o.score
    BY <1>1 DEF Describes, IsBest
  <1>9. ASSUME NEW f \in mine, NEW g \in mine
        PROVE  f.score <= o.score /\ f.place - g.place <= PlaceTolerance
               /\ f.time - g.time <= TimeTolerance
    <2>1. /\ f.place \in Int /\ f.time \in Int /\ g.place \in Int /\ g.time \in Int
      BY <1>4, FitFields
    <2>2. /\ o.low \in Int /\ o.high \in Int /\ o.early \in Int /\ o.late \in Int
      BY <1>2 DEF ObservationType
    <2>3. /\ f.score <= o.score /\ f.place <= o.high /\ o.low <= g.place
          /\ f.time <= o.late /\ o.early <= g.time
      BY <1>4 DEF Covers
    <2>4. o.high - o.low <= PlaceTolerance /\ o.late - o.early <= TimeTolerance
      BY <1>1 DEF Describes, Narrow
    <2> HIDE DEF o, mine
    <2> QED BY <2>1, <2>2, <2>3, <2>4, ObservationsAssumption
  <1>10. \A j \in DOMAIN observed : j < i => observed[j].id < o.id
    BY <1>1 DEF IdsGrow
  <1> QED BY <1>6, <1>7, <1>8, <1>9, <1>10

LEMMA ObservationsInvHolds == ObservationsSpec => []ObservationsInv
  BY ObservationsInvInit, ObservationsStep, PTL DEF ObservationsSpec

\* Each recent observation describes exactly the fits that were given its id
\* (ObservationsFaithful; add() of discovery_observations.hpp), for any
\* numbers of subbands, fits and kept observations and any tolerances.
THEOREM ObservationsAreFaithful == ObservationsSpec => []ObservationsFaithful
  BY ObservationsInvHolds, ObservationsInvImplies, PTL

-----------------------------------------------------------------------------
(* The decoder: the ring, and what the active decoders were fed.           *)

Sample == Nat \X Nat
ActiveType == [wave : Waveforms, delimiter : Nat, from : Nat, deadline : Nat,
               input : Seq(Sample)]

DecoderTypes ==
  /\ ready \in BOOLEAN /\ begin \in Nat /\ end \in Nat /\ segment \in Nat
  /\ history = [i \in 0 .. History - 1 |-> history[i]]
  /\ active \in Seq(ActiveType)
  /\ count \in [Counters -> Nat]

\* Every retained coordinate is found where its ring slot is computed.
RingHolds == ready => \A c \in begin .. end - 1 : history[c % History] = <<segment, c>>

\* A decoder has been fed everything from its start to coordinate e, and its
\* deadline is still ahead.
FedTo(d, s, e) ==
  d.from <= e /\ e < d.deadline /\ d.input = Samples(s, d.from, e - d.from)
ActiveFed == \A i \in DOMAIN active : FedTo(active[i], segment, end)

\* CandidatesAccounted for given counters and a given number of decoders.
Tally(c, k) ==
  c["candidates"] = c["unsupported"] + c["outside"] + c["duplicate"]
    + c["excluded"] + c["limit"] + c["misses"] + c["timeouts"]
    + c["completed"] + c["abandoned"] + k

DecoderInv ==
  /\ DecoderTypes /\ RingHolds /\ ActiveFed
  /\ ~ready => active = <<>>
  /\ Tally(count, Len(active))

LEMMA DecoderInvInit == DecoderInit => DecoderInv
  <1> SUFFICES ASSUME DecoderInit PROVE DecoderInv
    OBVIOUS
  <1>1. /\ ready = FALSE /\ begin = 0 /\ end = 0 /\ segment = 0 /\ active = <<>>
        /\ history = [i \in 0 .. History - 1 |-> NoSample] /\ count = [k \in Counters |-> 0]
    BY DEF DecoderInit
  <1>2. DecoderTypes
    <2>1. active \in Seq(ActiveType)
      BY <1>1, EmptySeq
    <2>2. count \in [Counters -> Nat]
      BY <1>1
    <2>3. history = [i \in 0 .. History - 1 |-> history[i]]
      BY <1>1
    <2> QED BY <1>1, <2>1, <2>2, <2>3 DEF DecoderTypes
  <1>3. RingHolds /\ ActiveFed
    BY <1>1 DEF RingHolds, ActiveFed
  <1>4. Tally(count, Len(active))
    BY <1>1 DEF Tally, Counters
  <1> QED BY <1>1, <1>2, <1>3, <1>4 DEF DecoderInv

\* Coordinates of the same ring slot are a whole ring apart.
LEMMA SlotsApart ==
  ASSUME NEW a \in Nat, NEW b \in Nat, a < b, a % History = b % History
  PROVE  b >= a + History
  <1> DEFINE p == a \div History
             q == b \div History
  <1>1. History \in Nat /\ History >= 1
    BY DecoderAssumption
  <1>2. p \in Int /\ q \in Int /\ a % History \in Int
    BY <1>1
  <1>3. a = History * p + (a % History) /\ b = History * q + (b % History)
    BY <1>1
  <1> HIDE DEF p, q
  <1>4. b - a = History * q - History * p
    BY <1>2, <1>3, <1>1
  <1>5. b - a = History * (q - p)
    BY <1>1, <1>2, <1>4
  <1>6. q - p >= 1
    <2>1. CASE q <= p
      <3>1. History * q <= History * p
        BY <1>1, <1>2, <2>1
      <3> QED BY <3>1, <1>1, <1>2, <1>4
    <2> QED BY <2>1, <1>2
  <1>7. History * (q - p) >= History
    BY <1>1, <1>2, <1>6
  <1> QED BY <1>1, <1>5, <1>7

LEMMA SamplesProperties ==
  ASSUME NEW s \in Nat, NEW from \in Nat, NEW n \in Nat
  PROVE  /\ Samples(s, from, n) \in Seq(Sample) /\ Len(Samples(s, from, n)) = n
         /\ \A k \in 1 .. n : Samples(s, from, n)[k] = <<s, from + k - 1>>
  <1>1. \A k \in 1 .. n : <<s, from + k - 1>> \in Sample
    BY DEF Sample
  <1>2. Samples(s, from, n) = [k \in 1 .. n |-> <<s, from + k - 1>>]
    BY DEF Samples
  <1>3. Samples(s, from, n) \in [1 .. n -> Sample]
    BY <1>1, <1>2
  <1>4. \A k \in 1 .. n : Samples(s, from, n)[k] = <<s, from + k - 1>>
    BY <1>2
  <1> DEFINE run == Samples(s, from, n)
  <1>5. run \in [1 .. n -> Sample]
    BY <1>3
  <1> HIDE DEF run
  <1>6. run \in Seq(Sample) /\ Len(run) = n
    BY <1>5
  <1> QED BY <1>4, <1>6 DEF run

\* Two runs of samples that meet are one run.
LEMMA SamplesJoin ==
  ASSUME NEW s \in Nat, NEW from \in Nat, NEW m \in Nat, NEW n \in Nat
  PROVE  Samples(s, from, m) \o Samples(s, from + m, n) = Samples(s, from, m + n)
  <1> DEFINE a == Samples(s, from, m)
             b == Samples(s, from + m, n)
             c == Samples(s, from, m + n)
  <1>0. from + m \in Nat /\ m + n \in Nat
    OBVIOUS
  <1>1. /\ a \in Seq(Sample) /\ Len(a) = m /\ \A k \in 1 .. m : a[k] = <<s, from + k - 1>>
    BY SamplesProperties
  <1>2. /\ b \in Seq(Sample) /\ Len(b) = n /\ \A k \in 1 .. n : b[k] = <<s, (from + m) + k - 1>>
    BY <1>0, SamplesProperties
  <1>3. /\ c \in Seq(Sample) /\ Len(c) = m + n
        /\ \A k \in 1 .. m + n : c[k] = <<s, from + k - 1>>
    BY <1>0, SamplesProperties
  <1> HIDE DEF a, b, c
  <1>4. /\ a \o b \in Seq(Sample) /\ Len(a \o b) = m + n
        /\ \A k \in 1 .. m + n : (a \o b)[k] = IF k <= m THEN a[k] ELSE b[k - m]
    BY <1>1, <1>2, ConcatProperties
  <1>5. ASSUME NEW k \in 1 .. m + n PROVE (a \o b)[k] = c[k]
    <2>1. CASE k <= m
      <3>1. k \in 1 .. m
        BY <2>1
      <3> QED BY <2>1, <3>1, <1>1, <1>3, <1>4
    <2>2. CASE k > m
      <3>1. k - m \in 1 .. n /\ ((from + m) + (k - m)) - 1 = (from + k) - 1 /\ ~(k <= m)
        BY <2>2
      <3>2. b[k - m] = <<s, (from + m) + (k - m) - 1>>
        BY <3>1, <1>2
      <3>3. (from + m) + (k - m) - 1 = from + k - 1
        OBVIOUS
      <3> QED BY <3>1, <3>2, <3>3, <1>3, <1>4
    <2>3. k <= m \/ k > m
      OBVIOUS
    <2> QED BY <2>1, <2>2, <2>3
  <1>6. a \o b = c
    BY <1>3, <1>4, <1>5, SeqEqual
  <1> QED BY <1>6 DEF a, b, c

Meets(s, from, m, n) ==
  Samples(s, from, m) \o Samples(s, from + m, n) = Samples(s, from, m + n)
LEMMA SamplesMeet == \A s, from, m, n \in Nat : Meets(s, from, m, n)
  BY SamplesJoin, Zenon DEF Meets

Continued(s, from, first, n) ==
  Samples(s, from, first - from) \o Samples(s, first, n) = Samples(s, from, (first + n) - from)
LEMMA SamplesContinue ==
  ASSUME NEW s \in Nat, NEW from \in Nat, NEW first \in Nat, NEW n \in Nat, from <= first
  PROVE  Continued(s, from, first, n)
  <1> DEFINE m == first - from
  <1>1. m \in Nat /\ from + m = first /\ m + n = (first + n) - from
    OBVIOUS
  <1> HIDE DEF m
  <1>2. Meets(s, from, m, n)
    BY <1>1, SamplesMeet
  <1>3. Samples(s, from, m) \o Samples(s, from + m, n) = Samples(s, from, m + n)
    BY <1>2 DEF Meets
  <1>4. Samples(s, from, m) \o Samples(s, first, n) = Samples(s, from, (first + n) - from)
    BY <1>1, <1>3
  <1> QED BY <1>4 DEF m, Continued

\* A set of places in three parts.
InParts(S, F, O, L) == F \cup O \cup L = S /\ F \cap O = {} /\ (F \cup O) \cap L = {}
LEMMA ThreeParts ==
  ASSUME NEW n \in Nat, NEW F, NEW O, NEW L, InParts(1 .. n, F, O, L)
  PROVE  /\ Cardinality(F) \in Nat /\ Cardinality(O) \in Nat /\ Cardinality(L) \in Nat
         /\ Cardinality(F) + Cardinality(O) + Cardinality(L) = n
  <1>0. F \cup O \cup L = 1 .. n /\ F \cap O = {} /\ (F \cup O) \cap L = {}
    BY DEF InParts
  <1>1. IsFiniteSet(1 .. n) /\ Cardinality(1 .. n) = n
    BY FS_Interval
  <1>2. IsFiniteSet(F) /\ IsFiniteSet(O) /\ IsFiniteSet(L) /\ IsFiniteSet(F \cup O)
    BY <1>0, <1>1, FS_Subset
  <1>3. /\ Cardinality(F) \in Nat /\ Cardinality(O) \in Nat /\ Cardinality(L) \in Nat
        /\ Cardinality(F \cup O) \in Nat
    BY <1>2, FS_CardinalityType
  <1>4. Cardinality({}) = 0
    BY FS_EmptySet
  <1>5. Cardinality(F \cup O) = Cardinality(F) + Cardinality(O) - 0
    BY <1>0, <1>2, <1>4, FS_Union
  <1>6. Cardinality((F \cup O) \cup L) = Cardinality(F \cup O) + Cardinality(L) - 0
    BY <1>0, <1>2, <1>4, FS_Union
  <1>7. Cardinality((F \cup O) \cup L) = n
    BY <1>0, <1>1, Zenon
  <1>8. \A a, b, c, d \in Nat : (d = a + b - 0 /\ n = d + c - 0) => a + b + c = n
    OBVIOUS
  <1> QED BY <1>3, <1>5, <1>6, <1>7, <1>8

\* A block of n samples at coordinate first: every decoder takes what is before
\* its deadline; those that go on have taken all of it.
TakeUp(d, s, first, n) == [d EXCEPT !.input = d.input \o Samples(s, first, Taken(d, first, n))]

LEMMA TakeUpProperties ==
  ASSUME NEW d \in ActiveType, NEW s \in Nat, NEW first \in Nat, NEW n \in Nat,
         FedTo(d, s, first)
  PROVE  /\ TakeUp(d, s, first, n) \in ActiveType
         /\ TakeUp(d, s, first, n).deadline = d.deadline
         /\ first + n < d.deadline => FedTo(TakeUp(d, s, first, n), s, first + n)
  <1> DEFINE t == Taken(d, first, n)
             u == TakeUp(d, s, first, n)
             more == Samples(s, first, t)
             longer == d.input \o more
  <1>1. /\ d.from \in Nat /\ d.deadline \in Nat /\ d.input \in Seq(Sample)
    BY DEF ActiveType
  <1>2. d.from <= first /\ first < d.deadline /\ d.input = Samples(s, d.from, first - d.from)
    BY DEF FedTo
  <1>3. t \in Nat /\ (first + n < d.deadline => t = n)
    BY <1>1, <1>2 DEF Taken, Lesser
  <1>4. more \in Seq(Sample)
    BY <1>3, SamplesProperties
  <1> HIDE DEF t
  <1>5. longer \in Seq(Sample)
    <2> HIDE DEF more
    <2> QED BY <1>1, <1>4, ConcatProperties
  <1>6. first + n < d.deadline => longer = Samples(s, d.from, (first + n) - d.from)
    <2> SUFFICES ASSUME first + n < d.deadline
                 PROVE longer = Samples(s, d.from, (first + n) - d.from)
      OBVIOUS
    <2>1. t = n
      BY <1>3
    <2>2. d.input = Samples(s, d.from, first - d.from) /\ more = Samples(s, first, n)
      BY <1>2, <2>1
    <2>3. Continued(s, d.from, first, n)
      BY <1>1, <1>2, SamplesContinue
    <2> QED BY <2>2, <2>3 DEF Continued
  <1>7. u = [d EXCEPT !.input = longer]
    BY DEF TakeUp, t
  <1> HIDE DEF u, longer, more
  <1>8. u \in ActiveType /\ u.deadline = d.deadline /\ u.from = d.from /\ u.input = longer
    BY <1>5, <1>7 DEF ActiveType
  <1>9. first + n < d.deadline => FedTo(u, s, first + n)
    <2>1. d.from <= first + n
      BY <1>1, <1>2
    <2> QED BY <1>6, <1>8, <2>1 DEF FedTo
  <1> QED BY <1>8, <1>9 DEF u

PickedWell(A, t, P) ==
  /\ Picked(t, P) \in Seq(A) /\ Len(Picked(t, P)) = Cardinality(P)
  /\ \A k \in DOMAIN Picked(t, P) : \E i \in P : Picked(t, P)[k] = t[i]

LEMMA PickedDecoders ==
  \A t \in Seq(ActiveType) : \A P \in SUBSET (1 .. Len(t)) : PickedWell(ActiveType, t, P)
  <1>1. \A A : \A u \in Seq(A) : \A Q \in SUBSET (1 .. Len(u)) : PickedWell(A, u, Q)
    BY PickedProperties, Zenon DEF PickedWell
  <1> QED BY <1>1, Zenon

BlockTaken(olds, fed, L, s, first, n) ==
  /\ \A i \in DOMAIN olds : FedTo(olds[i], s, first)
  /\ fed = [i \in DOMAIN olds |-> TakeUp(olds[i], s, first, n)]
  /\ \A i \in L : first + n < fed[i].deadline

FedResult(olds, fed, F, O, L, s, final) ==
  /\ Picked(fed, L) \in Seq(ActiveType)
  /\ \A k \in DOMAIN Picked(fed, L) : FedTo(Picked(fed, L)[k], s, final)
  /\ Cardinality(F) \in Nat /\ Cardinality(O) \in Nat /\ Len(Picked(fed, L)) \in Nat
  /\ Cardinality(F) + Cardinality(O) + Len(Picked(fed, L)) = Len(olds)

LEMMA FedDecoders ==
  ASSUME NEW olds \in Seq(ActiveType), NEW s \in Nat, NEW first \in Nat, NEW n \in Nat,
         NEW fed, NEW F, NEW O, NEW L, BlockTaken(olds, fed, L, s, first, n),
         InParts(DOMAIN olds, F, O, L)
  PROVE  FedResult(olds, fed, F, O, L, s, first + n)
  <1>1. Len(olds) \in Nat /\ DOMAIN olds = 1 .. Len(olds)
        /\ \A i \in 1 .. Len(olds) : olds[i] \in ActiveType
    BY ElementOfSeq, LenProperties
  <1>2. DOMAIN fed = 1 .. Len(olds) /\ \A i \in 1 .. Len(olds) : fed[i] = TakeUp(olds[i], s, first, n)
    BY <1>1 DEF BlockTaken
  <1>3. ASSUME NEW i \in 1 .. Len(olds)
        PROVE  /\ fed[i] \in ActiveType /\ fed[i].deadline = olds[i].deadline
               /\ first + n < fed[i].deadline => FedTo(fed[i], s, first + n)
    <2>1. FedTo(olds[i], s, first) /\ olds[i] \in ActiveType
      BY <1>1 DEF BlockTaken
    <2>2. /\ TakeUp(olds[i], s, first, n) \in ActiveType
          /\ TakeUp(olds[i], s, first, n).deadline = olds[i].deadline
          /\ first + n < olds[i].deadline => FedTo(TakeUp(olds[i], s, first, n), s, first + n)
      BY <2>1, TakeUpProperties
    <2> QED BY <1>2, <2>2
  <1>4. fed \in Seq(ActiveType) /\ Len(fed) = Len(olds)
    <2>1. fed \in [1 .. Len(olds) -> ActiveType]
      <3>1. fed = [i \in 1 .. Len(olds) |-> fed[i]]
        BY <1>1 DEF BlockTaken
      <3>2. \A i \in 1 .. Len(olds) : fed[i] \in ActiveType
        BY <1>3
      <3> QED BY <3>1, <3>2
    <2> QED BY <1>1, <2>1
  <1>5. fed \in Seq(ActiveType) /\ L \in SUBSET (1 .. Len(fed))
    <2>1. L \subseteq 1 .. Len(olds)
      BY <1>1 DEF InParts
    <2> QED BY <2>1, <1>4
  <1>6. /\ Picked(fed, L) \in Seq(ActiveType) /\ Len(Picked(fed, L)) = Cardinality(L)
        /\ \A k \in DOMAIN Picked(fed, L) : \E i \in L : Picked(fed, L)[k] = fed[i]
    <2>1. PickedWell(ActiveType, fed, L)
      BY <1>5, PickedDecoders, Zenon
    <2> QED BY <2>1 DEF PickedWell
  <1>7. \A i \in L : FedTo(fed[i], s, first + n)
    BY <1>3, <1>4, <1>5 DEF BlockTaken
  <1>8. /\ Cardinality(F) \in Nat /\ Cardinality(O) \in Nat /\ Cardinality(L) \in Nat
        /\ Cardinality(F) + Cardinality(O) + Cardinality(L) = Len(olds)
    <2>1. InParts(1 .. Len(olds), F, O, L) /\ Len(olds) \in Nat
      BY <1>1
    <2> QED BY <2>1, ThreeParts
  <1>9. \A k \in DOMAIN Picked(fed, L) : FedTo(Picked(fed, L)[k], s, first + n)
    BY <1>6, <1>7
  <1>10. /\ Len(Picked(fed, L)) \in Nat
         /\ Cardinality(F) + Cardinality(O) + Len(Picked(fed, L)) = Len(olds)
    BY <1>6, <1>8
  <1> QED BY <1>6, <1>8, <1>9, <1>10 DEF FedResult

\* The ring after a block: a coordinate still retained is younger than a whole
\* ring, so nothing newer has been written to its slot.
Written(h, h2, s, first, n) ==
  h2 = [i \in DOMAIN h |->
          LET new == {k \in first .. (first + n) - 1 : k % History = i}
          IN  IF new = {} THEN h[i] ELSE <<s, CHOOSE k \in new : \A j \in new : j <= k>>]
HoldsFrom(h, s, from, first) ==
  /\ h = [i \in 0 .. History - 1 |-> h[i]]
  /\ \A c \in from .. first - 1 : h[c % History] = <<s, c>>

LEMMA RingAfterBlock ==
  ASSUME NEW h, NEW s \in Nat, NEW from \in Nat, NEW first \in Nat, NEW n \in Nat \ {0},
         NEW h2, HoldsFrom(h, s, from, first), Written(h, h2, s, first, n)
  PROVE  HoldsFrom(h2, s, Greater(from, (first + n) - History), first + n)
  <1>0. History \in Nat /\ History >= 1 /\ DOMAIN h = 0 .. History - 1
    BY DecoderAssumption DEF HoldsFrom
  <1>1. h2 = [i \in 0 .. History - 1 |-> h2[i]]
    BY <1>0 DEF Written
  <1>2. ASSUME NEW c \in Greater(from, (first + n) - History) .. (first + n) - 1
        PROVE  h2[c % History] = <<s, c>>
    <2> DEFINE i == c % History
               new == {k \in first .. (first + n) - 1 : k % History = i}
    <2>1. c \in Nat /\ c >= from /\ c >= (first + n) - History /\ c <= (first + n) - 1
      BY <1>0 DEF Greater
    <2>2. i \in 0 .. History - 1
      BY <1>0, <2>1
    <2>3. h2[i] = IF new = {} THEN h[i] ELSE <<s, CHOOSE k \in new : \A j \in new : j <= k>>
      BY <1>0, <2>2 DEF Written
    <2>4. \A k \in new : k \in Nat /\ first <= k /\ k <= (first + n) - 1 /\ k % History = c % History
      OBVIOUS
    <2>5. \A k \in new : k <= c
      <3> SUFFICES ASSUME NEW k \in new, c < k PROVE FALSE
        BY <2>1, <2>4
      <3>1. k \in Nat /\ k <= (first + n) - 1 /\ c % History = k % History
        BY <2>4
      <3>2. k >= c + History
        BY <2>1, <3>1, SlotsApart
      <3> HIDE DEF new
      <3> QED BY <1>0, <2>1, <3>1, <3>2
    <2>6. CASE c >= first
      <3>1. c \in new
        BY <2>1, <2>6
      <3>2. \A k \in new : (\A j \in new : j <= k) => k = c
        <4> SUFFICES ASSUME NEW k \in new, c <= k PROVE k = c
          BY <3>1
        <4>1. k <= c /\ k \in Nat
          BY <2>4, <2>5
        <4> QED BY <2>1, <4>1
      <3> HIDE DEF new
      <3>3. (CHOOSE k \in new : \A j \in new : j <= k) = c
        BY <2>5, <3>1, <3>2
      <3> QED BY <2>3, <3>1, <3>3
    <2>7. CASE c < first
      <3>1. new = {}
        <4> SUFFICES ASSUME NEW k \in new PROVE FALSE
          OBVIOUS
        <4>1. k \in Nat /\ first <= k /\ k <= c
          BY <2>4, <2>5
        <4> QED BY <2>1, <2>7, <4>1
      <3>2. c \in from .. first - 1
        BY <2>1, <2>7
      <3> HIDE DEF new
      <3> QED BY <2>3, <3>1, <3>2 DEF HoldsFrom
    <2>8. c >= first \/ c < first
      BY <2>1
    <2> QED BY <2>6, <2>7, <2>8
  <1> QED BY <1>1, <1>2 DEF HoldsFrom

\* The counters of a feed: what completes or times out is no longer active.
LEMMA TallyAfterFeed ==
  ASSUME NEW c \in [Counters -> Nat], NEW x \in Nat, NEW y \in Nat, NEW k \in Nat,
         NEW k2 \in Nat, Tally(c, k), x + y + k2 = k,
         NEW c2, c2 = [c EXCEPT !["completed"] = @ + x, !["timeouts"] = @ + y]
  PROVE  c2 \in [Counters -> Nat] /\ Tally(c2, k2)
  <1>1. \A m \in Counters : c[m] \in Nat
    OBVIOUS
  <1>2. c2 \in [Counters -> Nat]
    BY <1>1 DEF Counters
  <1>3. /\ c2["completed"] = c["completed"] + x /\ c2["timeouts"] = c["timeouts"] + y
        /\ c2["candidates"] = c["candidates"] /\ c2["unsupported"] = c["unsupported"]
        /\ c2["outside"] = c["outside"] /\ c2["duplicate"] = c["duplicate"]
        /\ c2["excluded"] = c["excluded"] /\ c2["limit"] = c["limit"]
        /\ c2["misses"] = c["misses"] /\ c2["abandoned"] = c["abandoned"]
    BY DEF Counters
  <1>4. /\ c["completed"] \in Nat /\ c["timeouts"] \in Nat /\ c["candidates"] \in Nat
        /\ c["unsupported"] \in Nat /\ c["outside"] \in Nat /\ c["duplicate"] \in Nat
        /\ c["excluded"] \in Nat /\ c["limit"] \in Nat /\ c["misses"] \in Nat
        /\ c["abandoned"] \in Nat
    BY <1>1 DEF Counters
  <1>5. Tally(c2, k2)
    BY <1>3, <1>4 DEF Tally
  <1> QED BY <1>2, <1>5

\* A reset abandons what is active.
LEMMA TallyAfterReset ==
  ASSUME NEW c \in [Counters -> Nat], NEW k \in Nat, Tally(c, k),
         NEW c2, c2 = [c EXCEPT !["abandoned"] = @ + k]
  PROVE  c2 \in [Counters -> Nat] /\ Tally(c2, 0)
  <1>1. \A m \in Counters : c[m] \in Nat
    OBVIOUS
  <1>2. c2 \in [Counters -> Nat]
    BY <1>1 DEF Counters
  <1>3. /\ c2["completed"] = c["completed"] /\ c2["timeouts"] = c["timeouts"]
        /\ c2["candidates"] = c["candidates"] /\ c2["unsupported"] = c["unsupported"]
        /\ c2["outside"] = c["outside"] /\ c2["duplicate"] = c["duplicate"]
        /\ c2["excluded"] = c["excluded"] /\ c2["limit"] = c["limit"]
        /\ c2["misses"] = c["misses"] /\ c2["abandoned"] = c["abandoned"] + k
    BY DEF Counters
  <1>4. /\ c["completed"] \in Nat /\ c["timeouts"] \in Nat /\ c["candidates"] \in Nat
        /\ c["unsupported"] \in Nat /\ c["outside"] \in Nat /\ c["duplicate"] \in Nat
        /\ c["excluded"] \in Nat /\ c["limit"] \in Nat /\ c["misses"] \in Nat
        /\ c["abandoned"] \in Nat
    BY <1>1 DEF Counters
  <1>5. Tally(c2, 0)
    BY <1>3, <1>4 DEF Tally
  <1> QED BY <1>2, <1>5

LEMMA EmptiedFacts ==
  ASSUME DecoderInv
  PROVE  /\ Emptied.begin = 0 /\ Emptied.active = <<>> /\ Emptied.active \in Seq(ActiveType)
         /\ Emptied.history = [i \in 0 .. History - 1 |-> NoSample]
         /\ Emptied.count \in [Counters -> Nat] /\ Tally(Emptied.count, 0)
  <1>1. active \in Seq(ActiveType) /\ count \in [Counters -> Nat] /\ Tally(count, Len(active))
    BY DEF DecoderInv, DecoderTypes
  <1>2. Len(active) \in Nat
    BY <1>1, LenProperties
  <1> DEFINE c2 == [count EXCEPT !["abandoned"] = @ + Len(active)]
  <1>3. c2 \in [Counters -> Nat] /\ Tally(c2, 0)
    BY <1>1, <1>2, TallyAfterReset
  <1> HIDE DEF c2
  <1>4. /\ Emptied.begin = 0 /\ Emptied.active = <<>> /\ Emptied.count = c2
        /\ Emptied.history = [i \in 0 .. History - 1 |-> NoSample]
    BY DEF Emptied, c2
  <1>5. <<>> \in Seq(ActiveType)
    BY EmptySeq
  <1> QED BY <1>3, <1>4, <1>5

LEMMA ResetKeepsInv == ASSUME DecoderInv, ResetDecoder PROVE DecoderInv'
  <1>1. /\ ready' = FALSE /\ segment' = 0 /\ begin' = 0 /\ end' = 0 /\ active' = <<>>
        /\ history' = [i \in 0 .. History - 1 |-> NoSample]
        /\ count' \in [Counters -> Nat] /\ Tally(count', 0)
    BY EmptiedFacts DEF ResetDecoder
  <1>2. Len(active') = 0 /\ active' \in Seq(ActiveType) /\ DOMAIN active' = {}
    BY <1>1
  <1>3. DecoderTypes'
    <2>1. history' = [i \in 0 .. History - 1 |-> history'[i]]
      BY <1>1
    <2> QED BY <1>1, <1>2, <2>1 DEF DecoderTypes
  <1>4. RingHolds' /\ ActiveFed'
    BY <1>1, <1>2 DEF RingHolds, ActiveFed
  <1> QED BY <1>1, <1>2, <1>3, <1>4 DEF DecoderInv

\* What a feed starts from: the state itself when the block continues it, and an
\* emptied one otherwise.
Breaks(s, first) == ready /\ (first # end \/ segment # s)
FeedOld(s, first) == IF Breaks(s, first) THEN Emptied ELSE Kept
FeedFrom(s, first) ==
  IF ready /\ ~Breaks(s, first) THEN FeedOld(s, first).begin ELSE first
BaseHolds(old, from, s, first) ==
  /\ from \in Nat
  /\ old.active \in Seq(ActiveType)
  /\ \A i \in DOMAIN old.active : FedTo(old.active[i], s, first)
  /\ old.count \in [Counters -> Nat] /\ Tally(old.count, Len(old.active))
  /\ old.history = [i \in 0 .. History - 1 |-> old.history[i]]
  /\ \A c \in from .. first - 1 : old.history[c % History] = <<s, c>>

LEMMA FeedBase ==
  ASSUME DecoderInv, NEW s \in Nat, NEW first \in Nat
  PROVE  BaseHolds(FeedOld(s, first), FeedFrom(s, first), s, first)
  <1> DEFINE broken == Breaks(s, first)
             old == FeedOld(s, first)
             from == FeedFrom(s, first)
  <1>0. /\ broken = (ready /\ (first # end \/ segment # s))
        /\ old = (IF broken THEN Emptied ELSE Kept)
        /\ from = (IF ready /\ ~broken THEN old.begin ELSE first)
    BY DEF Breaks, FeedOld, FeedFrom
  <1> HIDE DEF broken, old, from
  <1> SUFFICES /\ from \in Nat
               /\ old.active \in Seq(ActiveType)
               /\ \A i \in DOMAIN old.active : FedTo(old.active[i], s, first)
               /\ old.count \in [Counters -> Nat] /\ Tally(old.count, Len(old.active))
               /\ old.history = [i \in 0 .. History - 1 |-> old.history[i]]
               /\ \A c \in from .. first - 1 : old.history[c % History] = <<s, c>>
    BY DEF BaseHolds, old, from
  <1>1. CASE broken
    <2>1. old = Emptied /\ from = first
      BY <1>0, <1>1
    <2>2. /\ Emptied.active = <<>> /\ Emptied.active \in Seq(ActiveType)
          /\ Emptied.history = [i \in 0 .. History - 1 |-> NoSample]
          /\ Emptied.count \in [Counters -> Nat] /\ Tally(Emptied.count, 0)
      BY EmptiedFacts
    <2>3. Len(Emptied.active) = 0 /\ DOMAIN Emptied.active = {}
      BY <2>2
    <2>4. Emptied.history = [i \in 0 .. History - 1 |-> Emptied.history[i]]
      BY <2>2
    <2>5. first .. first - 1 = {}
      OBVIOUS
    <2> QED BY <2>1, <2>2, <2>3, <2>4, <2>5
  <1>2. CASE ~broken
    <2>1. /\ old.active = active /\ old.count = count /\ old.history = history
          /\ old.begin = begin
      BY <1>0, <1>2 DEF Kept
    <2>2. /\ active \in Seq(ActiveType) /\ count \in [Counters -> Nat] /\ begin \in Nat
          /\ history = [i \in 0 .. History - 1 |-> history[i]] /\ Tally(count, Len(active))
          /\ ready \in BOOLEAN
      BY DEF DecoderInv, DecoderTypes
    <2>3. CASE ready
      <3>1. first = end /\ segment = s /\ from = begin
        BY <1>0, <1>2, <2>1, <2>3
      <3>2. \A i \in DOMAIN active : FedTo(active[i], s, first)
        BY <3>1 DEF DecoderInv, ActiveFed
      <3>3. \A c \in from .. first - 1 : history[c % History] = <<s, c>>
        BY <2>3, <3>1 DEF DecoderInv, RingHolds
      <3> QED BY <2>1, <2>2, <3>1, <3>2, <3>3
    <2>4. CASE ~ready
      <3>1. active = <<>> /\ from = first
        BY <1>0, <2>4 DEF DecoderInv
      <3>2. DOMAIN active = {}
        BY <3>1
      <3>3. from .. first - 1 = {}
        BY <3>1
      <3> QED BY <2>1, <2>2, <3>1, <3>2, <3>3
    <2> QED BY <2>3, <2>4
  <1> QED BY <1>1, <1>2

LEMMA FeedKeepsInv ==
  ASSUME DecoderInv, NEW s \in Nat, NEW first \in Nat, NEW n \in Nat \ {0}, NEW done,
         FeedDecoder(s, first, n, done)
  PROVE  DecoderInv'
  <1> DEFINE old == FeedOld(s, first)
             from == FeedFrom(s, first)
             final == first + n
             olds == old.active
             fed == [i \in DOMAIN olds |-> TakeUp(olds[i], s, first, n)]
             F == {i \in DOMAIN fed : i \in done /\ Taken(olds[i], first, n) > 0}
             O == {i \in DOMAIN fed : ~(i \in done /\ Taken(olds[i], first, n) > 0)
                                      /\ final >= fed[i].deadline}
             L == {i \in DOMAIN fed : /\ ~(i \in done /\ Taken(olds[i], first, n) > 0)
                                      /\ ~(/\ ~(i \in done /\ Taken(olds[i], first, n) > 0)
                                           /\ final >= fed[i].deadline)}
             c2 == [old.count EXCEPT !["completed"] = @ + Cardinality(F),
                                     !["timeouts"] = @ + Cardinality(O)]
             h2 == [i \in DOMAIN history |->
                      LET new == {k \in first .. final - 1 : k % History = i}
                      IN  IF new = {} THEN old.history[i]
                          ELSE <<s, CHOOSE k \in new : \A j \in new : j <= k>>]
  <1>1. /\ ready' = TRUE /\ segment' = s /\ end' = final
        /\ begin' = Greater(from, final - History)
        /\ active' = Picked(fed, L) /\ count' = c2 /\ history' = h2
    BY Zenon DEF FeedDecoder, TakeUp, FeedOld, FeedFrom, Breaks
  <1>2. /\ from \in Nat
        /\ olds \in Seq(ActiveType)
        /\ \A i \in DOMAIN olds : FedTo(olds[i], s, first)
        /\ old.count \in [Counters -> Nat] /\ Tally(old.count, Len(olds))
        /\ old.history = [i \in 0 .. History - 1 |-> old.history[i]]
        /\ \A c \in from .. first - 1 : old.history[c % History] = <<s, c>>
    <2>1. BaseHolds(old, from, s, first)
      BY FeedBase
    <2> QED BY <2>1 DEF BaseHolds
  <1>3. DOMAIN history = 0 .. History - 1
    BY DEF DecoderInv, DecoderTypes
  <1>4. final \in Nat /\ Len(olds) \in Nat /\ DOMAIN fed = DOMAIN olds
    BY <1>2, LenProperties
  <1> HIDE DEF old, from
  <1>5. \A i \in DOMAIN olds : fed[i].deadline \in Nat
    <2> SUFFICES ASSUME NEW i \in DOMAIN olds PROVE fed[i].deadline \in Nat
      OBVIOUS
    <2>1. olds[i] \in ActiveType /\ FedTo(olds[i], s, first)
      BY <1>2, ElementOfSeq, LenProperties
    <2>2. TakeUp(olds[i], s, first, n) \in ActiveType
      BY <2>1, TakeUpProperties
    <2> QED BY <2>2 DEF ActiveType
  <1> HIDE DEF olds
  <1>6. InParts(DOMAIN olds, F, O, L)
    BY <1>4 DEF InParts
  <1>7. \A i \in L : final < fed[i].deadline
    BY <1>4, <1>5
  <1>8. fed = [i \in DOMAIN olds |-> TakeUp(olds[i], s, first, n)]
    OBVIOUS
  <1>a. BlockTaken(olds, fed, L, s, first, n)
    BY <1>2, <1>7, <1>8 DEF BlockTaken
  <1> HIDE DEF fed, F, O, L
  <1>9. /\ Picked(fed, L) \in Seq(ActiveType)
        /\ \A k \in DOMAIN Picked(fed, L) : FedTo(Picked(fed, L)[k], s, final)
        /\ Cardinality(F) \in Nat /\ Cardinality(O) \in Nat /\ Len(Picked(fed, L)) \in Nat
        /\ Cardinality(F) + Cardinality(O) + Len(Picked(fed, L)) = Len(olds)
    <2>1. FedResult(olds, fed, F, O, L, s, first + n)
      BY <1>2, <1>6, <1>a, FedDecoders
    <2> QED BY <2>1 DEF FedResult
  <1>10. c2 \in [Counters -> Nat] /\ Tally(c2, Len(Picked(fed, L)))
    BY <1>2, <1>4, <1>9, TallyAfterFeed
  <1> HIDE DEF c2
  <1>11. h2 = [i \in DOMAIN old.history |->
                 LET new == {k \in first .. (first + n) - 1 : k % History = i}
                 IN  IF new = {} THEN old.history[i]
                     ELSE <<s, CHOOSE k \in new : \A j \in new : j <= k>>]
    <2>1. DOMAIN old.history = DOMAIN history
      BY <1>2, <1>3
    <2> QED BY <2>1
  <1> HIDE DEF h2
  <1>12. /\ h2 = [i \in 0 .. History - 1 |-> h2[i]]
         /\ \A c \in Greater(from, final - History) .. final - 1 : h2[c % History] = <<s, c>>
    <2>1. HoldsFrom(old.history, s, from, first) /\ Written(old.history, h2, s, first, n)
      BY <1>2, <1>11 DEF HoldsFrom, Written
    <2>2. from \in Nat
      BY <1>2
    <2>3. HoldsFrom(h2, s, Greater(from, (first + n) - History), first + n)
      BY <2>1, <2>2, RingAfterBlock
    <2> QED BY <2>3 DEF HoldsFrom
  <1>13. Greater(from, final - History) \in Nat
    BY <1>2, <1>4, DecoderAssumption DEF Greater
  <1> HIDE DEF final
  <1>14. DecoderTypes'
    BY <1>1, <1>4, <1>9, <1>10, <1>12, <1>13 DEF DecoderTypes
  <1>15. RingHolds' /\ ActiveFed'
    BY <1>1, <1>9, <1>12 DEF RingHolds, ActiveFed
  <1>16. Tally(count', Len(active'))
    BY <1>1, <1>10
  <1> QED BY <1>1, <1>14, <1>15, <1>16 DEF DecoderInv

\* Accounts add up.
LEMMA TallyAdds ==
  ASSUME NEW c \in [Counters -> Nat], NEW u \in [Counters -> Nat], NEW c2,
         NEW k \in Nat, NEW j \in Nat, Tally(c, k), Tally(u, j),
         \A m \in Counters : c2[m] = c[m] + u[m]
  PROVE  Tally(c2, k + j)
  <1>1. /\ c2["completed"] = c["completed"] + u["completed"]
        /\ c2["timeouts"] = c["timeouts"] + u["timeouts"]
        /\ c2["candidates"] = c["candidates"] + u["candidates"]
        /\ c2["unsupported"] = c["unsupported"] + u["unsupported"]
        /\ c2["outside"] = c["outside"] + u["outside"]
        /\ c2["duplicate"] = c["duplicate"] + u["duplicate"]
        /\ c2["excluded"] = c["excluded"] + u["excluded"]
        /\ c2["limit"] = c["limit"] + u["limit"]
        /\ c2["misses"] = c["misses"] + u["misses"]
        /\ c2["abandoned"] = c["abandoned"] + u["abandoned"]
    BY DEF Counters
  <1>2. /\ c["completed"] \in Nat /\ c["timeouts"] \in Nat /\ c["candidates"] \in Nat
        /\ c["unsupported"] \in Nat /\ c["outside"] \in Nat /\ c["duplicate"] \in Nat
        /\ c["excluded"] \in Nat /\ c["limit"] \in Nat /\ c["misses"] \in Nat
        /\ c["abandoned"] \in Nat
    BY DEF Counters
  <1>3. /\ u["completed"] \in Nat /\ u["timeouts"] \in Nat /\ u["candidates"] \in Nat
        /\ u["unsupported"] \in Nat /\ u["outside"] \in Nat /\ u["duplicate"] \in Nat
        /\ u["excluded"] \in Nat /\ u["limit"] \in Nat /\ u["misses"] \in Nat
        /\ u["abandoned"] \in Nat
    BY DEF Counters
  <1> QED BY <1>1, <1>2, <1>3 DEF Tally

\* A declined candidate is counted once more as a candidate and under its reason.
LEMMA DeclineKeepsInv ==
  ASSUME DecoderInv, NEW w, NEW delimiter, ObserveDeclined(w, delimiter)
  PROVE  DecoderInv'
  <1> DEFINE r == Outcome(w, delimiter)
  <1>1. r \in {"unsupported", "outside", "duplicate", "excluded", "limit", "timeouts",
               "misses"}
    BY Zenon DEF Outcome, ObserveDeclined
  <1>2. /\ count' = Bump({"candidates", r})
        /\ UNCHANGED <<ready, begin, end, segment, history, active, recent>>
    BY DEF ObserveDeclined
  <1> HIDE DEF r
  <1>3. count \in [Counters -> Nat] /\ Tally(count, Len(active)) /\ Len(active) \in Nat
    <2>1. active \in Seq(ActiveType)
      BY DEF DecoderInv, DecoderTypes
    <2> QED BY <2>1, LenProperties DEF DecoderInv, DecoderTypes
  <1>4. \A m \in Counters : count[m] \in Nat
    BY <1>3
  <1>5. count' \in [Counters -> Nat]
    BY <1>2, <1>4 DEF Bump
  <1> DEFINE u == [m \in Counters |-> IF m \in {"candidates", r} THEN 1 ELSE 0]
  <1>6. u \in [Counters -> Nat] /\ \A m \in Counters : count'[m] = count[m] + u[m]
    BY <1>2 DEF Bump
  <1>7. Tally(u, 0)
    <2>1. \A m \in Counters : u[m] = IF m = "candidates" \/ m = r THEN 1 ELSE 0
      OBVIOUS
    <2> HIDE DEF u
    <2> QED BY <1>1, <2>1 DEF Tally, Counters
  <1> HIDE DEF u
  <1>8. Tally(count', Len(active) + 0)
    BY <1>3, <1>6, <1>7, TallyAdds
  <1>9. Tally(count', Len(active'))
    BY <1>2, <1>3, <1>8
  <1>10. DecoderTypes'
    BY <1>2, <1>5 DEF DecoderTypes, DecoderInv
  <1>11. RingHolds' /\ ActiveFed' /\ (~ready' => active' = <<>>)
    BY <1>2 DEF RingHolds, ActiveFed, DecoderInv
  <1> QED BY <1>9, <1>10, <1>11 DEF DecoderInv

\* What is replayed out of the ring is the samples themselves.
LEMMA ReplayProperties ==
  ASSUME DecoderInv, ready, NEW from \in Nat, begin <= from, from <= end
  PROVE  Replay(from, end - from) = Samples(segment, from, end - from)
  <1> DEFINE n == end - from
  <1>1. begin \in Nat /\ end \in Nat /\ segment \in Nat /\ n \in Nat
    BY DEF DecoderInv, DecoderTypes
  <1>2. ASSUME NEW k \in 1 .. n
        PROVE  history[(from + k - 1) % History] = <<segment, from + k - 1>>
    <2>1. from + k - 1 \in begin .. end - 1
      BY <1>1
    <2> QED BY <2>1 DEF DecoderInv, RingHolds
  <1>3. Replay(from, n) = [k \in 1 .. n |-> history[(from + k - 1) % History]]
    BY DEF Replay
  <1>4. Samples(segment, from, n) = [k \in 1 .. n |-> <<segment, from + k - 1>>]
    BY DEF Samples
  <1> HIDE DEF n
  <1>5. Replay(from, n) = Samples(segment, from, n)
    BY <1>2, <1>3, <1>4
  <1> QED BY <1>5 DEF n

LEMMA StartKeepsInv ==
  ASSUME DecoderInv, NEW w \in Waveforms, NEW delimiter \in Nat, NEW completes \in BOOLEAN,
         ObserveStarted(w, delimiter, completes)
  PROVE  DecoderInv'
  <1> DEFINE from == Greater(0, delimiter - Lead)
             over == completes /\ from < end
             d == [wave |-> w, delimiter |-> delimiter, from |-> from,
                   deadline |-> delimiter + Airtime, input |-> Replay(from, end - from)]
  <1>1. /\ Outcome(w, delimiter) = "started"
        /\ count' = Bump({"candidates", "started"} \cup IF over THEN {"completed"} ELSE {})
        /\ active' = IF over THEN active ELSE Append(active, d)
        /\ UNCHANGED <<ready, begin, end, segment, history>>
    BY DEF ObserveStarted
  <1>2. /\ begin \in Nat /\ end \in Nat /\ segment \in Nat /\ active \in Seq(ActiveType)
        /\ count \in [Counters -> Nat] /\ Tally(count, Len(active)) /\ ready \in BOOLEAN
    BY DEF DecoderInv, DecoderTypes
  <1>3. ready /\ ~(end >= delimiter + Airtime) /\ Retained(from)
    BY <1>1, Zenon DEF Outcome
  <1>4. from \in Nat /\ delimiter + Airtime \in Nat /\ begin <= from /\ from <= end
        /\ end < delimiter + Airtime
    BY <1>2, <1>3, DecoderAssumption DEF Greater, Retained
  <1> HIDE DEF from
  <1>5. Replay(from, end - from) = Samples(segment, from, end - from)
    BY <1>3, <1>4, ReplayProperties
  <1>6. end - from \in Nat
    BY <1>2, <1>4
  <1>7. Replay(from, end - from) \in Seq(Sample)
    <2> DEFINE n == end - from
    <2>1. n \in Nat /\ from \in Nat /\ segment \in Nat
      BY <1>2, <1>4, <1>6
    <2> HIDE DEF n
    <2>2. Samples(segment, from, n) \in Seq(Sample)
      BY <2>1, SamplesProperties
    <2> QED BY <1>5, <2>2 DEF n
  <1>8. d \in ActiveType
    BY <1>4, <1>7 DEF ActiveType
  <1>9. FedTo(d, segment, end)
    BY <1>4, <1>5 DEF FedTo
  <1> HIDE DEF d
  <1>10. \A m \in Counters : count[m] \in Nat
    BY <1>2
  <1>11. count' \in [Counters -> Nat]
    BY <1>1, <1>10 DEF Bump
  <1> DEFINE u == [m \in Counters |->
                     IF m \in {"candidates", "started"} \cup (IF over THEN {"completed"} ELSE {})
                     THEN 1 ELSE 0]
             j == IF over THEN 0 ELSE 1
  <1>12. u \in [Counters -> Nat] /\ \A m \in Counters : count'[m] = count[m] + u[m]
    BY <1>1 DEF Bump
  <1> HIDE DEF over
  <1>13. \A m \in Counters : u[m] = IF m = "candidates" \/ m = "started" \/ (over /\ m = "completed")
                                   THEN 1 ELSE 0
    OBVIOUS
  <1>14. Tally(u, j)
    <2> HIDE DEF u
    <2>1. CASE over
      BY <2>1, <1>13 DEF Tally, Counters
    <2>2. CASE ~over
      BY <2>2, <1>13 DEF Tally, Counters
    <2> QED BY <2>1, <2>2
  <1> HIDE DEF u
  <1>15. /\ active' \in Seq(ActiveType) /\ Len(active) \in Nat
         /\ Len(active') = Len(active) + (IF over THEN 0 ELSE 1)
         /\ \A i \in DOMAIN active' : FedTo(active'[i], segment, end)
    <2>1. Len(active) \in Nat /\ DOMAIN active = 1 .. Len(active)
          /\ \A i \in DOMAIN active : FedTo(active[i], segment, end)
      BY <1>2, LenProperties DEF DecoderInv, ActiveFed
    <2>2. CASE over
      BY <1>1, <1>2, <2>1, <2>2
    <2>3. CASE ~over
      <3>1. active' = Append(active, d)
        BY <1>1, <2>3
      <3>2. /\ active' \in Seq(ActiveType) /\ Len(active') = Len(active) + 1
            /\ DOMAIN active' = 1 .. Len(active) + 1
            /\ \A k \in 1 .. Len(active) : active'[k] = active[k]
            /\ active'[Len(active) + 1] = d
        BY <3>1, <1>2, <1>8, AppendProperties, LenProperties
      <3>3. \A k \in 1 .. Len(active) + 1 : k \in 1 .. Len(active) \/ k = Len(active) + 1
        BY <2>1
      <3>4. \A i \in DOMAIN active' : FedTo(active'[i], segment, end)
        BY <1>9, <2>1, <3>2, <3>3
      <3> QED BY <2>1, <2>3, <3>2, <3>4
    <2> QED BY <2>2, <2>3
  <1>16. Tally(count', Len(active'))
    <2>1. Len(active') = Len(active) + j /\ j \in Nat
      BY <1>15
    <2> HIDE DEF j
    <2>2. Tally(count', Len(active) + j)
      BY <1>2, <1>12, <1>14, <1>15, <2>1, TallyAdds
    <2> QED BY <2>1, <2>2
  <1>17. DecoderTypes'
    BY <1>1, <1>11, <1>15 DEF DecoderTypes, DecoderInv
  <1>18. RingHolds' /\ ActiveFed' /\ (~ready' => active' = <<>>)
    BY <1>1, <1>3, <1>15 DEF RingHolds, ActiveFed, DecoderInv
  <1> QED BY <1>16, <1>17, <1>18 DEF DecoderInv

LEMMA DecoderStep == DecoderInv /\ [DecoderNext]_cvars => DecoderInv'
  <1> SUFFICES ASSUME DecoderInv, [DecoderNext]_cvars PROVE DecoderInv'
    OBVIOUS
  <1>1. CASE UNCHANGED cvars
    BY <1>1 DEF DecoderInv, DecoderTypes, RingHolds, ActiveFed, cvars
  <1>2. CASE ResetDecoder
    BY <1>2, ResetKeepsInv
  <1>3. ASSUME NEW s \in 1 .. MaxSegment, NEW first \in {0, end}, NEW n \in 1 .. 2,
               NEW done \in SUBSET (1 .. MaxActive), FeedDecoder(s, first, n, done)
        PROVE  DecoderInv'
    <2>1. end \in Nat
      BY DEF DecoderInv, DecoderTypes
    <2>2. s \in Nat /\ first \in Nat /\ n \in Nat \ {0}
      BY <2>1, DecoderAssumption
    <2> QED BY <1>3, <2>2, FeedKeepsInv
  <1>4. ASSUME NEW w \in Waveforms, NEW delimiter \in 0 .. MaxSample,
               ObserveDeclined(w, delimiter)
        PROVE  DecoderInv'
    BY <1>4, DeclineKeepsInv
  <1>5. ASSUME NEW w \in Waveforms, NEW delimiter \in 0 .. MaxSample,
               NEW completes \in BOOLEAN, ObserveStarted(w, delimiter, completes)
        PROVE  DecoderInv'
    <2>1. delimiter \in Nat
      BY DecoderAssumption
    <2> QED BY <1>5, <2>1, StartKeepsInv
  <1> QED BY <1>1, <1>2, <1>3, <1>4, <1>5 DEF DecoderNext

LEMMA DecoderInvHolds == DecoderSpec => []DecoderInv
  BY DecoderInvInit, DecoderStep, PTL DEF DecoderSpec

\* Every candidate has exactly one outcome (CandidatesAccounted; observe, feed and
\* reset of discovery_decoder.cpp), for every ring, lead, airtime and limit.
THEOREM EveryCandidateAccounted == DecoderSpec => []CandidatesAccounted
  <1>1. DecoderInv => CandidatesAccounted
    BY DEF DecoderInv, Tally, CandidatesAccounted
  <1> QED BY <1>1, DecoderInvHolds, PTL

\* A decoder is fed exactly the samples from its replay start to the newest one
\* (ReplayIsExact), although the first part comes out of a ring that live
\* samples keep overwriting.
THEOREM ReplayAlwaysExact == DecoderSpec => []ReplayIsExact
  <1>1. DecoderInv => ReplayIsExact
    <2> SUFFICES ASSUME DecoderInv, NEW i \in DOMAIN active
                 PROVE  active[i].input = Samples(segment, active[i].from,
                           Lesser(end, active[i].deadline) - active[i].from)
      BY DEF ReplayIsExact
    <2>1. FedTo(active[i], segment, end)
      BY DEF DecoderInv, ActiveFed
    <2>2. Lesser(end, active[i].deadline) = end
      BY <2>1 DEF Lesser, FedTo
    <2> QED BY <2>1, <2>2 DEF FedTo
  <1> QED BY <1>1, DecoderInvHolds, PTL

-----------------------------------------------------------------------------
(* The event tracks of the spectrum.                                       *)

\* No two members of a collection share a cell.
Apart(A) == \A s, t \in A : s # t => s.cells \cap t.cells = {}

Covered(A) == UNION {t.cells : t \in A}

Quality == SUBSET {"boundary", "merged", "truncated"}

\* A run of frame f; a track or event whose cells lie in its envelope.
RunType == [low : Nat, high : Nat, cells : SUBSET (Nat \X Nat), q : Quality]
RunOk(r, f) ==
  /\ r \in RunType /\ r.low <= r.high /\ r.high < Bins
  /\ r.cells \subseteq {f} \X (r.low..r.high)

TrackType ==
  [first : Nat, end : Nat, low : Nat, high : Nat, lastLow : Nat, lastHigh : Nat,
   cells : SUBSET (Nat \X Nat), q : Quality]
TrackOk(t, f) ==
  /\ t \in TrackType /\ t.end <= f /\ t.high < Bins
  /\ t.cells \subseteq (t.first..(t.end - 1)) \X (t.low..t.high)

EventsInv ==
  /\ frame \in Nat
  /\ \A t \in events \cup tracks : TrackOk(t, frame)
  /\ Apart(events) /\ Apart(tracks)
  /\ \A e \in events, t \in tracks : e.cells \cap t.cells = {}
  /\ Covered(events) \cup Covered(tracks) = heard
  /\ IsFiniteSet(tracks) /\ Cardinality(tracks) <= MaxTracks

LEMMA LeastIs ==
  ASSUME NEW S, S \subseteq Nat, S # {}
  PROVE  Least(S) \in S /\ \A x \in S : Least(S) <= x
  <1>1. \E m \in S : \A n \in S : m <= n
    BY LeastElement, Zenon
  <1> QED BY <1>1 DEF Least

LEMMA GreatestIs ==
  ASSUME NEW n \in Nat, NEW S, S \subseteq 0..n, S # {}
  PROVE  Greatest(S) \in S /\ \A x \in S : x <= Greatest(S)
  <1>1. \E m \in S : \A x \in S : x <= m
    BY GreatestElement, Zenon
  <1> QED BY <1>1 DEF Greatest

-----------------------------------------------------------------------------
(* The runs of a frame.                                                    *)

LEMMA RunFields ==
  ASSUME NEW l, NEW h
  PROVE  /\ Run(l, h).low = l /\ Run(l, h).high = h
         /\ Run(l, h).cells = {<<frame, b>> : b \in l..h}
  BY DEF Run

LEMMA RunIsOk ==
  ASSUME frame \in Nat, NEW l \in 0..(Bins - 1), NEW h \in 0..(Bins - 1), l <= h
  PROVE  RunOk(Run(l, h), frame)
  <1> DEFINE cells == {<<frame, b>> : b \in l..h}
             q == IF l = 0 \/ h = Bins - 1 THEN {"boundary"} ELSE {}
  <1>1. Bins \in Nat /\ l \in Nat /\ h \in Nat /\ h < Bins
    BY EventsAssumption
  <1>2. l..h \subseteq Nat
    BY <1>1
  <1>3. cells \subseteq Nat \X Nat /\ cells \subseteq {frame} \X (l..h)
    BY <1>2
  <1>4. q \in Quality
    BY DEF Quality
  <1>5. Run(l, h) = [low |-> l, high |-> h, cells |-> cells, q |-> q]
    BY DEF Run
  <1> HIDE DEF cells, q
  <1>6. Run(l, h) \in RunType /\ Run(l, h).low = l /\ Run(l, h).high = h /\ Run(l, h).cells = cells
    BY <1>1, <1>3, <1>4, <1>5 DEF RunType
  <1> QED BY <1>1, <1>3, <1>6 DEF RunOk

\* Two maximal runs that share a bin are the same run.
LEMMA MaximalRuns ==
  ASSUME NEW lit, NEW l1 \in Nat, NEW h1 \in Nat, NEW l2 \in Nat, NEW h2 \in Nat,
         l1..h1 \subseteq lit, l1 - 1 \notin lit, h1 + 1 \notin lit,
         l2..h2 \subseteq lit, l2 - 1 \notin lit, h2 + 1 \notin lit,
         NEW b \in Nat, b \in l1..h1, b \in l2..h2
  PROVE  l1 = l2 /\ h1 = h2
  <1>1. l1 <= b /\ b <= h1 /\ l2 <= b /\ b <= h2
    OBVIOUS
  <1>2. ~(l1 < l2)
    <2>1. l1 < l2 => l2 - 1 \in l1..h1
      BY <1>1
    <2> QED BY <2>1
  <1>3. ~(l2 < l1)
    <2>1. l2 < l1 => l1 - 1 \in l2..h2
      BY <1>1
    <2> QED BY <2>1
  <1>4. ~(h1 < h2)
    <2>1. h1 < h2 => h1 + 1 \in l2..h2
      BY <1>1
    <2> QED BY <2>1
  <1>5. ~(h2 < h1)
    <2>1. h2 < h1 => h2 + 1 \in l1..h1
      BY <1>1
    <2> QED BY <2>1
  <1> QED BY <1>2, <1>3, <1>4, <1>5

\* An active bin lies in a maximal run.
LEMMA RunAround ==
  ASSUME NEW lit, lit \subseteq 0..(Bins - 1), NEW b \in lit
  PROVE  \E l \in lit, h \in lit :
           /\ l <= b /\ b <= h /\ l..h \subseteq lit
           /\ l - 1 \notin lit /\ h + 1 \notin lit
  <1> DEFINE lows == {l \in lit : l <= b /\ l..b \subseteq lit}
             highs == {h \in lit : b <= h /\ b..h \subseteq lit}
  <1>1. Bins \in Nat \ {0} /\ Bins - 1 \in Nat /\ lit \subseteq Nat /\ b \in Nat
    BY EventsAssumption
  <1>2. b..b = {b}
    BY <1>1
  <1>3. b \in lows /\ b \in highs
    BY <1>1, <1>2
  <1>4. lows \subseteq Nat /\ highs \subseteq 0..(Bins - 1)
    BY <1>1
  <1>5. PICK l \in lows : \A x \in lows : l <= x
    <2> HIDE DEF lows
    <2> QED BY <1>3, <1>4, LeastElement
  <1>6. PICK h \in highs : \A x \in highs : x <= h
    <2> HIDE DEF highs
    <2> QED BY <1>1, <1>3, <1>4, GreatestElement
  <1>7. /\ l \in lit /\ l \in Nat /\ l <= b /\ l..b \subseteq lit
        /\ h \in lit /\ h \in Nat /\ b <= h /\ b..h \subseteq lit
    BY <1>1, <1>5, <1>6
  <1>8. l..h \subseteq lit
    <2>1. ASSUME NEW x \in l..h PROVE x \in l..b \/ x \in b..h
      BY <1>1, <1>7
    <2> QED BY <1>7, <2>1
  <1>9. l - 1 \notin lit
    <2> SUFFICES ASSUME l - 1 \in lit PROVE FALSE
      OBVIOUS
    <2>1. l - 1 \in Nat
      BY <1>1
    <2>2. ASSUME NEW x \in (l - 1)..b PROVE x \in lit
      <3>1. x = l - 1 \/ x \in l..b
        BY <1>1, <1>7, <2>1
      <3> QED BY <1>7, <3>1
    <2>3. l - 1 \in lows
      BY <1>1, <1>7, <2>1, <2>2
    <2> QED BY <1>5, <1>7, <2>3
  <1>10. h + 1 \notin lit
    <2> SUFFICES ASSUME h + 1 \in lit PROVE FALSE
      OBVIOUS
    <2>1. ASSUME NEW x \in b..(h + 1) PROVE x \in lit
      <3>1. x = h + 1 \/ x \in b..h
        BY <1>1, <1>7
      <3> QED BY <1>7, <3>1
    <2>2. h + 1 \in highs
      BY <1>1, <1>7, <2>1
    <2> QED BY <1>6, <1>7, <2>2
  <1> QED BY <1>7, <1>8, <1>9, <1>10

\* The runs of a frame: every active cell in exactly one of them.
RunsFit(runs, lit) ==
  /\ IsFiniteSet(runs)
  /\ \A r \in runs : RunOk(r, frame)
  /\ Apart(runs)
  /\ Covered(runs) = {<<frame, b>> : b \in lit}

LEMMA RunsOfFit ==
  ASSUME frame \in Nat, NEW lit \in SUBSET (0..(Bins - 1))
  PROVE  RunsFit(RunsOf(lit), lit)
  <1> DEFINE runs == RunsOf(lit)
             all == {Run(l, h) : l \in lit, h \in lit}
  <1>0. Bins \in Nat /\ Bins - 1 \in Nat /\ lit \subseteq Nat
    BY EventsAssumption
  <1>1. ASSUME NEW r \in runs
        PROVE  \E l \in lit, h \in lit :
                 /\ r = Run(l, h) /\ l <= h /\ l..h \subseteq lit
                 /\ l - 1 \notin lit /\ h + 1 \notin lit
    <2>1. /\ r \in all /\ r.low <= r.high /\ r.low..r.high \subseteq lit
          /\ r.low - 1 \notin lit /\ r.high + 1 \notin lit
      BY DEF RunsOf
    <2>2. PICK l \in lit, h \in lit : r = Run(l, h)
      BY <2>1
    <2>3. r.low = l /\ r.high = h
      BY <2>2, RunFields
    <2> QED BY <2>1, <2>2, <2>3
  <1>2. ASSUME NEW l \in lit, NEW h \in lit, l <= h, l..h \subseteq lit,
               l - 1 \notin lit, h + 1 \notin lit
        PROVE  Run(l, h) \in runs
    <2>1. Run(l, h).low = l /\ Run(l, h).high = h
      BY RunFields
    <2> QED BY <1>2, <2>1 DEF RunsOf
  <1>3. \A r \in runs : RunOk(r, frame)
    <2> SUFFICES ASSUME NEW r \in runs PROVE RunOk(r, frame)
      OBVIOUS
    <2>1. PICK l \in lit, h \in lit : r = Run(l, h) /\ l <= h
      BY <1>1
    <2>2. l \in 0..(Bins - 1) /\ h \in 0..(Bins - 1)
      OBVIOUS
    <2> QED BY <2>1, <2>2, RunIsOk
  <1>4. Apart(runs)
    <2> SUFFICES ASSUME NEW r \in runs, NEW s \in runs, NEW c \in r.cells, c \in s.cells
                 PROVE  r = s
      BY DEF Apart
    <2>1. PICK l1 \in lit, h1 \in lit :
            /\ r = Run(l1, h1) /\ l1..h1 \subseteq lit
            /\ l1 - 1 \notin lit /\ h1 + 1 \notin lit
      BY <1>1
    <2>2. PICK l2 \in lit, h2 \in lit :
            /\ s = Run(l2, h2) /\ l2..h2 \subseteq lit
            /\ l2 - 1 \notin lit /\ h2 + 1 \notin lit
      BY <1>1
    <2>3. r.cells = {<<frame, b>> : b \in l1..h1} /\ s.cells = {<<frame, b>> : b \in l2..h2}
      BY <2>1, <2>2, RunFields
    <2>4. PICK b \in l1..h1 : c = <<frame, b>>
      BY <2>3
    <2>5. PICK b2 \in l2..h2 : c = <<frame, b2>>
      BY <2>3
    <2>6. b \in l2..h2 /\ b \in Nat /\ l1 \in Nat /\ h1 \in Nat /\ l2 \in Nat /\ h2 \in Nat
      BY <1>0, <2>4, <2>5
    <2>7. l1 = l2 /\ h1 = h2
      BY <2>1, <2>2, <2>4, <2>6, MaximalRuns
    <2> QED BY <2>1, <2>2, <2>7
  <1>5. Covered(runs) = {<<frame, b>> : b \in lit}
    <2>1. ASSUME NEW c \in Covered(runs) PROVE c \in {<<frame, b>> : b \in lit}
      <3>1. PICK r \in runs : c \in r.cells
        BY DEF Covered
      <3>2. PICK l \in lit, h \in lit : r = Run(l, h) /\ l..h \subseteq lit
        BY <1>1
      <3>3. r.cells = {<<frame, b>> : b \in l..h}
        BY <3>2, RunFields
      <3> QED BY <3>1, <3>2, <3>3
    <2>2. ASSUME NEW b \in lit PROVE <<frame, b>> \in Covered(runs)
      <3>1. PICK l \in lit, h \in lit :
              /\ l <= b /\ b <= h /\ l..h \subseteq lit
              /\ l - 1 \notin lit /\ h + 1 \notin lit
        BY RunAround
      <3>2. l \in Nat /\ h \in Nat /\ b \in Nat
        BY <1>0
      <3>3. l <= h /\ b \in l..h
        BY <3>1, <3>2
      <3>4. Run(l, h) \in runs
        BY <1>2, <3>1, <3>3
      <3>5. <<frame, b>> \in Run(l, h).cells
        BY <3>3, RunFields
      <3> QED BY <3>4, <3>5 DEF Covered
    <2> QED BY <2>1, <2>2
  <1>6. IsFiniteSet(runs)
    <2>1. IsFiniteSet(lit)
      <3>1. IsFiniteSet(0..(Bins - 1))
        BY <1>0, FS_Interval
      <3> QED BY <3>1, FS_Subset
    <2>2. IsFiniteSet(lit \X lit)
      BY <2>1, FS_Product
    <2> DEFINE f == [p \in lit \X lit |-> Run(p[1], p[2])]
    <2>3. all = {f[p] : p \in lit \X lit}
      <3>1. ASSUME NEW r \in all PROVE r \in {f[p] : p \in lit \X lit}
        <4>1. PICK l \in lit, h \in lit : r = Run(l, h)
          OBVIOUS
        <4>2. <<l, h>> \in lit \X lit /\ f[<<l, h>>] = Run(l, h)
          OBVIOUS
        <4> QED BY <4>1, <4>2
      <3>2. ASSUME NEW p \in lit \X lit PROVE f[p] \in all
        OBVIOUS
      <3> QED BY <3>1, <3>2
    <2>4. f \in Surjection(lit \X lit, all)
      <3> HIDE DEF all
      <3>1. f \in [lit \X lit -> all]
        BY <2>3
      <3>2. \A r \in all : \E p \in lit \X lit : f[p] = r
        BY <2>3
      <3> QED BY <3>1, <3>2 DEF Surjection
    <2> HIDE DEF f
    <2>5. IsFiniteSet(all)
      BY <2>2, <2>4, FS_Surjection
    <2>6. runs \subseteq all
      BY DEF RunsOf
    <2> QED BY <2>5, <2>6, FS_Subset
  <1> QED BY <1>3, <1>4, <1>5, <1>6 DEF RunsFit

\* Dividing n things into groups of the least size that needs at most m groups.
LEMMA GroupIndex ==
  ASSUME NEW n \in Nat \ {0}, NEW m \in Nat \ {0}, NEW k \in 0..(n - 1),
         NEW size, size = (n + m - 1) \div m
  PROVE  k \div size \in 0..(m - 1)
  <1>1. size \in Nat /\ size >= 1
    OBVIOUS
  <1>2. m * size >= n
    <2>1. n + m - 1 = m * size + ((n + m - 1) % m) /\ (n + m - 1) % m \in 0..(m - 1)
      OBVIOUS
    <2> QED BY <1>1, <2>1
  <1> DEFINE q == k \div size
  <1>3. q \in Nat /\ size * q <= k
    BY <1>1
  <1> HIDE DEF q
  <1>4. q < m
    <2> SUFFICES ASSUME q >= m PROVE FALSE
      BY <1>3
    <2>1. PICK x \in Nat : q = m + x
      <3>1. q - m \in Nat /\ q = m + (q - m)
        BY <1>3
      <3> QED BY <3>1
    <2>2. size * q = m * size + size * x
      BY <1>1, <2>1
    <2>3. size * x >= 0
      BY <1>1, <2>1
    <2> DEFINE a == size * q
               b == m * size
               c == size * x
    <2>4. a \in Int /\ b \in Int /\ c \in Int
      BY <1>1, <1>3, <2>1
    <2> HIDE DEF a, b, c
    <2>5. a = b + c /\ c >= 0 /\ b >= n /\ a <= k
      BY <1>2, <1>3, <2>2, <2>3 DEF a, b, c
    <2> QED BY <2>4, <2>5
  <1>5. q \in 0..(m - 1)
    BY <1>3, <1>4
  <1> QED BY <1>5 DEF q

LEMMA GroupBound ==
  ASSUME NEW runs, IsFiniteSet(runs), NEW r \in runs, r.low \in Nat
  PROVE  GroupOf(r, runs) \in 0..(MaxTracks - 1)
  <1> DEFINE n == Cardinality(runs)
             below == {s \in runs : s.low < r.low}
             k == Cardinality(below)
             size == (n + MaxTracks - 1) \div MaxTracks
  <1>1. n \in Nat /\ MaxTracks \in Nat \ {0}
    BY FS_CardinalityType, EventsAssumption
  <1>2. IsFiniteSet(below) /\ k \in Nat /\ k <= n - 1 /\ n # 0
    <2>1. below \subseteq runs \ {r}
      <3>1. ASSUME NEW s \in below PROVE s # r
        <4>1. s.low < r.low
          OBVIOUS
        <4> QED BY <4>1
      <3> QED BY <3>1
    <2>2. IsFiniteSet(runs \ {r}) /\ Cardinality(runs \ {r}) = n - 1
      BY FS_RemoveElement
    <2>3. IsFiniteSet(below) /\ k <= Cardinality(runs \ {r})
      BY <2>1, <2>2, FS_Subset
    <2>4. k \in Nat
      BY <2>3, FS_CardinalityType
    <2> HIDE DEF below, k
    <2> QED BY <1>1, <2>2, <2>3, <2>4
  <1>3. GroupOf(r, runs) = k \div size
    BY DEF GroupOf
  <1> HIDE DEF n, k, size
  <1>4. n \in Nat \ {0} /\ k \in 0..(n - 1) /\ size = (n + MaxTracks - 1) \div MaxTracks
    BY <1>1, <1>2 DEF size
  <1>5. k \div size \in 0..(MaxTracks - 1)
    BY <1>1, <1>4, GroupIndex
  <1> QED BY <1>3, <1>5

\* The bounds of a nonempty set of runs or tracks.
LEMMA Bounds ==
  ASSUME NEW G, G # {}, \A r \in G : r.low \in Nat /\ r.high \in Nat /\ r.high < Bins
  PROVE  LET l == Least({r.low : r \in G})
             h == Greatest({r.high : r \in G})
         IN  /\ l \in Nat /\ h \in Nat /\ h < Bins
             /\ \A r \in G : l <= r.low /\ r.high <= h
  <1> DEFINE lows == {r.low : r \in G}
             highs == {r.high : r \in G}
  <1>1. Bins \in Nat \ {0} /\ Bins - 1 \in Nat
    BY EventsAssumption
  <1>2. lows \subseteq Nat /\ lows # {} /\ highs # {}
    OBVIOUS
  <1>3. highs \subseteq 0..(Bins - 1)
    BY <1>1
  <1>4. \A r \in G : r.low \in lows /\ r.high \in highs
    OBVIOUS
  <1> DEFINE l == Least(lows)
             h == Greatest(highs)
  <1> HIDE DEF lows, highs
  <1>5. l \in lows /\ \A x \in lows : l <= x
    BY <1>2, LeastIs
  <1>6. h \in highs /\ \A x \in highs : x <= h
    BY <1>1, <1>2, <1>3, GreatestIs
  <1> HIDE DEF l, h
  <1>7. l \in Nat /\ h \in Nat /\ h < Bins
    BY <1>1, <1>2, <1>3, <1>5, <1>6
  <1>8. \A r \in G : l <= r.low /\ r.high <= h
    BY <1>4, <1>5, <1>6
  <1> QED BY <1>7, <1>8 DEF l, h, lows, highs

LEMMA QualitySum ==
  ASSUME NEW S, S \subseteq UNION Quality, NEW T, T \subseteq {"boundary", "merged", "truncated"}
  PROVE  S \cup T \in Quality
  BY DEF Quality

LEMMA MergedRunOk ==
  ASSUME NEW f \in Nat, NEW G, G # {}, \A r \in G : RunOk(r, f)
  PROVE  RunOk(MergedRun(G), f) /\ MergedRun(G).cells = Covered(G)
  <1> DEFINE l == Least({r.low : r \in G})
             h == Greatest({r.high : r \in G})
             cells == UNION {r.cells : r \in G}
             q == (UNION {r.q : r \in G}) \cup {"merged", "truncated"}
  <1>1. \A r \in G : /\ r.low \in Nat /\ r.high \in Nat /\ r.high < Bins /\ r.low <= r.high
                     /\ r.q \in Quality /\ r.cells \subseteq {f} \X (r.low..r.high)
    BY DEF RunOk, RunType
  <1>2. l \in Nat /\ h \in Nat /\ h < Bins /\ \A r \in G : l <= r.low /\ r.high <= h
    <2>1. \A r \in G : r.low \in Nat /\ r.high \in Nat /\ r.high < Bins
      BY <1>1
    <2> QED BY <2>1, Bounds
  <1>3. MergedRun(G) = [low |-> l, high |-> h, cells |-> cells, q |-> q]
    BY DEF MergedRun
  <1>4. q \in Quality
    <2>1. UNION {r.q : r \in G} \subseteq UNION Quality
      BY <1>1
    <2> DEFINE S == UNION {r.q : r \in G}
               T == {"merged", "truncated"}
    <2>2. T \subseteq {"boundary", "merged", "truncated"}
      OBVIOUS
    <2>3. S \cup T \in Quality
      <3> HIDE DEF S, T
      <3> QED BY <2>1, <2>2, QualitySum DEF S
    <2>4. q = S \cup T
      BY Zenon
    <2> HIDE DEF q, S, T
    <2> QED BY <2>3, <2>4
  <1> HIDE DEF l, h, q
  <1>5. cells \subseteq {f} \X (l..h)
    <2>1. ASSUME NEW r \in G, NEW c \in r.cells PROVE c \in {f} \X (l..h)
      <3>1. PICK b \in r.low..r.high : c = <<f, b>>
        BY <1>1
      <3>2. b \in l..h
        BY <1>1, <1>2, <3>1
      <3> QED BY <3>1, <3>2
    <2> QED BY <2>1
  <1>6. cells \subseteq Nat \X Nat
    <2>1. l..h \subseteq Nat
      BY <1>2
    <2> QED BY <1>5, <2>1
  <1>7. l <= h
    <2>1. PICK r \in G : TRUE
      OBVIOUS
    <2> QED BY <1>1, <1>2, <2>1
  <1>8. cells = Covered(G)
    BY DEF Covered
  <1> HIDE DEF cells
  <1>9. /\ MergedRun(G) \in RunType /\ MergedRun(G).low = l /\ MergedRun(G).high = h
        /\ MergedRun(G).cells = cells
    BY <1>2, <1>3, <1>4, <1>6 DEF RunType
  <1> QED BY <1>2, <1>5, <1>7, <1>8, <1>9 DEF RunOk

\* The images of a finite set under a function that gives the members of T.
LEMMA ImageCount ==
  ASSUME NEW S, NEW T, IsFiniteSet(S), NEW f, f \in [S -> T], \A t \in T : \E x \in S : f[x] = t
  PROVE  IsFiniteSet(T) /\ Cardinality(T) <= Cardinality(S)
  <1>1. f \in Surjection(S, T)
    BY DEF Surjection
  <1> QED BY <1>1, FS_Surjection

\* Merging neighbours keeps every cell and needs no more runs than tracks.
LEMMA GroupedFit ==
  ASSUME frame \in Nat, NEW lit, NEW runs, RunsFit(runs, lit)
  PROVE  RunsFit(Grouped(runs), lit) /\ Cardinality(Grouped(runs)) <= MaxTracks
  <1>1. CASE Cardinality(runs) <= MaxTracks
    BY <1>1 DEF Grouped
  <1>2. CASE ~(Cardinality(runs) <= MaxTracks)
    <2> DEFINE G == {GroupOf(r, runs) : r \in runs}
               members(g) == {r \in runs : GroupOf(r, runs) = g}
               merged == {MergedRun(members(g)) : g \in G}
    <2>1. Grouped(runs) = merged
      BY <1>2 DEF Grouped
    <2>2. /\ IsFiniteSet(runs) /\ \A r \in runs : RunOk(r, frame)
          /\ \A s, t \in runs : s # t => s.cells \cap t.cells = {}
          /\ Covered(runs) = {<<frame, b>> : b \in lit}
      BY DEF RunsFit, Apart
    <2>3. MaxTracks \in Nat \ {0} /\ MaxTracks - 1 \in Nat
      BY EventsAssumption
    <2>4. G \subseteq 0..(MaxTracks - 1)
      <3>1. \A r \in runs : r.low \in Nat
        BY <2>2 DEF RunOk, RunType
      <3> QED BY <2>2, <3>1, GroupBound
    <2>5. IsFiniteSet(G) /\ Cardinality(G) <= MaxTracks
      <3>1. IsFiniteSet(0..(MaxTracks - 1)) /\ Cardinality(0..(MaxTracks - 1)) = MaxTracks
        <4>1. 0 \in Int /\ MaxTracks - 1 \in Int /\ ~(0 > MaxTracks - 1)
              /\ (MaxTracks - 1) - 0 + 1 = MaxTracks
          BY <2>3
        <4> QED BY <4>1, FS_Interval
      <3> HIDE DEF G
      <3>2. IsFiniteSet(G) /\ Cardinality(G) <= Cardinality(0..(MaxTracks - 1))
        BY <2>4, <3>1, FS_Subset
      <3> QED BY <3>1, <3>2
    <2>6. ASSUME NEW g \in G
          PROVE  /\ members(g) # {} /\ members(g) \subseteq runs
                 /\ RunOk(MergedRun(members(g)), frame)
                 /\ MergedRun(members(g)).cells = Covered(members(g))
      <3>1. members(g) # {} /\ members(g) \subseteq runs
        OBVIOUS
      <3>2. \A r \in members(g) : RunOk(r, frame)
        BY <2>2
      <3> HIDE DEF members
      <3> QED BY <3>1, <3>2, MergedRunOk
    <2>7. IsFiniteSet(merged) /\ Cardinality(merged) <= MaxTracks
      <3> DEFINE f == [g \in G |-> MergedRun(members(g))]
      <3>1. f \in [G -> merged] /\ \A t \in merged : \E g \in G : f[g] = t
        OBVIOUS
      <3> HIDE DEF f, merged, G
      <3>2. IsFiniteSet(merged) /\ Cardinality(merged) <= Cardinality(G)
        BY <2>5, <3>1, ImageCount
      <3>3. Cardinality(merged) \in Nat /\ Cardinality(G) \in Nat
        BY <2>5, <3>2, FS_CardinalityType
      <3> QED BY <2>3, <2>5, <3>2, <3>3
    <2>8. \A r \in merged : RunOk(r, frame)
      BY <2>6
    <2>9. Apart(merged)
      <3> SUFFICES ASSUME NEW x \in merged, NEW y \in merged, x # y PROVE x.cells \cap y.cells = {}
        BY DEF Apart
      <3>1. PICK g \in G : x = MergedRun(members(g))
        OBVIOUS
      <3>2. PICK h \in G : y = MergedRun(members(h))
        OBVIOUS
      <3>3. g # h
        BY <3>1, <3>2
      <3>4. x.cells = Covered(members(g)) /\ y.cells = Covered(members(h))
        BY <2>6, <3>1, <3>2
      <3>5. ASSUME NEW c \in Covered(members(g)), c \in Covered(members(h)) PROVE FALSE
        <4>1. PICK r \in members(g) : c \in r.cells
          BY DEF Covered
        <4>2. PICK s \in members(h) : c \in s.cells
          BY <3>5 DEF Covered
        <4>3. r \in runs /\ s \in runs /\ r # s
          BY <3>3
        <4> QED BY <2>2, <4>1, <4>2, <4>3
      <3> QED BY <3>4, <3>5
    <2>10. Covered(merged) = Covered(runs)
      <3>1. ASSUME NEW c \in Covered(merged) PROVE c \in Covered(runs)
        <4>1. PICK g \in G : c \in MergedRun(members(g)).cells
          BY DEF Covered
        <4>2. c \in Covered(members(g))
          BY <2>6, <4>1
        <4> QED BY <4>2 DEF Covered
      <3>2. ASSUME NEW c \in Covered(runs) PROVE c \in Covered(merged)
        <4>1. PICK r \in runs : c \in r.cells
          BY DEF Covered
        <4> DEFINE g == GroupOf(r, runs)
        <4>2. g \in G /\ r \in members(g)
          OBVIOUS
        <4>3. c \in Covered(members(g))
          BY <4>1, <4>2 DEF Covered
        <4>4. c \in MergedRun(members(g)).cells /\ MergedRun(members(g)) \in merged
          BY <2>6, <4>2, <4>3
        <4> HIDE DEF merged, members, g
        <4> QED BY <4>4 DEF Covered
      <3> QED BY <3>1, <3>2
    <2> HIDE DEF merged
    <2> QED BY <2>1, <2>2, <2>7, <2>8, <2>9, <2>10 DEF RunsFit
  <1> QED BY <1>1, <1>2

-----------------------------------------------------------------------------
(* The components of a frame.                                              *)

LEMMA LinkedSymmetric == ASSUME NEW r, NEW s PROVE Linked(r, s) <=> Linked(s, r)
  BY DEF Linked

Closed(C, runs) == \A x \in C, s \in runs : Linked(x, s) => s \in C

LEMMA ComponentIs ==
  ASSUME NEW runs, NEW r \in runs
  PROVE  /\ r \in Component(r, runs) /\ Component(r, runs) \subseteq runs
         /\ Closed(Component(r, runs), runs)
         /\ \A C \in SUBSET runs : r \in C /\ Closed(C, runs) => Component(r, runs) \subseteq C
  <1>1. Component(r, runs)
          = {s \in runs : \A C \in SUBSET runs : r \in C /\ Closed(C, runs) => s \in C}
    BY DEF Component, Closed
  <1>2. ASSUME NEW x \in Component(r, runs), NEW s \in runs, Linked(x, s)
        PROVE  s \in Component(r, runs)
    <2>1. ASSUME NEW C \in SUBSET runs, r \in C, Closed(C, runs) PROVE s \in C
      <3>1. x \in C
        BY <1>1, <2>1
      <3> QED BY <1>2, <2>1, <3>1 DEF Closed
    <2> QED BY <1>1, <2>1
  <1>3. Closed(Component(r, runs), runs)
    BY <1>2 DEF Closed
  <1> QED BY <1>1, <1>3

\* A run is in the component of every run of its component.
LEMMA ComponentOfMember ==
  ASSUME NEW runs, NEW r \in runs, NEW s \in Component(r, runs)
  PROVE  Component(s, runs) = Component(r, runs)
  <1> DEFINE A == Component(r, runs)
             B == Component(s, runs)
  <1>1. s \in runs /\ A \subseteq runs /\ Closed(A, runs) /\ r \in A
    BY ComponentIs
  <1>2. B \subseteq runs /\ Closed(B, runs) /\ s \in B /\ B \subseteq A
    BY <1>1, ComponentIs
  <1>3. r \in B
    <2> SUFFICES ASSUME r \notin B PROVE FALSE
      OBVIOUS
    <2> DEFINE D == A \ B
    <2>1. D \subseteq runs /\ r \in D
      BY <1>1
    <2>2. Closed(D, runs)
      <3> SUFFICES ASSUME NEW x \in D, NEW y \in runs, Linked(x, y) PROVE y \in D
        BY DEF Closed
      <3>1. y \in A
        BY <1>1 DEF Closed
      <3>2. y \notin B
        BY <1>1, <1>2, LinkedSymmetric DEF Closed
      <3> QED BY <3>1, <3>2
    <2>3. A \subseteq D
      <3> HIDE DEF D
      <3> QED BY <2>1, <2>2, ComponentIs
    <2> QED BY <1>2, <2>3
  <1>4. A \subseteq B
    BY <1>2, <1>3, ComponentIs
  <1> QED BY <1>2, <1>4

\* Two components are the same, or have no run and no old track in common.
LEMMA ComponentsApart ==
  ASSUME NEW runs, NEW r \in runs, NEW s \in runs, Component(r, runs) # Component(s, runs)
  PROVE  /\ Component(r, runs) \cap Component(s, runs) = {}
         /\ OldOf(Component(r, runs)) \cap OldOf(Component(s, runs)) = {}
  <1>1. ASSUME NEW x, x \in Component(r, runs), x \in Component(s, runs) PROVE FALSE
    BY <1>1, ComponentOfMember
  <1>2. ASSUME NEW t \in OldOf(Component(r, runs)), t \in OldOf(Component(s, runs)) PROVE FALSE
    <2>1. PICK x \in Component(r, runs) : t \in tracks /\ Touches(LastRun(t), x)
      BY DEF OldOf
    <2>2. PICK y \in Component(s, runs) : Touches(LastRun(t), y)
      BY <1>2 DEF OldOf
    <2>3. Linked(x, y)
      BY <2>1, <2>2 DEF Linked
    <2>4. y \in runs
      BY ComponentIs
    <2>5. y \in Component(r, runs)
      BY <2>1, <2>3, <2>4, ComponentIs DEF Closed
    <2> QED BY <1>1, <2>2, <2>5
  <1> QED BY <1>1, <1>2

LEMMA JoinedOk ==
  ASSUME frame \in Nat, \A t \in tracks : TrackOk(t, frame), NEW R, R # {},
         \A r \in R : RunOk(r, frame)
  PROVE  /\ TrackOk(Joined(R), frame + 1)
         /\ Joined(R).cells = Covered(OldOf(R)) \cup Covered(R)
  <1> DEFINE old == OldOf(R)
             parts == old \cup R
             firsts == {t.first : t \in old} \cup {frame}
             fst == Least(firsts)
             fin == frame + 1
             l == Least({p.low : p \in parts})
             h == Greatest({p.high : p \in parts})
             ll == Least({r.low : r \in R})
             lh == Greatest({r.high : r \in R})
             cells == UNION {p.cells : p \in parts}
             q == (UNION {p.q : p \in parts}) \cup SplitMark(R) \cup MergeMark(R)
  <1>1. Joined(R) = [first |-> fst, end |-> fin, low |-> l, high |-> h, lastLow |-> ll,
                     lastHigh |-> lh, cells |-> cells, q |-> q]
    BY DEF Joined
  <1>2. \A t \in old : TrackOk(t, frame)
    BY DEF OldOf
  <1>3. /\ \A t \in old : /\ t.first \in Nat /\ t.end \in Nat /\ t.end <= frame
                          /\ t.low \in Nat /\ t.high \in Nat /\ t.high < Bins /\ t.q \in Quality
                          /\ t.cells \subseteq (t.first..(t.end - 1)) \X (t.low..t.high)
        /\ \A r \in R : /\ r.low \in Nat /\ r.high \in Nat /\ r.high < Bins /\ r.q \in Quality
                        /\ r.cells \subseteq {frame} \X (r.low..r.high)
    BY <1>2 DEF TrackOk, TrackType, RunOk, RunType
  <1> HIDE DEF old
  <1>4. l \in Nat /\ h \in Nat /\ h < Bins /\ \A p \in parts : l <= p.low /\ p.high <= h
    <2>1. parts # {} /\ \A p \in parts : p.low \in Nat /\ p.high \in Nat /\ p.high < Bins
      BY <1>3
    <2> HIDE DEF parts
    <2> QED BY <2>1, Bounds
  <1>5. ll \in Nat /\ lh \in Nat
    <2>1. \A p \in R : p.low \in Nat /\ p.high \in Nat /\ p.high < Bins
      BY <1>3
    <2> QED BY <2>1, Bounds
  <1>6. fst \in Nat /\ fst <= frame /\ \A t \in old : fst <= t.first
    <2>1. firsts \subseteq Nat /\ firsts # {} /\ frame \in firsts
          /\ \A t \in old : t.first \in firsts
      BY <1>3
    <2> HIDE DEF firsts
    <2>2. fst \in firsts /\ \A x \in firsts : fst <= x
      BY <2>1, LeastIs
    <2> QED BY <2>1, <2>2
  <1>7. q \in Quality
    <2> DEFINE S == UNION {p.q : p \in parts}
               T == SplitMark(R) \cup MergeMark(R)
    <2>1. S \subseteq UNION Quality
      BY <1>3
    <2>2. SplitMark(R) \subseteq {"boundary", "merged", "truncated"}
      BY DEF SplitMark
    <2>3. MergeMark(R) \subseteq {"boundary", "merged", "truncated"}
      BY DEF MergeMark
    <2>4. T \subseteq {"boundary", "merged", "truncated"}
      BY <2>2, <2>3
    <2>5. q = S \cup T
      OBVIOUS
    <2> HIDE DEF q, S, T
    <2> QED BY <2>1, <2>4, <2>5, QualitySum
  <1>8. cells = Covered(old) \cup Covered(R)
    BY DEF Covered
  <1> HIDE DEF l, h, ll, lh, fst, q
  <1>9. cells \subseteq (fst..(fin - 1)) \X (l..h)
    <2>0. fin - 1 = frame
      OBVIOUS
    <2>1. ASSUME NEW t \in old, NEW c \in t.cells PROVE c \in (fst..frame) \X (l..h)
      <3>1. PICK a \in t.first..(t.end - 1), b \in t.low..t.high : c = <<a, b>>
        BY <1>3
      <3>2. /\ t.first \in Nat /\ t.end \in Nat /\ t.end <= frame /\ t.low \in Nat
            /\ t.high \in Nat /\ fst <= t.first /\ l <= t.low /\ t.high <= h
        BY <1>3, <1>4, <1>6
      <3>3. a \in fst..frame /\ b \in l..h
        BY <1>4, <1>6, <3>1, <3>2
      <3> QED BY <3>1, <3>3
    <2>2. ASSUME NEW r \in R, NEW c \in r.cells PROVE c \in (fst..frame) \X (l..h)
      <3>1. PICK b \in r.low..r.high : c = <<frame, b>>
        BY <1>3
      <3>2. r.low \in Nat /\ r.high \in Nat /\ l <= r.low /\ r.high <= h
        BY <1>3, <1>4
      <3>3. frame \in fst..frame /\ b \in l..h
        BY <1>4, <1>6, <3>1, <3>2
      <3> QED BY <3>1, <3>3
    <2> QED BY <2>0, <2>1, <2>2
  <1>10. cells \subseteq Nat \X Nat
    <2>1. fst..(fin - 1) \subseteq Nat /\ l..h \subseteq Nat
      BY <1>4, <1>6
    <2> QED BY <1>9, <2>1
  <1>11. fin \in Nat /\ fin <= frame + 1
    OBVIOUS
  <1> HIDE DEF cells, fin
  <1>12. /\ Joined(R) \in TrackType /\ Joined(R).first = fst /\ Joined(R).end = fin
         /\ Joined(R).low = l /\ Joined(R).high = h /\ Joined(R).cells = cells
    BY <1>1, <1>4, <1>5, <1>6, <1>7, <1>10, <1>11 DEF TrackType
  <1> QED BY <1>4, <1>8, <1>9, <1>11, <1>12 DEF TrackOk, old

LEMMA MarkedOk ==
  ASSUME NEW f \in Nat, NEW t, TrackOk(t, f)
  PROVE  TrackOk(Marked(t, {"truncated"}), f) /\ Marked(t, {"truncated"}).cells = t.cells
  <1> DEFINE q == t.q \cup {"truncated"}
  <1>1. t \in TrackType /\ t.q \in Quality
    BY DEF TrackOk, TrackType
  <1>2. q \in Quality
    BY <1>1 DEF Quality
  <1>3. Marked(t, {"truncated"}) = [t EXCEPT !.q = q]
    BY DEF Marked
  <1> HIDE DEF q
  <1> DEFINE m == [t EXCEPT !.q = q]
  <1>4. /\ m \in TrackType /\ m.first = t.first /\ m.end = t.end /\ m.low = t.low
        /\ m.high = t.high /\ m.cells = t.cells
    BY <1>1, <1>2 DEF TrackType
  <1> HIDE DEF m
  <1>5. TrackOk(m, f)
    BY <1>4 DEF TrackOk
  <1> QED BY <1>3, <1>4, <1>5 DEF m

LEMMA TrackLater ==
  ASSUME NEW f \in Nat, NEW t, TrackOk(t, f) PROVE TrackOk(t, f + 1)
  <1>1. t.end \in Nat
    BY DEF TrackOk, TrackType
  <1> QED BY <1>1 DEF TrackOk

\* The tracks that end, with their marks, are as far apart as before.
LEMMA EndedApart ==
  ASSUME NEW f \in Nat, NEW A, \A t \in A : TrackOk(t, f), Apart(A),
         NEW M, M = {Marked(t, {"truncated"}) : t \in A}
  PROVE  /\ \A m \in M : TrackOk(m, f) /\ \E t \in A : m.cells = t.cells
         /\ Apart(M) /\ Covered(M) = Covered(A)
  <1>1. \A t \in A : /\ TrackOk(Marked(t, {"truncated"}), f)
                     /\ Marked(t, {"truncated"}).cells = t.cells
                     /\ Marked(t, {"truncated"}) \in M
    BY MarkedOk
  <1>2. ASSUME NEW m \in M PROVE \E t \in A : m = Marked(t, {"truncated"}) /\ m.cells = t.cells
    BY <1>1
  <1>3. Apart(M)
    <2> SUFFICES ASSUME NEW x \in M, NEW y \in M, x # y PROVE x.cells \cap y.cells = {}
      BY DEF Apart
    <2>1. PICK s \in A : x = Marked(s, {"truncated"}) /\ x.cells = s.cells
      BY <1>2
    <2>2. PICK t \in A : y = Marked(t, {"truncated"}) /\ y.cells = t.cells
      BY <1>2
    <2>3. s # t
      BY <2>1, <2>2
    <2> QED BY <2>1, <2>2, <2>3 DEF Apart
  <1>4. Covered(M) = Covered(A)
    <2>1. ASSUME NEW c \in Covered(M) PROVE c \in Covered(A)
      BY <1>2 DEF Covered
    <2>2. ASSUME NEW c \in Covered(A) PROVE c \in Covered(M)
      BY <1>1 DEF Covered
    <2> QED BY <2>1, <2>2
  <1> QED BY <1>1, <1>2, <1>3, <1>4

LEMMA FrameStep ==
  ASSUME EventsInv, NEW lit \in SUBSET (0..(Bins - 1)), Frame(lit) PROVE EventsInv'
  <1> DEFINE runs == Grouped(RunsOf(lit))
             next == {Joined(Component(r, runs)) : r \in runs}
             over == {t \in next : t.end - t.first >= Segment}
             used == OldOf(runs)
             cut == {Marked(t, {"truncated"}) : t \in over}
             f == frame + 1
  <1>1. /\ tracks' = next \ over /\ events' = events \cup (tracks \ used) \cup cut
        /\ heard' = heard \cup {<<frame, b>> : b \in lit} /\ frame' = f
    BY DEF Frame
  <1>2. /\ frame \in Nat /\ f \in Nat /\ \A t \in events \cup tracks : TrackOk(t, frame)
        /\ Apart(events) /\ Apart(tracks)
        /\ \A e \in events, t \in tracks : e.cells \cap t.cells = {}
        /\ Covered(events) \cup Covered(tracks) = heard
    BY DEF EventsInv
  <1>3. /\ IsFiniteSet(runs) /\ \A r \in runs : RunOk(r, frame)
        /\ Apart(runs) /\ Covered(runs) = {<<frame, b>> : b \in lit}
        /\ Cardinality(runs) <= MaxTracks
    <2>1. RunsFit(RunsOf(lit), lit)
      BY <1>2, RunsOfFit
    <2> QED BY <1>2, <2>1, GroupedFit DEF RunsFit
  <1> HIDE DEF runs
  \* A cell of a run is in this frame, one of a track or event in an earlier one.
  <1>4. ASSUME NEW t \in events \cup tracks, NEW r \in runs PROVE t.cells \cap r.cells = {}
    <2>1. ASSUME NEW c \in t.cells, c \in r.cells PROVE FALSE
      <3>1. t \in TrackType /\ t.end <= frame
            /\ t.cells \subseteq (t.first..(t.end - 1)) \X (t.low..t.high)
        BY <1>2 DEF TrackOk
      <3>2. r.cells \subseteq {frame} \X (r.low..r.high)
        BY <1>3 DEF RunOk
      <3>3. c[1] \in t.first..(t.end - 1) /\ c[1] = frame
        BY <2>1, <3>1, <3>2
      <3>4. t.first \in Nat /\ t.end \in Nat
        BY <3>1 DEF TrackType
      <3> QED BY <1>2, <3>1, <3>3, <3>4
    <2> QED BY <2>1
  <1>5. ASSUME NEW r \in runs
        PROVE  /\ r \in Component(r, runs) /\ Component(r, runs) \subseteq runs
               /\ TrackOk(Joined(Component(r, runs)), f)
               /\ Joined(Component(r, runs)).cells
                    = Covered(OldOf(Component(r, runs))) \cup Covered(Component(r, runs))
    <2> DEFINE R == Component(r, runs)
    <2>1. r \in R /\ R \subseteq runs
      BY ComponentIs
    <2> HIDE DEF R
    <2>2. R # {} /\ \A x \in R : RunOk(x, frame)
      BY <1>3, <2>1
    <2>3. TrackOk(Joined(R), frame + 1) /\ Joined(R).cells = Covered(OldOf(R)) \cup Covered(R)
      BY <1>2, <2>2, JoinedOk
    <2> QED BY <2>1, <2>3 DEF R
  <1>6. ASSUME NEW t \in next
        PROVE  /\ TrackOk(t, f)
               /\ \A c \in t.cells : \E p \in used \cup runs : c \in p.cells
    <2>1. PICK r \in runs : t = Joined(Component(r, runs))
      OBVIOUS
    <2>2. TrackOk(t, f) /\ t.cells = Covered(OldOf(Component(r, runs))) \cup Covered(Component(r, runs))
      BY <1>5, <2>1
    <2>3. OldOf(Component(r, runs)) \subseteq used /\ Component(r, runs) \subseteq runs
      BY <1>5 DEF OldOf
    <2>4. ASSUME NEW c \in t.cells PROVE \E p \in used \cup runs : c \in p.cells
      BY <2>2, <2>3 DEF Covered
    <2> QED BY <2>2, <2>4
  <1>7. used \subseteq tracks
    BY DEF OldOf
  <1>8. Apart(next)
    <2> SUFFICES ASSUME NEW x \in next, NEW y \in next, x # y, NEW c \in x.cells, c \in y.cells
                 PROVE  FALSE
      BY DEF Apart
    <2>1. PICK r \in runs : x = Joined(Component(r, runs))
      OBVIOUS
    <2>2. PICK s \in runs : y = Joined(Component(s, runs))
      OBVIOUS
    <2> DEFINE A == Component(r, runs)
               B == Component(s, runs)
    <2>3. A # B
      BY <2>1, <2>2
    <2>4. A \cap B = {} /\ OldOf(A) \cap OldOf(B) = {}
      BY <2>3, ComponentsApart
    <2>5. /\ A \subseteq runs /\ B \subseteq runs
          /\ x.cells = Covered(OldOf(A)) \cup Covered(A)
          /\ y.cells = Covered(OldOf(B)) \cup Covered(B)
      BY <1>5, <2>1, <2>2
    <2> HIDE DEF A, B
    <2>6. PICK p \in OldOf(A) \cup A : c \in p.cells
      BY <2>5 DEF Covered
    <2>7. PICK o \in OldOf(B) \cup B : c \in o.cells
      BY <2>5 DEF Covered
    <2>8. OldOf(A) \subseteq tracks /\ OldOf(B) \subseteq tracks
      BY DEF OldOf
    <2>9. CASE p \in OldOf(A) /\ o \in OldOf(B)
      BY <1>2, <2>4, <2>6, <2>7, <2>8, <2>9 DEF Apart
    <2>10. CASE p \in A /\ o \in B
      BY <1>3, <2>4, <2>5, <2>6, <2>7, <2>10 DEF Apart
    <2>11. CASE p \in OldOf(A) /\ o \in B
      BY <1>4, <2>5, <2>6, <2>7, <2>8, <2>11
    <2>12. CASE p \in A /\ o \in OldOf(B)
      BY <1>4, <2>5, <2>6, <2>7, <2>8, <2>12
    <2> QED BY <2>6, <2>7, <2>9, <2>10, <2>11, <2>12
  <1>9. Covered(next) = Covered(used) \cup Covered(runs)
    <2>1. ASSUME NEW c \in Covered(next) PROVE c \in Covered(used) \cup Covered(runs)
      BY <1>6 DEF Covered
    <2>2. ASSUME NEW r \in runs, NEW c \in r.cells PROVE c \in Covered(next)
      <3>1. c \in Covered(Component(r, runs))
        BY <1>5, <2>2 DEF Covered
      <3>2. c \in Joined(Component(r, runs)).cells
        BY <1>5, <3>1
      <3> QED BY <3>2 DEF Covered
    <2>3. ASSUME NEW t \in used, NEW c \in t.cells PROVE c \in Covered(next)
      <3>1. PICK r \in runs : t \in tracks /\ Touches(LastRun(t), r)
        BY DEF OldOf
      <3>2. t \in OldOf(Component(r, runs))
        BY <1>5, <3>1 DEF OldOf
      <3>3. c \in Covered(OldOf(Component(r, runs)))
        BY <3>2 DEF Covered
      <3>4. c \in Joined(Component(r, runs)).cells
        BY <1>5, <3>3
      <3> QED BY <3>4 DEF Covered
    <2>4. Covered(used) \cup Covered(runs) \subseteq Covered(next)
      BY <2>2, <2>3 DEF Covered
    <2> QED BY <2>1, <2>4
  <1>10. IsFiniteSet(next) /\ Cardinality(next) <= MaxTracks
    <2> DEFINE g == [r \in runs |-> Joined(Component(r, runs))]
    <2>1. g \in [runs -> next] /\ \A t \in next : \E r \in runs : g[r] = t
      OBVIOUS
    <2> HIDE DEF g, next
    <2>2. IsFiniteSet(next) /\ Cardinality(next) <= Cardinality(runs)
      BY <1>3, <2>1, ImageCount
    <2>3. Cardinality(next) \in Nat /\ Cardinality(runs) \in Nat /\ MaxTracks \in Nat
      BY <1>3, <2>2, FS_CardinalityType, EventsAssumption
    <2> QED BY <1>3, <2>2, <2>3
  <1> HIDE DEF next, used
  <1>11. over \subseteq next
    OBVIOUS
  <1> HIDE DEF over
  <1>12. /\ \A m \in cut : TrackOk(m, f) /\ \E t \in over : m.cells = t.cells
         /\ Apart(cut) /\ Covered(cut) = Covered(over)
    <2>1. \A t \in over : TrackOk(t, f)
      BY <1>6, <1>11
    <2>2. Apart(over)
      BY <1>8, <1>11 DEF Apart
    <2> HIDE DEF cut
    <2> QED BY <1>2, <2>1, <2>2, EndedApart DEF cut
  <1> HIDE DEF cut, f
  \* Nothing that has ended shares a cell with a track of this frame.
  <1>13. ASSUME NEW e \in events \cup (tracks \ used), NEW t \in next PROVE e.cells \cap t.cells = {}
    <2>1. ASSUME NEW c \in e.cells, c \in t.cells PROVE FALSE
      <3>1. PICK p \in used \cup runs : c \in p.cells
        BY <1>6, <2>1
      <3>2. CASE p \in runs
        BY <1>4, <2>1, <3>1, <3>2
      <3>3. CASE p \in used /\ e \in events
        BY <1>2, <1>7, <2>1, <3>1, <3>3
      <3>4. CASE p \in used /\ e \in tracks \ used
        BY <1>2, <1>7, <2>1, <3>1, <3>4 DEF Apart
      <3> QED BY <3>1, <3>2, <3>3, <3>4
    <2> QED BY <2>1
  <1>14. \A t \in events' \cup tracks' : TrackOk(t, f)
    <2>1. \A t \in events \cup tracks : TrackOk(t, f)
      BY <1>2, TrackLater DEF f
    <2> QED BY <1>1, <1>6, <1>12, <2>1
  <1>15. Apart(tracks')
    BY <1>1, <1>8 DEF Apart
  <1>16. Apart(events')
    <2> SUFFICES ASSUME NEW x \in events', NEW y \in events', x # y PROVE x.cells \cap y.cells = {}
      BY DEF Apart
    <2> DEFINE A == events \cup (tracks \ used)
    <2>1. x \in A \cup cut /\ y \in A \cup cut
      BY <1>1
    <2>2. Apart(A)
      BY <1>2 DEF Apart
    <2>3. ASSUME NEW e \in A, NEW m \in cut PROVE e.cells \cap m.cells = {}
      <3>1. PICK t \in over : m.cells = t.cells
        BY <1>12
      <3> QED BY <1>11, <1>13, <3>1
    <2> HIDE DEF A
    <2>4. CASE x \in A /\ y \in A
      BY <2>2, <2>4 DEF Apart
    <2>5. CASE x \in cut /\ y \in cut
      BY <1>12, <2>5 DEF Apart
    <2>6. CASE x \in A /\ y \in cut
      BY <2>3, <2>6
    <2>7. CASE x \in cut /\ y \in A
      BY <2>3, <2>7
    <2> QED BY <2>1, <2>4, <2>5, <2>6, <2>7
  <1>17. \A e \in events', t \in tracks' : e.cells \cap t.cells = {}
    <2> SUFFICES ASSUME NEW e \in events', NEW t \in next \ over PROVE e.cells \cap t.cells = {}
      BY <1>1
    <2>1. CASE e \in events \cup (tracks \ used)
      BY <1>13, <2>1
    <2>2. CASE e \in cut
      <3>1. PICK s \in over : e.cells = s.cells
        BY <1>12, <2>2
      <3> QED BY <1>8, <1>11, <3>1 DEF Apart
    <2> QED BY <1>1, <2>1, <2>2
  <1>18. Covered(events') \cup Covered(tracks') = heard'
    <2>1. Covered(events') = Covered(events) \cup Covered(tracks \ used) \cup Covered(cut)
      BY <1>1 DEF Covered
    <2>2. Covered(over) \cup Covered(next \ over) = Covered(next)
      BY <1>11 DEF Covered
    <2>3. Covered(tracks \ used) \cup Covered(used) = Covered(tracks)
      BY <1>7 DEF Covered
    <2> QED BY <1>1, <1>2, <1>3, <1>9, <1>12, <2>1, <2>2, <2>3
  <1>19. IsFiniteSet(tracks') /\ Cardinality(tracks') <= MaxTracks
    <2>1. IsFiniteSet(next \ over) /\ Cardinality(next \ over) <= Cardinality(next)
      BY <1>10, FS_Subset
    <2>2. Cardinality(next \ over) \in Nat /\ Cardinality(next) \in Nat /\ MaxTracks \in Nat
      BY <1>10, <2>1, FS_CardinalityType, EventsAssumption
    <2> QED BY <1>1, <1>10, <2>1, <2>2
  <1> QED BY <1>1, <1>2, <1>14, <1>15, <1>16, <1>17, <1>18, <1>19 DEF EventsInv

\* flush(): every open track ends, as an event.
LEMMA FlushStep ==
  ASSUME EventsInv, Gap \/ Finish PROVE EventsInv'
  <1> DEFINE cut == {Marked(t, {"truncated"}) : t \in tracks}
  <1>1. /\ tracks' = {} /\ events' = events \cup cut /\ heard' = heard
        /\ frame' = frame \/ frame' = frame + 1
    BY DEF Gap, Finish
  <1>2. /\ frame \in Nat /\ \A t \in events \cup tracks : TrackOk(t, frame)
        /\ Apart(events) /\ Apart(tracks)
        /\ \A e \in events, t \in tracks : e.cells \cap t.cells = {}
        /\ Covered(events) \cup Covered(tracks) = heard
    BY DEF EventsInv
  <1>3. /\ \A m \in cut : TrackOk(m, frame) /\ \E t \in tracks : m.cells = t.cells
        /\ Apart(cut) /\ Covered(cut) = Covered(tracks)
    <2> HIDE DEF cut
    <2> QED BY <1>2, EndedApart DEF cut
  <1> HIDE DEF cut
  <1>4. frame' \in Nat /\ \A t \in events' \cup tracks' : TrackOk(t, frame')
    <2>1. \A t \in events' \cup tracks' : TrackOk(t, frame) /\ TrackOk(t, frame + 1)
      BY <1>1, <1>2, <1>3, TrackLater
    <2> QED BY <1>1, <1>2, <2>1
  <1>5. Apart(events') /\ Apart(tracks')
    BY <1>1, <1>2, <1>3 DEF Apart
  <1>6. Covered(events') \cup Covered(tracks') = heard'
    <2>1. Covered(events') = Covered(events) \cup Covered(cut) /\ Covered(tracks') = {}
      BY <1>1 DEF Covered
    <2> QED BY <1>1, <1>2, <1>3, <2>1
  <1>7. IsFiniteSet(tracks') /\ Cardinality(tracks') <= MaxTracks
    BY <1>1, FS_EmptySet, EventsAssumption
  <1> QED BY <1>1, <1>4, <1>5, <1>6, <1>7 DEF EventsInv

LEMMA EventsStep == EventsInv /\ [EventsNext]_evars => EventsInv'
  <1> SUFFICES ASSUME EventsInv, [EventsNext]_evars PROVE EventsInv'
    OBVIOUS
  <1>1. CASE \E lit \in SUBSET (0..(Bins - 1)) : Frame(lit)
    BY <1>1, FrameStep
  <1>2. CASE Gap \/ Finish
    BY <1>2, FlushStep
  <1>3. CASE UNCHANGED evars
    BY <1>3 DEF evars, EventsInv, Apart, Covered
  <1> QED BY <1>1, <1>2, <1>3 DEF EventsNext

LEMMA EventsBegin == EventsInit => EventsInv
  <1> SUFFICES ASSUME EventsInit PROVE EventsInv
    OBVIOUS
  <1>1. frame = 0 /\ tracks = {} /\ events = {} /\ heard = {}
    BY DEF EventsInit
  <1>2. IsFiniteSet(tracks) /\ Cardinality(tracks) <= MaxTracks
    BY <1>1, FS_EmptySet, EventsAssumption
  <1> QED BY <1>1, <1>2 DEF EventsInv, Apart, Covered

\* Every active cell of the spectrum is in exactly one event or open track and
\* inside its envelope, and no more tracks are kept than the table holds, for
\* every number of bins, table size and segment length (spectrum.cpp events()
\* and flush()).
THEOREM ActivityPartitioned == EventsSpec => []EventsPartitionActivity
  <1>1. EventsInv => EventsPartitionActivity
    <2> SUFFICES ASSUME EventsInv PROVE EventsPartitionActivity
      OBVIOUS
    <2>1. UNION {t.cells : t \in events \cup tracks} = heard
      BY DEF EventsInv, Covered
    <2>2. \A s, t \in events \cup tracks : s # t => s.cells \cap t.cells = {}
      BY DEF EventsInv, Apart
    <2>3. \A t \in events \cup tracks :
            t.cells \subseteq (t.first..(t.end - 1)) \X (t.low..t.high)
      BY DEF EventsInv, TrackOk
    <2>4. Cardinality(tracks) <= MaxTracks
      BY DEF EventsInv
    <2> QED BY <2>1, <2>2, <2>3, <2>4 DEF EventsPartitionActivity
  <1> QED BY <1>1, EventsBegin, EventsStep, PTL DEF EventsSpec

-----------------------------------------------------------------------------
(* The desktop and unrecorded measurements.                                *)

SessionType ==
  [id : Nat, data : BOOLEAN, running : BOOLEAN, path : Nat, hist : BOOLEAN,
   confirmed : BOOLEAN, error : BOOLEAN]
OpType ==
  [kind : {"none", "new", "save", "stop", "copy", "open", "close"}, arg : Nat,
   step : {"idle", "run", "then", "done"}, ok : BOOLEAN]
DialogType == [new : BOOLEAN, close : BOOLEAN, open : Recordings \cup {0}]
UiType ==
  [pc : {"top", "close", "snapshot", "draw", "end", "exit", "closed"}, snap : SessionType,
   approved : BOOLEAN, started : BOOLEAN, reported : BOOLEAN, signal : BOOLEAN]

DesktopTypes ==
  /\ eng \in SessionType /\ nextNo \in Nat \ {0} /\ op \in OpType /\ dlg \in DialogType
  /\ ui \in UiType /\ launch \in {"ordinary", "timed", "manual"}

\* A session that holds measurements, or receives them, has a number; one
\* opened from a file does not receive.
SessionOk(e) == /\ e.data \/ e.running => e.id # 0
                /\ e.hist => ~e.running

\* Session e may leave the engine: it is on disk, or it holds nothing and
\* will not, or the user discarded it.
MayLeave(e, agreed) ==
  e.hist \/ e.path # 0 \/ (~e.data /\ ~e.running) \/ e.id \in agreed

Working == op.step \in {"run", "then"}

\* An operation that replaces the session, or precedes the closing of the
\* window, was begun for a session that may leave, and still may.
OpInv ==
  /\ (op.kind = "open" /\ Working) => op.arg \in Recordings /\ MayLeave(eng, consent)
  /\ (op.kind = "new" /\ Working /\ op.arg = 1) => eng.id \in consent
  /\ (op.kind = "close" /\ Busy) => MayLeave(eng, consent)

\* The loop ends only over a session that may leave.
CloseInv ==
  /\ ui.approved => ui.pc \in {"end", "top", "exit", "closed"} /\ MayLeave(eng, consent)
  /\ (launch = "ordinary" /\ ui.pc \in {"exit", "closed"}) => MayLeave(eng, consent)

\* The watchdog is off in an ordinary launch; nothing starts the receiver
\* between the snapshot of a frame and its clicks.
FrameInv ==
  /\ launch = "ordinary" => dog = "off" \/ ui.pc = "closed"
  /\ (ui.pc = "draw" /\ eng.running) => ui.snap.running

DesktopInv == DesktopTypes /\ SessionOk(eng) /\ OpInv /\ CloseInv /\ FrameInv

\* The same session goes on, and measurements came only from a running receiver.
SameSession(e, f) ==
  /\ f.id = e.id /\ f.path = e.path /\ f.hist = e.hist
  /\ f.running => e.running
  /\ f.data # e.data => e.running

LEMMA NoSessionOk == NoSession \in SessionType /\ SessionOk(NoSession)
                     /\ ~NoSession.data /\ ~NoSession.running
  BY DEF NoSession, SessionType, SessionOk

LEMMA SameSessionKeeps ==
  ASSUME NEW e \in SessionType, NEW f \in SessionType, SameSession(e, f), SessionOk(e)
  PROVE  SessionOk(f) /\ \A agreed : MayLeave(e, agreed) => MayLeave(f, agreed)
  <1>1. SessionOk(f)
    BY DEF SameSession, SessionOk, SessionType
  <1>2. ASSUME NEW agreed, MayLeave(e, agreed) PROVE MayLeave(f, agreed)
    BY <1>2 DEF SameSession, SessionOk, MayLeave, SessionType
  <1> QED BY <1>1, <1>2

\* stop_locked
LEMMA StoppedSame ==
  ASSUME NEW e \in SessionType, NEW f \in Stopped(e)
  PROVE  f \in SessionType /\ SameSession(e, f) /\ ~f.running
  <1>1. CASE ~e.running
    BY <1>1 DEF Stopped, SameSession
  <1>2. CASE e.running
    <2>0. PICK d \in LastInput(e), c \in FinalSave(e) : f = AfterJoin(e, d, c)
      BY <1>2 DEF Stopped
    <2>1. f = [e EXCEPT !.running = FALSE, !.data = d, !.confirmed = c,
                        !.error = @ \/ (e.path # 0 /\ ~c)]
      BY <2>0, Zenon DEF AfterJoin
    <2>2. d \in BOOLEAN /\ c \in BOOLEAN
      BY DEF SessionType, LastInput, FinalSave
    <2> DEFINE x == e.error \/ (e.path # 0 /\ ~c)
    <2>3. x \in BOOLEAN
      BY DEF SessionType
    <2>4. f = [e EXCEPT !.running = FALSE, !.data = d, !.confirmed = c, !.error = x]
      BY <2>1 DEF SessionType
    <2> HIDE DEF x
    <2>5. f \in SessionType /\ f.id = e.id /\ f.path = e.path /\ f.hist = e.hist /\ f.running = FALSE
      BY <2>2, <2>3, <2>4 DEF SessionType
    <2> QED BY <1>2, <2>5 DEF SameSession
  <1> QED BY <1>1, <1>2 DEF SessionType

LEMMA SavesBoolean ==
  ASSUME NEW e, NEW k \in Saves(e)
  PROVE  k \in BOOLEAN
  BY DesktopAssumption DEF Saves

\* new_session: the session goes on, or it is gone and was not unrecorded, or
\* the caller discarded it.
LEMMA RenewedOutcome ==
  ASSUME NEW e \in SessionType, NEW d \in BOOLEAN, NEW r \in Renewed(e, d)
  PROVE  /\ r.ok \in BOOLEAN
         /\ \/ r.e \in SessionType /\ SameSession(e, r.e)
            \/ r.e = NoSession /\ (~e.hist /\ e.path = 0 /\ e.data => d)
  <1>0. SameSession(e, e)
    BY DEF SameSession
  <1>1. CASE ~e.hist /\ e.path = 0 /\ (e.data \/ e.running) /\ ~d
    <2>1. r = [e |-> e, ok |-> FALSE]
      BY <1>1 DEF Renewed
    <2> QED BY <1>0, <2>1
  <1>2. CASE ~(~e.hist /\ e.path = 0 /\ (e.data \/ e.running) /\ ~d)
    <2> DEFINE After(e1) == IF ~e.hist /\ e1.path # 0 /\ e1.data
                            THEN {[e |-> IF k THEN NoSession ELSE e1, ok |-> k] : k \in Saves(e1)}
                            ELSE {[e |-> NoSession, ok |-> TRUE]}
    <2>1. r \in UNION {After(e1) : e1 \in Stopped(e)}
      BY <1>2 DEF Renewed
    <2>2. PICK e1 \in Stopped(e) : r \in After(e1)
      BY <2>1
    <2>3. e1 \in SessionType /\ SameSession(e, e1)
      BY StoppedSame
    <2>4. CASE ~e.hist /\ e1.path # 0 /\ e1.data
      <3>1. PICK k \in Saves(e1) : r = [e |-> IF k THEN NoSession ELSE e1, ok |-> k]
        BY <2>2, <2>4
      <3>2. k \in BOOLEAN
        BY SavesBoolean
      <3>3. r.ok = k /\ r.e = IF k THEN NoSession ELSE e1
        BY <3>1
      <3> QED BY <2>3, <3>2, <3>3, <1>2
    <2>5. CASE ~(~e.hist /\ e1.path # 0 /\ e1.data)
      <3>1. r.e = NoSession /\ r.ok = TRUE
        BY <2>2, <2>5
      <3> QED BY <3>1, <1>2
    <2> QED BY <2>4, <2>5
  <1> QED BY <1>1, <1>2

\* open_session: the session goes on, or a recording is shown.
LEMMA OpenedOutcome ==
  ASSUME NEW e \in SessionType, NEW f \in Nat \ {0}, NEW r \in Opened(e, f)
  PROVE  /\ r.ok \in BOOLEAN /\ r.e \in SessionType
         /\ \/ SameSession(e, r.e)
            \/ SessionOk(r.e) /\ r.e.hist /\ ~r.e.running
  <1>1. CASE r \in {[e |-> e1, ok |-> FALSE] : e1 \in Stopped(e)}
    <2>1. PICK e1 \in Stopped(e) : r = [e |-> e1, ok |-> FALSE]
      BY <1>1
    <2> QED BY <2>1, StoppedSame
  <1>2. CASE r \notin {[e |-> e1, ok |-> FALSE] : e1 \in Stopped(e)}
    <2>1. PICK e1 \in Stopped(e) :
            r = [e |-> [NoSession EXCEPT !.id = f, !.path = f, !.hist = TRUE,
                                         !.confirmed = e1.confirmed], ok |-> TRUE]
      BY <1>2 DEF Opened
    <2>2. e1.confirmed \in BOOLEAN
      BY StoppedSame DEF SessionType
    <2> DEFINE o == [NoSession EXCEPT !.id = f, !.path = f, !.hist = TRUE, !.confirmed = e1.confirmed]
    <2>3. o \in SessionType /\ o.id = f /\ o.hist = TRUE /\ o.running = FALSE /\ o.data = FALSE
      BY <2>2, NoSessionOk DEF SessionType, NoSession
    <2>4. r.e = o /\ r.ok = TRUE
      BY <2>1
    <2> HIDE DEF o
    <2> QED BY <2>3, <2>4 DEF SessionOk
  <1> QED BY <1>1, <1>2

\* start: an existing session keeps its number.
LEMMA StartedOutcome ==
  ASSUME NEW e \in SessionType, SessionOk(e), nextNo \in Nat \ {0}, NEW rec \in BOOLEAN,
         NEW r \in Started(e, rec)
  PROVE  /\ r.ok \in BOOLEAN /\ r.e \in SessionType /\ SessionOk(r.e)
         /\ e.id # 0 => r.e.id = e.id
  <1> DEFINE Begun(e1) == IF e1.id # 0 THEN e1
                          ELSE [NoSession EXCEPT !.id = nextNo, !.path = IF rec THEN nextNo ELSE 0]
             Refused(e1) == e1.hist \/ (e1.id # 0 /\ e1.path # 0 /\ ~e1.confirmed)
             Results(e1) ==
               {[e |-> [e1 EXCEPT !.error = TRUE], ok |-> FALSE]}
               \cup (IF Refused(e1) \/ (e1.id # 0 /\ e1.path # 0 /\ TRUE \notin Saves(e1)) THEN {}
                     ELSE {[e |-> [Begun(e1) EXCEPT !.error = TRUE, !.confirmed = c], ok |-> FALSE]
                             : c \in FinalSave(Begun(e1))}
                          \cup {[e |-> [Begun(e1) EXCEPT !.running = TRUE, !.error = FALSE,
                                                         !.confirmed = FALSE], ok |-> TRUE]})
  <1>1. r \in UNION {Results(e1) : e1 \in Stopped(e)}
    BY DEF Started
  <1>2. PICK e1 \in Stopped(e) : r \in Results(e1)
    BY <1>1
  <1>3. e1 \in SessionType /\ SameSession(e, e1) /\ ~e1.running /\ SessionOk(e1)
    BY StoppedSame, SameSessionKeeps
  <1> DEFINE b == Begun(e1)
  <1>4. /\ b \in SessionType /\ b.id # 0 /\ (e1.id # 0 => b.id = e1.id) /\ (b.hist => e1.hist)
        /\ ~b.running
    <2>1. CASE e1.id # 0
      BY <2>1, <1>3
    <2>2. CASE e1.id = 0
      <3> DEFINE p == IF rec THEN nextNo ELSE 0
      <3>1. p \in Nat /\ b = [NoSession EXCEPT !.id = nextNo, !.path = p]
        BY <2>2
      <3> HIDE DEF p, b
      <3>2. /\ b \in SessionType /\ b.id = nextNo /\ b.hist = FALSE /\ b.running = FALSE
        BY <3>1, NoSessionOk DEF SessionType, NoSession
      <3> QED BY <2>2, <3>2
    <2> QED BY <2>1, <2>2
  <1>5. \/ r = [e |-> [e1 EXCEPT !.error = TRUE], ok |-> FALSE]
        \/ \E c \in BOOLEAN : r = [e |-> [b EXCEPT !.error = TRUE, !.confirmed = c], ok |-> FALSE]
        \/ ~e1.hist /\ r = [e |-> [b EXCEPT !.running = TRUE, !.error = FALSE, !.confirmed = FALSE],
                            ok |-> TRUE]
    <2>1. CASE r \in {[e |-> [e1 EXCEPT !.error = TRUE], ok |-> FALSE]}
      BY <2>1
    <2>2. CASE r \notin {[e |-> [e1 EXCEPT !.error = TRUE], ok |-> FALSE]}
      <3>1. ~(Refused(e1) \/ (e1.id # 0 /\ e1.path # 0 /\ TRUE \notin Saves(e1)))
        BY <1>2, <2>2, Zenon
      <3>2. ~e1.hist
        BY <3>1, Zenon
      <3>3. \/ r \in {[e |-> [b EXCEPT !.error = TRUE, !.confirmed = c], ok |-> FALSE]
                        : c \in FinalSave(b)}
            \/ r \in {[e |-> [b EXCEPT !.running = TRUE, !.error = FALSE, !.confirmed = FALSE],
                      ok |-> TRUE]}
        BY <1>2, <2>2, <3>1, Zenon
      <3> HIDE DEF b
      <3>4. CASE r \in {[e |-> [b EXCEPT !.error = TRUE, !.confirmed = c], ok |-> FALSE]
                        : c \in FinalSave(b)}
        <4>1. PICK c \in FinalSave(b) :
                r = [e |-> [b EXCEPT !.error = TRUE, !.confirmed = c], ok |-> FALSE]
          BY <3>4, Zenon
        <4>2. c \in BOOLEAN
          BY DEF FinalSave
        <4> QED BY <4>1, <4>2, Zenon
      <3> QED BY <3>2, <3>3, <3>4, Zenon
    <2> QED BY <2>1, <2>2, Zenon
  <1> HIDE DEF b, Begun, Refused, Results
  <1>6. CASE r = [e |-> [e1 EXCEPT !.error = TRUE], ok |-> FALSE]
    <2> DEFINE x == [e1 EXCEPT !.error = TRUE]
    <2>1. /\ x \in SessionType /\ x.id = e1.id /\ x.data = e1.data /\ x.running = e1.running
          /\ x.hist = e1.hist
      BY <1>3 DEF SessionType
    <2>2. r.e = x /\ r.ok = FALSE
      BY <1>6
    <2> HIDE DEF x
    <2> QED BY <1>3, <2>1, <2>2 DEF SessionOk, SameSession
  <1>7. CASE \E c \in BOOLEAN : r = [e |-> [b EXCEPT !.error = TRUE, !.confirmed = c], ok |-> FALSE]
    <2>0. PICK c \in BOOLEAN : r = [e |-> [b EXCEPT !.error = TRUE, !.confirmed = c], ok |-> FALSE]
      BY <1>7
    <2> DEFINE x == [b EXCEPT !.error = TRUE, !.confirmed = c]
    <2>1. /\ x \in SessionType /\ x.id = b.id /\ x.running = b.running /\ x.hist = b.hist
      BY <1>4 DEF SessionType
    <2>2. r.e = x /\ r.ok = FALSE
      BY <2>0
    <2> HIDE DEF x
    <2> QED BY <1>3, <1>4, <2>1, <2>2 DEF SessionOk, SameSession
  <1>8. CASE ~e1.hist /\ r = [e |-> [b EXCEPT !.running = TRUE, !.error = FALSE, !.confirmed = FALSE],
                              ok |-> TRUE]
    <2> DEFINE x == [b EXCEPT !.running = TRUE, !.error = FALSE, !.confirmed = FALSE]
    <2>1. /\ x \in SessionType /\ x.id = b.id /\ x.hist = b.hist
      BY <1>4 DEF SessionType
    <2>2. r.e = x /\ r.ok = TRUE
      BY <1>8
    <2> HIDE DEF x
    <2> QED BY <1>3, <1>4, <1>8, <2>1, <2>2 DEF SessionOk, SameSession
  <1> QED BY <1>5, <1>6, <1>7, <1>8

-----------------------------------------------------------------------------
(* The steps of the desktop.                                               *)

LoopPlaces == {"top", "close", "snapshot", "draw", "end", "exit", "closed"}

LEMMA RecordingNumbers == \A f \in Recordings : f \in Nat \ {0}
  <1>1. Cardinality(Recordings) \in Nat /\ Recordings = 1..Cardinality(Recordings)
    BY DesktopAssumption, FS_CardinalityType
  <1> QED BY <1>1

LEMMA GoMoves ==
  ASSUME ui \in UiType, NEW place \in LoopPlaces, Go(place)
  PROVE  /\ ui' \in UiType /\ ui'.pc = place
         /\ ui'.approved = ui.approved /\ ui'.snap = ui.snap
  BY DEF Go, UiType, LoopPlaces

LEMMA BeginOperation ==
  ASSUME op \in OpType, NEW kind \in {"new", "save", "stop", "copy", "open", "close"},
         NEW arg \in Nat, Begin(kind, arg)
  PROVE  /\ op' \in OpType
         /\ Busy => op' = op
         /\ ~Busy => op'.kind = kind /\ op'.arg = arg /\ op'.step = "run"
  <1> DEFINE begun == [kind |-> kind, arg |-> arg, step |-> "run", ok |-> FALSE]
  <1>1. begun \in OpType /\ begun.kind = kind /\ begun.arg = arg /\ begun.step = "run"
    BY DEF OpType
  <1>2. op' = IF Busy THEN op ELSE begun
    BY DEF Begin
  <1> HIDE DEF begun
  <1> QED BY <1>1, <1>2

\* The session goes on and nothing the invariant speaks of changes.
LEMMA SessionGoesOn ==
  ASSUME DesktopInv, eng' \in SessionType, SameSession(eng, eng'),
         UNCHANGED <<launch, nextNo, op, dlg, ui, dog, consent>>
  PROVE  DesktopInv' /\ UnrecordedStep
  <1>0. DesktopTypes /\ SessionOk(eng) /\ OpInv /\ CloseInv /\ FrameInv
    BY DEF DesktopInv
  <1>1. SessionOk(eng') /\ (MayLeave(eng, consent) => MayLeave(eng', consent'))
    BY <1>0, SameSessionKeeps DEF DesktopTypes
  <1>2. DesktopTypes' /\ SessionOk(eng)'
    BY <1>0, <1>1 DEF DesktopTypes
  <1>3. OpInv'
    BY <1>0, <1>1 DEF OpInv, Working, Busy, SameSession
  <1>4. CloseInv'
    BY <1>0, <1>1 DEF CloseInv
  <1>5. FrameInv'
    BY <1>0 DEF FrameInv, SameSession
  <1>6. UnrecordedStep
    BY <1>0, <1>4 DEF UnrecordedStep, CloseInv, MayLeave, SameSession
  <1> QED BY <1>2, <1>3, <1>4, <1>5 , <1>6 DEF DesktopInv

\* An operation makes a step and the session goes on.
LEMMA OperationGoesOn ==
  ASSUME DesktopInv, eng' \in SessionType, SameSession(eng, eng'), Working,
         op' \in OpType, op'.kind = op.kind, op'.arg = op.arg,
         UNCHANGED <<launch, nextNo, dlg, ui, dog, consent>>
  PROVE  DesktopInv' /\ UnrecordedStep
  <1>0. DesktopTypes /\ SessionOk(eng) /\ OpInv /\ CloseInv /\ FrameInv
    BY DEF DesktopInv
  <1>1. SessionOk(eng') /\ (MayLeave(eng, consent) => MayLeave(eng', consent'))
    BY <1>0, SameSessionKeeps DEF DesktopTypes
  <1>2. DesktopTypes' /\ SessionOk(eng)'
    BY <1>0, <1>1 DEF DesktopTypes
  <1>3. OpInv'
    BY <1>0, <1>1 DEF OpInv, Working, Busy, SameSession
  <1>4. CloseInv'
    BY <1>0, <1>1 DEF CloseInv
  <1>5. FrameInv'
    BY <1>0 DEF FrameInv, SameSession
  <1>6. UnrecordedStep
    BY <1>0, <1>4 DEF UnrecordedStep, CloseInv, MayLeave, SameSession
  <1> QED BY <1>2, <1>3, <1>4, <1>5 , <1>6 DEF DesktopInv

\* An operation ends with another session on the engine, one that may leave.
LEMMA OperationReplaces ==
  ASSUME DesktopInv, eng' \in SessionType, SessionOk(eng'), ~eng'.running,
         MayLeave(eng', consent'), op' \in OpType, op'.kind = op.kind, op'.step = "done",
         ~eng.hist /\ eng.path = 0 /\ eng.data => eng.id \in consent,
         UNCHANGED <<launch, nextNo, dlg, ui, dog, consent>>
  PROVE  DesktopInv' /\ UnrecordedStep
  <1>0. DesktopTypes /\ SessionOk(eng) /\ OpInv /\ CloseInv /\ FrameInv
    BY DEF DesktopInv
  <1>2. DesktopTypes' /\ SessionOk(eng)'
    BY <1>0 DEF DesktopTypes
  <1>3. OpInv'
    BY <1>0 DEF OpInv, Working, Busy
  <1>4. CloseInv'
    BY <1>0 DEF CloseInv
  <1>5. FrameInv'
    BY <1>0 DEF FrameInv
  <1>6. UnrecordedStep
    BY <1>0, <1>4 DEF UnrecordedStep, CloseInv, MayLeave
  <1> QED BY <1>2, <1>3, <1>4, <1>5 , <1>6 DEF DesktopInv

LEMMA DoneOp ==
  ASSUME op \in OpType, NEW k \in BOOLEAN, Done(k)
  PROVE  op' \in OpType /\ op'.kind = op.kind /\ op'.arg = op.arg /\ op'.step = "done"
  BY DEF Done, OpType

LEMMA ThenOp ==
  ASSUME op \in OpType, op' = [op EXCEPT !.step = "then"]
  PROVE  op' \in OpType /\ op'.kind = op.kind /\ op'.arg = op.arg
  BY DEF OpType

LEMMA ReceiverSteps ==
  ASSUME DesktopInv, Measure \/ ReceiverFails
  PROVE  DesktopInv' /\ UnrecordedStep
  <1>0. eng \in SessionType
    BY DEF DesktopInv, DesktopTypes
  <1>1. UNCHANGED <<launch, nextNo, op, dlg, ui, dog, consent>>
    BY DEF Measure, ReceiverFails, desk
  <1>2. CASE Measure
    <2>1. eng.running /\ eng' = [eng EXCEPT !.data = TRUE]
      BY <1>2 DEF Measure
    <2>2. eng' \in SessionType /\ SameSession(eng, eng')
      BY <1>0, <2>1 DEF SessionType, SameSession
    <2> QED BY <1>1, <2>2, SessionGoesOn
  <1>3. CASE ReceiverFails
    <2>1. PICK e \in Stopped(eng) : eng' = [e EXCEPT !.error = TRUE]
      BY <1>3 DEF ReceiverFails
    <2>2. e \in SessionType /\ SameSession(eng, e)
      BY <1>0, StoppedSame
    <2>3. /\ eng' \in SessionType /\ eng'.id = e.id /\ eng'.path = e.path /\ eng'.hist = e.hist
          /\ eng'.running = e.running /\ eng'.data = e.data
      BY <2>1, <2>2 DEF SessionType
    <2>4. SameSession(eng, eng')
      BY <2>2, <2>3 DEF SameSession
    <2> QED BY <1>1, <2>3, <2>4, SessionGoesOn
  <1> QED BY <1>2, <1>3

LEMMA OperationSteps ==
  ASSUME DesktopInv, OperationStep
  PROVE  DesktopInv' /\ UnrecordedStep
  <1>0. /\ eng \in SessionType /\ op \in OpType /\ OpInv /\ SessionOk(eng)
        /\ UNCHANGED <<launch, nextNo, dlg, ui, dog, consent>> /\ Working /\ Operate
    BY DEF DesktopInv, DesktopTypes, OperationStep, Working
  <1>a. SameSession(eng, eng)
    BY DEF SameSession
  <1>b. ASSUME UNCHANGED eng, NEW k \in BOOLEAN, Done(k) PROVE DesktopInv' /\ UnrecordedStep
    <2>1. op' \in OpType /\ op'.kind = op.kind /\ op'.arg = op.arg
      BY <1>0, <1>b, DoneOp
    <2>2. eng' \in SessionType /\ SameSession(eng, eng')
      BY <1>0, <1>a, <1>b
    <2> QED BY <1>0, <2>1, <2>2, OperationGoesOn
  <1>c. ASSUME UNCHANGED eng, op' = [op EXCEPT !.step = "then"] PROVE DesktopInv' /\ UnrecordedStep
    <2>1. op' \in OpType /\ op'.kind = op.kind /\ op'.arg = op.arg
      BY <1>0, <1>c, ThenOp
    <2>2. eng' \in SessionType /\ SameSession(eng, eng')
      BY <1>0, <1>a, <1>c
    <2> QED BY <1>0, <2>1, <2>2, OperationGoesOn
  <1>1. CASE op.kind = "new" /\ OpOutcome(Renewed(eng, op.arg = 1))
    <2> DEFINE d == op.arg = 1
    <2>0. d \in BOOLEAN
      OBVIOUS
    <2>1. PICK r \in Renewed(eng, d) : eng' = r.e /\ Done(r.ok)
      BY <1>1 DEF OpOutcome
    <2>d. d => eng.id \in consent
      BY <1>0, <1>1 DEF OpInv
    <2> HIDE DEF d
    <2>2. /\ r.ok \in BOOLEAN
          /\ \/ r.e \in SessionType /\ SameSession(eng, r.e)
             \/ r.e = NoSession /\ (~eng.hist /\ eng.path = 0 /\ eng.data => d)
      BY <1>0, <2>0, RenewedOutcome
    <2>3. op' \in OpType /\ op'.kind = op.kind /\ op'.arg = op.arg /\ op'.step = "done"
      BY <1>0, <2>1, <2>2, DoneOp
    <2>4. CASE eng' \in SessionType /\ SameSession(eng, eng')
      BY <1>0, <2>3, <2>4, OperationGoesOn
    <2>5. CASE eng' = NoSession /\ (~eng.hist /\ eng.path = 0 /\ eng.data => d)
      <3>1. eng' \in SessionType /\ SessionOk(eng') /\ ~eng'.running /\ ~eng'.data
        BY <2>5, NoSessionOk
      <3>2. MayLeave(eng', consent')
        BY <3>1 DEF MayLeave
      <3> QED BY <1>0, <2>3, <2>d, <2>5, <3>1, <3>2, OperationReplaces
    <2> QED BY <2>1, <2>2, <2>4, <2>5
  <1>2. CASE op.kind = "save" /\ (\E k \in Saves(eng) : Done(k)) /\ UNCHANGED eng
    <2>1. PICK k \in Saves(eng) : Done(k)
      BY <1>2
    <2> QED BY <1>2, <2>1, <1>b, SavesBoolean
  <1>3. CASE op.kind = "stop" /\ \E e \in Stopped(eng) : eng' = e /\ Done(~e.error)
    <2>1. PICK e \in Stopped(eng) : eng' = e /\ Done(~e.error)
      BY <1>3
    <2>2. eng' \in SessionType /\ SameSession(eng, eng')
      BY <1>0, <2>1, StoppedSame
    <2> DEFINE k == ~e.error
    <2>3. k \in BOOLEAN /\ Done(k)
      BY <2>1
    <2> HIDE DEF k
    <2>4. op' \in OpType /\ op'.kind = op.kind /\ op'.arg = op.arg
      BY <1>0, <2>3, DoneOp
    <2> QED BY <1>0, <2>2, <2>4, OperationGoesOn
  <1>4. CASE op.kind = "copy" /\ (\E k \in Copies(eng) : Done(k)) /\ UNCHANGED eng
    <2>1. PICK k \in Copies(eng) : Done(k)
      BY <1>4
    <2>2. k \in BOOLEAN
      BY SavesBoolean DEF Copies
    <2> QED BY <1>4, <2>1, <2>2, <1>b
  <1>5. CASE /\ op.kind = "open" /\ op.step = "run"
             /\ IF ~eng.hist /\ HasData(eng) /\ eng.path # 0
                THEN \E k \in Saves(eng) : IF k THEN op' = [op EXCEPT !.step = "then"] ELSE Done(FALSE)
                ELSE op' = [op EXCEPT !.step = "then"]
             /\ UNCHANGED eng
    <2>1. op' = [op EXCEPT !.step = "then"] \/ Done(FALSE)
      BY <1>5, Zenon
    <2>2. FALSE \in BOOLEAN /\ UNCHANGED eng
      BY <1>5
    <2> QED BY <2>1, <2>2, <1>b, <1>c
  <1>6. CASE op.kind = "open" /\ op.step = "then" /\ OpOutcome(Opened(eng, op.arg))
    <2>1. PICK r \in Opened(eng, op.arg) : eng' = r.e /\ Done(r.ok)
      BY <1>6 DEF OpOutcome
    <2>2. op.arg \in Nat \ {0} /\ MayLeave(eng, consent)
      BY <1>0, <1>6, RecordingNumbers DEF OpInv, Working
    <2>3. /\ r.ok \in BOOLEAN /\ r.e \in SessionType
          /\ \/ SameSession(eng, r.e)
             \/ SessionOk(r.e) /\ r.e.hist /\ ~r.e.running
      BY <1>0, <2>2, OpenedOutcome
    <2>4. op' \in OpType /\ op'.kind = op.kind /\ op'.arg = op.arg /\ op'.step = "done"
      BY <1>0, <2>1, <2>3, DoneOp
    <2>5. CASE SameSession(eng, eng')
      BY <1>0, <2>1, <2>3, <2>4, <2>5, OperationGoesOn
    <2>6. CASE SessionOk(eng') /\ eng'.hist /\ ~eng'.running
      <3>1. MayLeave(eng', consent') /\ (~eng.hist /\ eng.path = 0 /\ eng.data => eng.id \in consent)
        BY <2>2, <2>6 DEF MayLeave
      <3> QED BY <1>0, <2>1, <2>3, <2>4, <2>6, <3>1, OperationReplaces
    <2> QED BY <2>1, <2>3, <2>5, <2>6
  <1>7. CASE op.kind = "close" /\ op.step = "run" /\ eng' \in Stopped(eng)
             /\ op' = [op EXCEPT !.step = "then"]
    <2>1. eng' \in SessionType /\ SameSession(eng, eng')
      BY <1>0, <1>7, StoppedSame
    <2>2. op' \in OpType /\ op'.kind = op.kind /\ op'.arg = op.arg
      BY <1>0, <1>7, ThenOp
    <2> QED BY <1>0, <2>1, <2>2, OperationGoesOn
  <1>8. CASE op.kind = "close" /\ op.step = "then" /\ (\E k \in Saves(eng) : Done(k)) /\ UNCHANGED eng
    <2>1. PICK k \in Saves(eng) : Done(k)
      BY <1>8
    <2> QED BY <1>8, <2>1, <1>b, SavesBoolean
  <1> QED BY <1>0, <1>1, <1>2, <1>3, <1>4, <1>5, <1>6, <1>7, <1>8, Zenon DEF Operate

\* The loop moves, the session goes on, and the operation stays or ends.
LEMMA LoopGoesOn ==
  ASSUME DesktopInv, eng' \in SessionType, SameSession(eng, eng'), ui' \in UiType,
         op' \in OpType, OpInv', dlg' \in DialogType, ui'.approved => ui.approved,
         ui'.pc \in {"close", "draw"} => ~ui.approved, ui'.pc # "snapshot" \/ ~ui.approved,
         ui'.pc \in {"exit", "closed"} /\ launch = "ordinary" => MayLeave(eng, consent),
         ui'.pc = "draw" => ui'.snap.running = eng'.running,
         dog' = dog \/ launch # "ordinary" \/ ui'.pc = "closed",
         launch = "ordinary" /\ ui.pc = "closed" => ui'.pc = "closed",
         UNCHANGED <<launch, nextNo, consent>>
  PROVE  DesktopInv' /\ UnrecordedStep
  <1>0. DesktopTypes /\ SessionOk(eng) /\ CloseInv /\ FrameInv
    BY DEF DesktopInv
  <1>1. SessionOk(eng') /\ (MayLeave(eng, consent) => MayLeave(eng', consent'))
    BY <1>0, SameSessionKeeps DEF DesktopTypes
  <1>2. DesktopTypes' /\ SessionOk(eng)'
    BY <1>0, <1>1 DEF DesktopTypes
  <1>3. CloseInv'
    <2>1. ui'.pc \in LoopPlaces
      BY DEF UiType, LoopPlaces
    <2> QED BY <1>0, <1>1, <2>1 DEF CloseInv, LoopPlaces
  <1>4. FrameInv'
    BY <1>0 DEF FrameInv
  <1>5. UnrecordedStep
    BY <1>0, <1>3 DEF UnrecordedStep, CloseInv, MayLeave, SameSession
  <1> QED BY <1>2, <1>3, <1>4, <1>5 DEF DesktopInv

LEMMA WatchdogSteps ==
  ASSUME DesktopInv, DeadlinePasses \/ DeadlineStops
  PROVE  DesktopInv' /\ UnrecordedStep
  <1>0. DesktopTypes /\ SessionOk(eng) /\ OpInv /\ CloseInv /\ FrameInv
    BY DEF DesktopInv
  <1>1. UNCHANGED <<launch, nextNo, op, dlg, ui, consent>> /\ dog \in {"armed", "expired"}
    BY DEF DeadlinePasses, DeadlineStops
  <1>2. eng' \in SessionType /\ SameSession(eng, eng')
    <2>1. CASE DeadlinePasses
      BY <1>0, <2>1 DEF DeadlinePasses, DesktopTypes, SameSession
    <2>2. CASE DeadlineStops
      BY <1>0, <2>2, StoppedSame DEF DeadlineStops, DesktopTypes
    <2> QED BY <2>1, <2>2
  <1>3. SessionOk(eng') /\ (MayLeave(eng, consent) => MayLeave(eng', consent'))
    BY <1>0, <1>1, <1>2, SameSessionKeeps DEF DesktopTypes
  <1>4. DesktopTypes' /\ SessionOk(eng)'
    BY <1>0, <1>1, <1>2, <1>3 DEF DesktopTypes
  <1>5. OpInv'
    BY <1>0, <1>1, <1>2, <1>3 DEF OpInv, Working, Busy, SameSession
  <1>6. CloseInv'
    BY <1>0, <1>1, <1>3 DEF CloseInv
  <1>7. FrameInv'
    BY <1>0, <1>1, <1>2 DEF FrameInv, SameSession
  <1>8. UnrecordedStep
    BY <1>0, <1>1, <1>2, <1>6 DEF UnrecordedStep, CloseInv, MayLeave, SameSession
  <1> QED BY <1>4, <1>5, <1>6, <1>7, <1>8 DEF DesktopInv

LEMMA InterruptStep ==
  ASSUME DesktopInv, Interrupt
  PROVE  DesktopInv' /\ UnrecordedStep
  <1>0. DesktopTypes /\ SessionOk(eng) /\ OpInv /\ CloseInv /\ FrameInv
    BY DEF DesktopInv
  <1>1. UNCHANGED <<launch, eng, nextNo, op, dlg, dog, consent>>
        /\ ui' = [ui EXCEPT !.signal = TRUE]
    BY DEF Interrupt
  <1>2. ui' \in UiType /\ ui'.pc = ui.pc /\ ui'.approved = ui.approved /\ ui'.snap = ui.snap
    BY <1>0, <1>1 DEF DesktopTypes, UiType
  <1>3. DesktopTypes' /\ SessionOk(eng)' /\ OpInv'
    BY <1>0, <1>1, <1>2 DEF DesktopTypes, OpInv, Working, Busy
  <1>4. CloseInv' /\ FrameInv'
    BY <1>0, <1>1, <1>2 DEF CloseInv, FrameInv
  <1>5. UnrecordedStep
    BY <1>1, <1>4 DEF UnrecordedStep, CloseInv, MayLeave
  <1> QED BY <1>3, <1>4, <1>5 DEF DesktopInv

\* A frame begins: an operation that ended is cleared, and a close that was
\* confirmed ends the loop.
LEMMA FrameBeginStep ==
  ASSUME DesktopInv, FrameBegins
  PROVE  DesktopInv' /\ UnrecordedStep
  <1>0. DesktopTypes /\ SessionOk(eng) /\ OpInv /\ CloseInv /\ FrameInv
    BY DEF DesktopInv
  <1> DEFINE closed == op.step = "done" /\ op.ok /\ op.kind = "close"
             approved == ui.approved \/ closed
  <1>1. /\ op' = IF op.step = "done" THEN NoOp ELSE op
        /\ dlg' = [dlg EXCEPT !.new = FALSE] \/ dlg' = dlg
        /\ ui' = [ui EXCEPT !.approved = approved, !.pc = IF approved THEN "exit" ELSE "close"]
        /\ UNCHANGED <<launch, eng, nextNo, dog, consent>>
    BY DEF FrameBegins
  <1>2. approved \in BOOLEAN /\ (approved => MayLeave(eng, consent))
    BY <1>0 DEF CloseInv, OpInv, Busy, DesktopTypes, UiType
  <1> HIDE DEF approved
  <1> DEFINE place == IF approved THEN "exit" ELSE "close"
  <1>3. place \in LoopPlaces
    BY DEF LoopPlaces
  <1>4. ui' = [ui EXCEPT !.approved = approved, !.pc = place]
    BY <1>1
  <1> HIDE DEF place
  <1>5. ui' \in UiType /\ ui'.approved = approved /\ ui'.pc = place
    BY <1>0, <1>2, <1>3, <1>4 DEF DesktopTypes, UiType, LoopPlaces
  <1>6. op' \in OpType /\ OpInv'
    <2>1. NoOp \in OpType /\ NoOp.kind = "none"
      BY DEF NoOp, OpType
    <2>2. CASE op' = NoOp
      BY <2>1, <2>2 DEF OpInv
    <2>3. CASE op' = op
      BY <1>0, <1>1, <2>3 DEF DesktopTypes, OpInv, Working, Busy
    <2> QED BY <1>1, <2>2, <2>3
  <1>7. dlg' \in DialogType
    BY <1>0, <1>1 DEF DesktopTypes, DialogType
  <1>8. DesktopTypes' /\ SessionOk(eng)'
    BY <1>0, <1>1, <1>5, <1>6, <1>7 DEF DesktopTypes
  <1>9. CloseInv'
    BY <1>1, <1>2, <1>5 DEF CloseInv, place
  <1>10. FrameInv'
    <2>1. ui.pc = "top"
      BY DEF FrameBegins, LoopAt
    <2> QED BY <1>0, <1>1, <1>5, <2>1 DEF FrameInv, place
  <1>11. UnrecordedStep
    BY <1>1, <1>9 DEF UnrecordedStep, CloseInv, MayLeave
  <1> QED BY <1>6, <1>8, <1>9, <1>10, <1>11 DEF DesktopInv

\* The close button: the window closes, or a save of the recording begins,
\* only over a session that may leave.
LEMMA WindowCloseStep ==
  ASSUME DesktopInv, WindowClose
  PROVE  DesktopInv' /\ UnrecordedStep
  <1>0. DesktopTypes /\ SessionOk(eng) /\ OpInv /\ CloseInv /\ FrameInv
    BY DEF DesktopInv
  <1>1. ui.pc = "close" /\ ~ui.approved /\ UNCHANGED <<launch, eng, nextNo, dog, consent>>
    BY <1>0 DEF WindowClose, LoopAt, CloseInv
  <1>2. eng' \in SessionType /\ SameSession(eng, eng')
    BY <1>0, <1>1 DEF DesktopTypes, SameSession
  <1>3. ~AsksFirst(eng) => MayLeave(eng, consent)
    BY DEF AsksFirst, HasData, MayLeave
  <1>a. ASSUME NEW place \in {"snapshot", "exit"}, Go(place), op' \in OpType, OpInv', dlg' \in DialogType,
               launch = "ordinary" /\ place = "exit" => MayLeave(eng, consent)
        PROVE  DesktopInv' /\ UnrecordedStep
    <2>1. place \in LoopPlaces
      BY DEF LoopPlaces
    <2>2. /\ ui' \in UiType /\ ui'.pc = place
          /\ ui'.approved = ui.approved /\ ui'.snap = ui.snap
      BY <1>0, <1>a, <2>1, GoMoves DEF DesktopTypes
    <2> QED BY <1>0, <1>1, <1>2, <1>a, <2>2, LoopGoesOn
  <1>b. ASSUME UNCHANGED <<op, dlg>> PROVE op' \in OpType /\ OpInv' /\ dlg' \in DialogType
    BY <1>0, <1>1, <1>b DEF DesktopTypes, OpInv, Working, Busy
  <1>4. CASE Go("snapshot") /\ UNCHANGED <<op, dlg>>
    BY <1>4, <1>a, <1>b
  <1>5. CASE launch # "ordinary" /\ Go("exit") /\ UNCHANGED <<op, dlg>>
    BY <1>5, <1>a, <1>b
  <1>6. CASE dlg' = [dlg EXCEPT !.close = TRUE] /\ Go("snapshot") /\ UNCHANGED op
    <2>1. dlg' \in DialogType
      BY <1>0, <1>6 DEF DesktopTypes, DialogType
    <2>2. op' \in OpType /\ OpInv'
      BY <1>0, <1>1, <1>6 DEF DesktopTypes, OpInv, Working, Busy
    <2> QED BY <1>6, <1>a, <2>1, <2>2
  <1>7. CASE ~Busy /\ ~AsksFirst(eng) /\ Go("exit") /\ UNCHANGED <<op, dlg>>
    BY <1>7, <1>3, <1>a, <1>b
  <1>8. CASE ~Busy /\ ~AsksFirst(eng) /\ Begin("close", 0) /\ Go("snapshot") /\ UNCHANGED dlg
    <2>1. op' \in OpType /\ op'.kind = "close" /\ op'.step = "run"
      BY <1>0, <1>8, BeginOperation DEF DesktopTypes
    <2>2. OpInv'
      BY <1>1, <1>3, <1>8, <2>1 DEF OpInv
    <2>3. dlg' \in DialogType
      BY <1>0, <1>8 DEF DesktopTypes
    <2> QED BY <1>8, <1>a, <2>1, <2>2, <2>3
  <1> QED BY <1>4, <1>5, <1>6, <1>7, <1>8 DEF WindowClose

LEMMA SnapshotStep ==
  ASSUME DesktopInv, TakeSnapshot
  PROVE  DesktopInv' /\ UnrecordedStep
  <1>0. DesktopTypes /\ SessionOk(eng) /\ OpInv /\ CloseInv /\ FrameInv
    BY DEF DesktopInv
  <1> DEFINE reported == ui.reported \/ (launch = "manual" /\ ui.started /\ ~eng'.running)
             place == IF (launch = "timed" /\ ui.started /\ eng'.error) \/ dog \in {"expired", "stopped"}
                      THEN "exit" ELSE "draw"
  <1>1. /\ ui.pc = "snapshot" /\ UNCHANGED <<launch, nextNo, op, dlg, dog, consent>>
        /\ eng' \in Stopped(eng) \/ eng' = eng
    BY DEF TakeSnapshot, LoopAt
  <1>2. ui' = [ui EXCEPT !.snap = eng', !.reported = reported, !.pc = place]
    BY Zenon DEF TakeSnapshot
  <1>3. eng' \in SessionType /\ SameSession(eng, eng')
    BY <1>0, <1>1, StoppedSame DEF DesktopTypes, SameSession
  <1>4. reported \in BOOLEAN /\ place \in LoopPlaces /\ (launch = "ordinary" => place = "draw")
        /\ place \in {"draw", "exit"}
    BY <1>0, <1>1 DEF DesktopTypes, UiType, LoopPlaces, FrameInv
  <1> HIDE DEF reported, place
  <1>5. ui' \in UiType /\ ui'.snap = eng' /\ ui'.pc = place /\ ui'.approved = ui.approved
    BY <1>0, <1>2, <1>3, <1>4 DEF DesktopTypes, UiType, LoopPlaces
  <1>6. ~ui.approved
    BY <1>0, <1>1 DEF CloseInv
  <1>7. op' \in OpType /\ OpInv' /\ dlg' \in DialogType
    <2>1. MayLeave(eng, consent) => MayLeave(eng', consent')
      BY <1>0, <1>1, <1>3, SameSessionKeeps DEF DesktopTypes
    <2> QED BY <1>0, <1>1, <1>3, <2>1 DEF DesktopTypes, OpInv, Working, Busy, SameSession
  <1> QED BY <1>1, <1>3, <1>4, <1>5, <1>6, <1>7, LoopGoesOn

LEMMA FrameEndStep ==
  ASSUME DesktopInv, FrameEnds
  PROVE  DesktopInv' /\ UnrecordedStep
  <1>0. DesktopTypes /\ SessionOk(eng) /\ OpInv /\ CloseInv /\ FrameInv
    BY DEF DesktopInv
  <1>1. ui.pc = "end" /\ Go("top") /\ UNCHANGED <<launch, eng, nextNo, op, dlg, dog, consent>>
    BY DEF FrameEnds, LoopAt
  <1>2. "top" \in LoopPlaces
    BY DEF LoopPlaces
  <1>3. ui' \in UiType /\ ui'.pc = "top" /\ ui'.approved = ui.approved
    BY <1>0, <1>1, <1>2, GoMoves DEF DesktopTypes
  <1>4. eng' \in SessionType /\ SameSession(eng, eng') /\ op' \in OpType /\ dlg' \in DialogType /\ OpInv'
    BY <1>0, <1>1 DEF DesktopTypes, SameSession, OpInv, Working, Busy
  <1> QED BY <1>1, <1>3, <1>4, LoopGoesOn

LEMMA LoopEndStep ==
  ASSUME DesktopInv, LoopEnds
  PROVE  DesktopInv' /\ UnrecordedStep
  <1>0. DesktopTypes /\ SessionOk(eng) /\ OpInv /\ CloseInv /\ FrameInv
    BY DEF DesktopInv
  <1>1. CASE /\ LoopAt("top") /\ dog \in {"expired", "stopped"} /\ Go("exit")
             /\ UNCHANGED <<launch, eng, nextNo, op, dlg, dog, consent>>
    <2>1. launch # "ordinary"
      BY <1>0, <1>1 DEF FrameInv, LoopAt
    <2>2. "exit" \in LoopPlaces
      BY DEF LoopPlaces
    <2>3. ui' \in UiType /\ ui'.pc = "exit" /\ ui'.approved = ui.approved
      BY <1>0, <1>1, <2>2, GoMoves DEF DesktopTypes
    <2>4. eng' \in SessionType /\ SameSession(eng, eng') /\ op' \in OpType /\ dlg' \in DialogType /\ OpInv'
      BY <1>0, <1>1 DEF DesktopTypes, SameSession, OpInv, Working, Busy
    <2> QED BY <1>1, <2>1, <2>3, <2>4, LoopGoesOn
  <1>2. CASE /\ LoopAt("exit") /\ eng' \in Stopped(eng) /\ dog' = "stopped" /\ Go("closed")
             /\ UNCHANGED <<launch, nextNo, op, dlg, consent>>
    <2>1. "closed" \in LoopPlaces
      BY DEF LoopPlaces
    <2>2. ui' \in UiType /\ ui'.pc = "closed" /\ ui'.approved = ui.approved
      BY <1>0, <1>2, <2>1, GoMoves DEF DesktopTypes
    <2>3. eng' \in SessionType /\ SameSession(eng, eng')
      BY <1>0, <1>2, StoppedSame DEF DesktopTypes
    <2>4. MayLeave(eng, consent) => MayLeave(eng', consent')
      BY <1>0, <1>2, <2>3, SameSessionKeeps DEF DesktopTypes
    <2>5. op' \in OpType /\ dlg' \in DialogType /\ OpInv'
      BY <1>0, <1>2, <2>3, <2>4 DEF DesktopTypes, SameSession, OpInv, Working, Busy
    <2>6. launch = "ordinary" => MayLeave(eng, consent)
      BY <1>0, <1>2 DEF CloseInv, LoopAt
    <2> QED BY <1>2, <2>2, <2>3, <2>5, <2>6, LoopGoesOn
  <1> QED BY <1>1, <1>2 DEF LoopEnds

\* One frame: a click may begin an operation; what it may replace was on disk
\* or empty when the click looked at it, or is now discarded.
LEMMA DrawStep ==
  ASSUME DesktopInv, Draw
  PROVE  DesktopInv' /\ UnrecordedStep
  <1>0. DesktopTypes /\ SessionOk(eng) /\ OpInv /\ CloseInv /\ FrameInv
    BY DEF DesktopInv
  <1>1. ui.pc = "draw" /\ ~ui.approved /\ Go("end") /\ UNCHANGED <<launch, eng, nextNo, dog>>
    BY <1>0 DEF Draw, LoopAt, CloseInv
  <1>2. /\ ui' \in UiType /\ ui'.pc = "end" /\ ~ui'.approved
    <2>1. "end" \in LoopPlaces
      BY DEF LoopPlaces
    <2> QED BY <1>0, <1>1, <2>1, GoMoves DEF DesktopTypes
  <1>a. ASSUME op' \in OpType, OpInv', dlg' \in DialogType PROVE DesktopInv' /\ UnrecordedStep
    <2>1. DesktopTypes' /\ SessionOk(eng)'
      BY <1>0, <1>1, <1>2, <1>a DEF DesktopTypes
    <2>2. CloseInv' /\ FrameInv'
      BY <1>0, <1>1, <1>2 DEF CloseInv, FrameInv
    <2>3. UnrecordedStep
      BY <1>1, <1>2 DEF UnrecordedStep
    <2> QED BY <1>a, <2>1, <2>2, <2>3 DEF DesktopInv
  <1>b. UNCHANGED <<op, consent>> => op' \in OpType /\ OpInv'
    BY <1>0, <1>1 DEF DesktopTypes, OpInv, Working, Busy
  <1>c. UNCHANGED dlg => dlg' \in DialogType
    BY <1>0 DEF DesktopTypes
  <1>d. ASSUME NEW kind \in {"new", "save", "stop", "copy"}, ~Busy, Begin(kind, 0)
        PROVE  op' \in OpType /\ OpInv'
    <2>1. op' \in OpType /\ op'.kind = kind /\ op'.arg = 0
      BY <1>0, <1>d, BeginOperation DEF DesktopTypes
    <2> QED BY <2>1 DEF OpInv
  <1>e. NoDialog \in DialogType
    BY DEF NoDialog, DialogType
  <1>3. CASE ClickNew
    <2>1. CASE dlg' = [dlg EXCEPT !.new = TRUE] /\ UNCHANGED op
      <3>1. dlg' \in DialogType
        BY <1>0, <2>1 DEF DesktopTypes, DialogType
      <3> QED BY <1>3, <2>1, <3>1, <1>a, <1>b DEF ClickNew
    <2>2. CASE Begin("new", 0) /\ UNCHANGED dlg
      BY <1>3, <2>2, <1>a, <1>c, <1>d DEF ClickNew
    <2> QED BY <1>3, <2>1, <2>2 DEF ClickNew
  <1>4. CASE ClickOperation
    BY <1>4, <1>a, <1>c, <1>d DEF ClickOperation
  <1>5. CASE ClickChooser
    BY <1>5, <1>a, <1>b, <1>c DEF ClickChooser
  <1>6. CASE ChooseFile
    <2>1. CASE picker = "copy" /\ Begin("copy", 0) /\ UNCHANGED dlg
      BY <1>6, <2>1, <1>a, <1>c, <1>d DEF ChooseFile
    <2>2. ASSUME NEW f \in Recordings, HasData(eng) /\ eng.path = 0,
                 dlg' = [dlg EXCEPT !.open = f] /\ UNCHANGED op
          PROVE  DesktopInv' /\ UnrecordedStep
      <3>1. dlg' \in DialogType
        BY <1>0, <2>2 DEF DesktopTypes, DialogType
      <3> QED BY <1>6, <2>2, <3>1, <1>a, <1>b DEF ChooseFile
    <2>3. ASSUME NEW f \in Recordings, ~(HasData(eng) /\ eng.path = 0), picker = "open",
                 Begin("open", f) /\ UNCHANGED dlg
          PROVE  DesktopInv' /\ UnrecordedStep
      <3>1. ~Busy /\ ~ui.snap.running /\ UNCHANGED consent
        BY <1>6, <2>3 DEF ChooseFile
      <3>2. ~eng.running
        BY <1>0, <1>1, <3>1 DEF FrameInv
      <3>3. MayLeave(eng, consent)
        BY <2>3, <3>2 DEF MayLeave, HasData
      <3>4. op' \in OpType /\ op'.kind = "open" /\ op'.arg = f
        BY <1>0, <2>3, <3>1, RecordingNumbers, BeginOperation DEF DesktopTypes
      <3>5. OpInv'
        BY <1>1, <3>1, <3>3, <3>4 DEF OpInv
      <3> QED BY <2>3, <3>4, <3>5, <1>a, <1>c
    <2>4. CASE picker = "open" /\ \E f \in Recordings :
                 IF HasData(eng) /\ eng.path = 0
                 THEN dlg' = [dlg EXCEPT !.open = f] /\ UNCHANGED op
                 ELSE Begin("open", f) /\ UNCHANGED dlg
      BY <2>2, <2>3, <2>4, Zenon
    <2> QED BY <1>6, <2>1, <2>4 DEF ChooseFile
  <1>7. CASE CancelChooser
    BY <1>7, <1>a, <1>b, <1>c DEF CancelChooser
  <1>8. CASE ClickDiscard
    <2>1. consent' = consent \cup {eng.id} /\ dlg' = NoDialog
      BY <1>8 DEF ClickDiscard
    <2>2. eng'.id \in consent' /\ MayLeave(eng, consent)'
      BY <1>1, <2>1 DEF MayLeave
    <2>3. op' \in OpType /\ OpInv'
      <3>1. CASE dlg.open # 0 /\ Begin("open", dlg.open)
        <4>1. dlg.open \in Recordings
          BY <1>0, <3>1 DEF DesktopTypes, DialogType
        <4>2. op' \in OpType /\ (Busy => op' = op) /\ (~Busy => op'.kind = "open" /\ op'.arg = dlg.open)
          BY <1>0, <3>1, <4>1, RecordingNumbers, BeginOperation DEF DesktopTypes
        <4> QED BY <1>0, <2>2, <4>1, <4>2 DEF OpInv, Working, Busy
      <3>2. CASE dlg.open = 0 /\ Begin("new", 1)
        <4>1. op' \in OpType /\ (Busy => op' = op) /\ (~Busy => op'.kind = "new")
          BY <1>0, <3>2, BeginOperation DEF DesktopTypes
        <4> QED BY <1>0, <2>2, <4>1 DEF OpInv, Working, Busy
      <3> QED BY <1>8, <3>1, <3>2 DEF ClickDiscard
    <2> QED BY <2>1, <2>3, <1>a, <1>e
  <1>9. CASE ClickKeep
    BY <1>9, <1>a, <1>b, <1>e DEF ClickKeep
  <1>10. CASE QueueAnalysis
    BY <1>10, <1>a, <1>b, <1>c DEF QueueAnalysis
  <1>11. CASE UNCHANGED <<op, request, dlg, picker, consent>>
    BY <1>11, <1>a, <1>b, <1>c
  <1> QED BY <1>3, <1>4, <1>5, <1>6, <1>7, <1>8, <1>9, <1>10, <1>11 DEF Draw

LEMMA DiscardAndCloseStep ==
  ASSUME DesktopInv, DiscardAndClose
  PROVE  DesktopInv' /\ UnrecordedStep
  <1>0. DesktopTypes /\ SessionOk(eng) /\ OpInv /\ CloseInv /\ FrameInv
    BY DEF DesktopInv
  <1>1. /\ ui.pc = "draw" /\ consent' = consent \cup {eng.id}
        /\ dlg' = [dlg EXCEPT !.close = FALSE, !.new = FALSE]
        /\ ui' = [ui EXCEPT !.pc = "end", !.approved = TRUE]
        /\ UNCHANGED <<launch, eng, nextNo, op, dog>>
    BY DEF DiscardAndClose, LoopAt
  <1>2. ui' \in UiType /\ ui'.pc = "end" /\ dlg' \in DialogType
    BY <1>0, <1>1 DEF DesktopTypes, UiType, DialogType
  <1>3. MayLeave(eng, consent)' /\ eng'.id \in consent'
    BY <1>1 DEF MayLeave
  <1>4. DesktopTypes' /\ SessionOk(eng)'
    BY <1>0, <1>1, <1>2 DEF DesktopTypes
  <1>5. OpInv'
    BY <1>0, <1>1, <1>3 DEF OpInv, Working, Busy
  <1>6. CloseInv' /\ FrameInv'
    BY <1>0, <1>1, <1>2, <1>3 DEF CloseInv, FrameInv
  <1>7. UnrecordedStep
    BY <1>1, <1>2 DEF UnrecordedStep
  <1> QED BY <1>4, <1>5, <1>6, <1>7 DEF DesktopInv

LEMMA ClickStartStep ==
  ASSUME DesktopInv, ClickStart
  PROVE  DesktopInv' /\ UnrecordedStep
  <1>0. DesktopTypes /\ SessionOk(eng) /\ OpInv /\ CloseInv /\ FrameInv
    BY DEF DesktopInv
  <1>1. ui.pc = "draw" /\ ~Busy /\ ~ui.approved /\ UNCHANGED <<launch, op, dlg, consent>>
    BY <1>0 DEF ClickStart, LoopAt, CloseInv
  <1>r. PICK rec \in BOOLEAN : \E r \in Started(eng, rec) :
          /\ eng' = r.e
          /\ nextNo' = IF r.e.id = nextNo THEN nextNo + 1 ELSE nextNo
          /\ panel' = IF r.ok THEN NothingShown ELSE panel
          /\ ui' = [ui EXCEPT !.pc = "end", !.started = @ \/ (launch # "ordinary" /\ r.ok)]
          /\ dog' = IF launch = "timed" /\ r.ok THEN "armed" ELSE dog
    BY Zenon DEF ClickStart
  <1>2. PICK r \in Started(eng, rec) :
          /\ eng' = r.e
          /\ nextNo' = IF r.e.id = nextNo THEN nextNo + 1 ELSE nextNo
          /\ ui' = [ui EXCEPT !.pc = "end", !.started = @ \/ (launch # "ordinary" /\ r.ok)]
          /\ dog' = IF launch = "timed" /\ r.ok THEN "armed" ELSE dog
    BY <1>r, Zenon
  <1>3. r.e \in SessionType /\ SessionOk(r.e) /\ (eng.id # 0 => r.e.id = eng.id)
    BY <1>0, StartedOutcome DEF DesktopTypes
  <1> DEFINE started == ui.started \/ (launch # "ordinary" /\ r.ok)
  <1>4. started \in BOOLEAN
    BY <1>0 DEF DesktopTypes, UiType
  <1>5. ui' = [ui EXCEPT !.pc = "end", !.started = started]
    BY <1>0, <1>2 DEF DesktopTypes, UiType
  <1> HIDE DEF started
  <1>6. ui' \in UiType /\ ui'.pc = "end" /\ ui'.approved = ui.approved
    BY <1>0, <1>4, <1>5 DEF DesktopTypes, UiType
  <1>7. nextNo' \in Nat \ {0}
    BY <1>0, <1>2 DEF DesktopTypes
  <1>8. DesktopTypes' /\ SessionOk(eng)'
    BY <1>0, <1>1, <1>2, <1>3, <1>6, <1>7 DEF DesktopTypes
  <1>9. OpInv'
    <2>1. op.step = "idle"
      BY <1>1 DEF Busy
    <2> QED BY <1>1, <2>1 DEF OpInv, Working, Busy
  <1>10. CloseInv' /\ FrameInv'
    BY <1>0, <1>1, <1>2, <1>6 DEF CloseInv, FrameInv
  <1>11. UnrecordedStep
    BY <1>0, <1>2, <1>3, <1>6 DEF UnrecordedStep, SessionOk
  <1> QED BY <1>8, <1>9, <1>10, <1>11 DEF DesktopInv

LEMMA DesktopStep == DesktopInv /\ [DesktopNext]_uvars => DesktopInv' /\ (UnrecordedStep \/ UNCHANGED uvars)
  <1> SUFFICES ASSUME DesktopInv, [DesktopNext]_uvars
               PROVE  DesktopInv' /\ (UnrecordedStep \/ UNCHANGED uvars)
    OBVIOUS
  <1>1. CASE AnalysisStep \/ UNCHANGED uvars
    <2>1. UNCHANGED <<launch, eng, nextNo, op, dlg, ui, dog, consent>>
      BY <1>1 DEF AnalysisStep, uvars
    <2>2. eng' \in SessionType /\ SameSession(eng, eng')
      BY <2>1 DEF DesktopInv, DesktopTypes, SameSession
    <2> QED BY <2>1, <2>2, SessionGoesOn
  <1> QED BY <1>1, ReceiverSteps, OperationSteps, WatchdogSteps, InterruptStep, FrameBeginStep,
             WindowCloseStep, SnapshotStep, FrameEndStep, LoopEndStep, DrawStep,
             DiscardAndCloseStep, ClickStartStep
          DEF DesktopNext, Loop

LEMMA DesktopInitInv == DesktopInit => DesktopInv
  <1> SUFFICES ASSUME DesktopInit PROVE DesktopInv
    OBVIOUS
  <1>1. /\ eng \in SessionType /\ ~eng.data /\ ~eng.running
    <2>1. CASE eng = NoSession
      BY <2>1, NoSessionOk
    <2>2. ASSUME NEW f \in Recordings, eng = [NoSession EXCEPT !.id = f, !.path = f, !.hist = TRUE]
          PROVE  eng \in SessionType /\ ~eng.data /\ ~eng.running
      <3>1. f \in Nat
        BY RecordingNumbers
      <3> QED BY <2>2, <3>1 DEF NoSession, SessionType
    <2> QED BY <2>1, <2>2 DEF DesktopInit
  <1>2. nextNo \in Nat \ {0}
    <2> DEFINE n == Cardinality(Recordings)
    <2>1. n \in Nat
      BY DesktopAssumption, FS_CardinalityType
    <2>2. nextNo = n + 1
      BY DEF DesktopInit
    <2> HIDE DEF n
    <2> QED BY <2>1, <2>2
  <1>3. op \in OpType /\ op.kind = "none"
    BY DEF DesktopInit, NoOp, OpType
  <1>4. dlg \in DialogType
    BY DEF DesktopInit, NoDialog, DialogType
  <1>5. ui \in UiType /\ ui.pc = "top" /\ ui.approved = FALSE
    BY <1>1 DEF DesktopInit, UiType
  <1>6. DesktopTypes
    BY <1>1, <1>2, <1>3, <1>4, <1>5, DesktopAssumption DEF DesktopInit, DesktopTypes
  <1>7. SessionOk(eng)
    BY <1>1 DEF SessionOk
  <1>8. OpInv /\ CloseInv
    BY <1>3, <1>5 DEF OpInv, CloseInv
  <1>9. FrameInv
    BY <1>5 DEF DesktopInit, FrameInv
  <1> QED BY <1>6, <1>7, <1>8, <1>9 DEF DesktopInv

\* Measurements that are not recorded leave the engine, by New, by Open or
\* with the window of an ordinary launch, only after the user discarded that
\* very session: for any recordings, and any number of sessions and frames.
THEOREM UnrecordedAreKept == DesktopSpec => UnrecordedKept
  <1>1. DesktopInit => DesktopInv
    BY DesktopInitInv
  <1>2. DesktopInv /\ [DesktopNext]_uvars => DesktopInv' /\ [UnrecordedStep]_uvars
    BY DesktopStep
  <1> QED BY <1>1, <1>2, PTL DEF DesktopSpec, UnrecordedKept

-----------------------------------------------------------------------------
(* The bursts.                                                             *)

LEMMA MinIs ==
  ASSUME NEW S, S \subseteq Nat, S # {}
  PROVE  MinOf(S) \in S /\ \A x \in S : MinOf(S) <= x
  <1>1. \E m \in S : \A n \in S : m <= n
    BY LeastElement, Zenon
  <1> QED BY <1>1 DEF MinOf

LEMMA MaxIs ==
  ASSUME NEW n \in Nat, NEW S, S \subseteq 0..n, S # {}
  PROVE  MaxOf(S) \in S /\ \A x \in S : x <= MaxOf(S)
  <1>1. \E m \in S : \A x \in S : x <= m
    BY GreatestElement, Zenon
  <1> QED BY <1>1 DEF MaxOf

LEMMA BinsBounded ==
  /\ Cardinality(BinSet) \in Nat
  /\ BinSet \subseteq 0..Cardinality(BinSet)
  <1>1. Cardinality(BinSet) \in Nat
    BY BurstAssumption, FS_CardinalityType
  <1>2. BinSet = 0..(Cardinality(BinSet) - 1)
    BY BurstAssumption
  <1> QED BY <1>1, <1>2

\* The least and the greatest strong bin with a property.
LEMMA StrongExtremes ==
  ASSUME NEW tile, NEW S, S \subseteq StrongBins(tile), S # {}
  PROVE  /\ \E m \in S : \A x \in S : m <= x
         /\ \E m \in S : \A x \in S : x <= m
         /\ S \subseteq Nat
  <1>1. S \subseteq 0..Cardinality(BinSet) /\ Cardinality(BinSet) \in Nat
    BY BinsBounded DEF StrongBins
  <1>2. S \subseteq Nat
    BY <1>1
  <1>3. \E m \in S : \A x \in S : m <= x
    BY <1>2, LeastElement, Zenon
  <1>4. \E m \in S : \A x \in S : x <= m
    BY <1>1, GreatestElement, Zenon
  <1> QED BY <1>2, <1>3, <1>4

\* A component ends at a strong bin.
LEMMA EndAfter ==
  ASSUME NEW tile, NEW b \in StrongBins(tile)
  PROVE  LET ends == {e \in Ends(tile) : e >= b}
         IN  /\ MinOf(ends) \in ends /\ \A e \in ends : MinOf(ends) <= e
             /\ ends \subseteq StrongBins(tile)
  <1> DEFINE S == StrongBins(tile)
             ends == {e \in Ends(tile) : e >= b}
  <1>1. PICK m \in S : \A x \in S : x <= m
    BY StrongExtremes
  <1>2. S \subseteq Nat
    BY StrongExtremes
  <1>3. m \in ends
    <2>1. ASSUME NEW c \in S, Chained(tile, m, c) PROVE FALSE
      BY <1>1, <1>2, <2>1 DEF Chained
    <2> QED BY <1>1, <1>2, <2>1 DEF Ends
  <1>4. ends \subseteq S
    BY DEF Ends
  <1> HIDE DEF ends, S
  <1>5. ends \subseteq Nat /\ ends # {}
    BY <1>2, <1>3, <1>4
  <1>6. MinOf(ends) \in ends /\ \A e \in ends : MinOf(ends) <= e
    BY <1>5, MinIs
  <1> QED BY <1>4, <1>6 DEF ends, S

LEMMA BinsFromIs ==
  ASSUME NEW tile, NEW b \in Starts(tile)
  PROVE  b \in BinsFrom(tile, b) /\ BinsFrom(tile, b) \subseteq StrongBins(tile)
  <1> DEFINE e == MinOf({e \in Ends(tile) : e >= b})
  <1>1. b \in StrongBins(tile) /\ b \in Nat
    BY StrongExtremes DEF Starts
  <1>2. e >= b /\ e \in StrongBins(tile)
    BY <1>1, EndAfter
  <1>3. e \in Nat
    BY <1>2, StrongExtremes
  <1>4. BinsFrom(tile, b) = StrongBins(tile) \cap b..e
    BY DEF BinsFrom
  <1> HIDE DEF e
  <1> QED BY <1>1, <1>2, <1>3, <1>4

\* A component is over before another one starts.
LEMMA OverBefore ==
  ASSUME NEW tile, NEW a \in Starts(tile), NEW b \in Starts(tile), a < b
  PROVE  MinOf({e \in Ends(tile) : e >= a}) < b
  <1> DEFINE S == StrongBins(tile)
             below == {x \in S : x < b}
  <1>1. a \in S /\ b \in S /\ a \in below /\ S \subseteq Nat
    BY StrongExtremes DEF Starts
  <1>2. PICK p \in below : \A x \in below : x <= p
    BY <1>1, StrongExtremes
  <1>3. p \in S /\ p < b /\ a <= p /\ p \in Nat /\ a \in Nat /\ b \in Nat
    BY <1>1, <1>2
  <1>4. ASSUME NEW c \in S, Chained(tile, p, c) PROVE FALSE
    <2>0. c \in Nat /\ p < c
      BY <1>1, <1>4 DEF Chained
    <2>1. CASE c < b
      BY <1>2, <1>3, <2>0, <2>1
    <2>2. CASE c = b
      BY <1>3, <1>4, <2>2 DEF Starts
    <2>3. CASE c > b
      <3>1. b \in (p + 1)..(c - 1)
        BY <1>3, <2>0, <2>3
      <3>2. (p + 1)..(c - 1) \cap StrongBins(tile) = {}
        BY <1>4 DEF Chained
      <3> QED BY <1>1, <3>1, <3>2
    <2> QED BY <1>3, <2>0, <2>1, <2>2, <2>3
  <1>5. p \in {e \in Ends(tile) : e >= a}
    BY <1>3, <1>4 DEF Ends
  <1> DEFINE m == MinOf({e \in Ends(tile) : e >= a})
  <1>6. m <= p /\ m \in S
    BY <1>1, <1>5, EndAfter
  <1> HIDE DEF m
  <1>7. m \in Nat
    BY <1>1, <1>6
  <1> QED BY <1>3, <1>6, <1>7 DEF m

LEMMA BinsFromApart ==
  ASSUME NEW tile, NEW a \in Starts(tile), NEW b \in Starts(tile), a # b
  PROVE  BinsFrom(tile, a) \cap BinsFrom(tile, b) = {}
  <1>0. a \in Nat /\ b \in Nat
    BY StrongExtremes DEF Starts
  <1>1. ASSUME NEW c \in Starts(tile), NEW d \in Starts(tile), c < d,
               NEW x \in BinsFrom(tile, c), x \in BinsFrom(tile, d)
        PROVE  FALSE
    <2> DEFINE m == MinOf({e \in Ends(tile) : e >= c})
               k == MinOf({e \in Ends(tile) : e >= d})
    <2>1. m < d
      BY <1>1, OverBefore
    <2>2. x \in c..m /\ x \in d..k /\ x \in StrongBins(tile)
      BY <1>1 DEF BinsFrom
    <2>3. c \in StrongBins(tile) /\ d \in StrongBins(tile)
      BY DEF Starts
    <2>4. m \in StrongBins(tile) /\ k \in StrongBins(tile)
      BY <2>3, EndAfter
    <2>5. m \in Nat /\ k \in Nat /\ c \in Nat /\ d \in Nat /\ x \in Nat
      BY <2>2, <2>3, <2>4, StrongExtremes
    <2> HIDE DEF m, k
    <2> QED BY <2>1, <2>2, <2>5
  <1>2. CASE a < b
    BY <1>1, <1>2
  <1>3. CASE b < a
    BY <1>1, <1>3
  <1> QED BY <1>0, <1>2, <1>3

\* Every strong bin is in a component.
LEMMA BinsFromCover ==
  ASSUME NEW tile, NEW x \in StrongBins(tile)
  PROVE  \E b \in Starts(tile) : x \in BinsFrom(tile, b)
  <1> DEFINE S == StrongBins(tile)
             before == {b \in Starts(tile) : b <= x}
  <1>1. S \subseteq Nat /\ x \in Nat /\ before \subseteq S
    BY StrongExtremes DEF Starts
  <1>2. before # {}
    <2>1. PICK m \in S : \A y \in S : m <= y
      BY StrongExtremes
    <2>2. ASSUME NEW a \in S, Chained(tile, a, m) PROVE FALSE
      BY <1>1, <2>1, <2>2 DEF Chained
    <2> QED BY <2>1, <2>2 DEF Starts
  <1>3. PICK b \in before : \A y \in before : y <= b
    BY <1>1, <1>2, StrongExtremes
  <1>4. b \in Starts(tile) /\ b \in S /\ b <= x /\ b \in Nat
    BY <1>1, <1>3
  <1> DEFINE ends == {e \in Ends(tile) : e >= b}
             e == MinOf(ends)
  <1>5. e \in ends /\ e \in S
    BY <1>4, EndAfter
  <1>6. e \in Nat /\ e >= b /\ e \in Ends(tile)
    BY <1>1, <1>5
  <1>7. BinsFrom(tile, b) = S \cap b..e
    BY DEF BinsFrom
  <1> HIDE DEF e, ends
  <1>8. ASSUME e < x PROVE FALSE
    <2> DEFINE above == {y \in S : y > e}
    <2>1. PICK n \in above : \A y \in above : n <= y
      <3>1. x \in above /\ above \subseteq S
        BY <1>8
      <3> QED BY <3>1, StrongExtremes
    <2>2. n \in S /\ n \in Nat /\ e < n /\ n <= x
      BY <1>1, <1>8, <2>1
    <2>3. ASSUME NEW a \in S, Chained(tile, a, n) PROVE FALSE
      <3>0. a \in Nat /\ a < n /\ (a + 1)..(n - 1) \cap S = {}
        BY <1>1, <2>3 DEF Chained
      <3>1. CASE a < e
        <4>1. e \in (a + 1)..(n - 1)
          BY <1>6, <2>2, <3>0, <3>1
        <4> QED BY <1>5, <3>0, <4>1
      <3>2. CASE a = e
        BY <1>6, <2>2, <2>3, <3>2 DEF Ends
      <3>3. CASE a > e
        BY <2>1, <2>2, <3>0, <3>3
      <3> QED BY <1>6, <3>0, <3>1, <3>2, <3>3
    <2>4. n \in before
      BY <2>2, <2>3 DEF Starts
    <2> QED BY <1>3, <1>4, <1>6, <2>2, <2>4
  <1>9. x \in b..e
    BY <1>1, <1>4, <1>6, <1>8
  <1> QED BY <1>4, <1>7, <1>9

-----------------------------------------------------------------------------
(* What a burst is.                                                        *)

Instants(b) == {c[1] : c \in b.cells}

\* The record of a burst; its region, flags and number do not matter here.
BurstShape(b) ==
  b \in [low : Nat, high : Nat, start : Nat, end : Nat, active : Nat,
         cells : SUBSET (Nat \X Nat), lastLow : {b.lastLow}, lastHigh : {b.lastHigh},
         center : {b.center}, ambiguous : {b.ambiguous}, limited : {b.limited}, id : {b.id}]

\* A burst known at time upto: its cells in its envelope, their time counted.
BurstOk(b, upto) ==
  /\ BurstShape(b)
  /\ b.start <= b.end /\ b.end <= upto
  /\ b.cells \subseteq (b.start..(b.end - 1)) \X (b.low..b.high)
  /\ IsFiniteSet(Instants(b)) /\ b.active = Cardinality(Instants(b))

SameExtent(x, b) ==
  /\ BurstShape(x) /\ x.low = b.low /\ x.high = b.high /\ x.start = b.start /\ x.end = b.end
  /\ x.active = b.active /\ x.cells = b.cells

LEMMA SameExtentOk ==
  ASSUME NEW upto, NEW b, NEW x, BurstOk(b, upto), SameExtent(x, b)
  PROVE  BurstOk(x, upto)
  <1>1. Instants(x) = Instants(b)
    BY DEF Instants, SameExtent
  <1> QED BY <1>1 DEF BurstOk, SameExtent

LEMMA BurstLater ==
  ASSUME NEW upto \in Nat, NEW later \in Nat, upto <= later, NEW b, BurstOk(b, upto)
  PROVE  BurstOk(b, later)
  <1>1. b.end \in Nat
    BY DEF BurstOk, BurstShape
  <1> QED BY <1>1 DEF BurstOk

LEMMA AmbiguousSame ==
  ASSUME NEW b, BurstShape(b)
  PROVE  SameExtent(Ambiguous(b), b)
  <1> DEFINE x == Ambiguous(b)
  <1>1. x = [b EXCEPT !.ambiguous = TRUE]
    BY DEF Ambiguous
  <1> HIDE DEF x
  <1> QED BY <1>1 DEF BurstShape, SameExtent, x

LEMMA LimitedSame ==
  ASSUME NEW b, BurstShape(b)
  PROVE  SameExtent(Limited(b), b)
  <1> DEFINE x == Limited(b)
  <1>1. x = [b EXCEPT !.limited = TRUE]
    BY DEF Limited
  <1> HIDE DEF x
  <1> QED BY <1>1 DEF BurstShape, SameExtent, x

\* Counting frames from another origin changes no count.
LEMMA ShiftedCount ==
  ASSUME NEW k \in Nat, NEW F, F \subseteq Nat, IsFiniteSet(F)
  PROVE  LET S == {k + f : f \in F} IN IsFiniteSet(S) /\ Cardinality(S) = Cardinality(F)
  <1> DEFINE S == {k + f : f \in F}
             g == [f \in F |-> k + f]
  <1>1. g \in [F -> S] /\ \A s \in S : \E f \in F : g[f] = s
    OBVIOUS
  <1>2. \A f, h \in F : g[f] = g[h] => f = h
    OBVIOUS
  <1> HIDE DEF g, S
  <1>3. g \in Bijection(F, S)
    BY <1>1, <1>2 DEF Bijection, Injection, Surjection, IsInjective
  <1>4. ExistsBijection(F, S)
    BY <1>3 DEF ExistsBijection
  <1>5. IsFiniteSet(S) /\ Cardinality(S) = Cardinality(F)
    BY <1>4, FS_Bijection
  <1> QED BY <1>5 DEF S

\* Frames of this tile on the clock.
OnClock(F) == {clock + f : f \in F}

\* A component: a burst of this tile, and its frames.
PieceOk(p) ==
  /\ BurstOk(p.burst, clock + Frames) /\ p.burst.start >= clock
  /\ p.burst.high <= Cardinality(BinSet)
  /\ p.frames \subseteq 0..(Frames - 1) /\ p.frames # {}
  /\ Instants(p.burst) = OnClock(p.frames)
  /\ p.matches \subseteq Live

\* Frames as the time of a burst: the span and the count are those of the clock.
TimesRight(F) ==
  /\ IsFiniteSet(OnClock(F)) /\ Cardinality(OnClock(F)) = Cardinality(F)
  /\ Cardinality(F) \in Nat
  /\ clock + MinOf(F) \in Nat /\ clock + MaxOf(F) + 1 \in Nat
  /\ clock <= clock + MinOf(F) /\ clock + MinOf(F) <= clock + MaxOf(F) + 1
  /\ clock + MaxOf(F) + 1 <= clock + Frames
  /\ \A x \in OnClock(F) : x \in Nat /\ clock + MinOf(F) <= x /\ x < clock + MaxOf(F) + 1

LEMMA FramesCount ==
  ASSUME clock \in Nat, NEW F, F \subseteq 0..(Frames - 1), F # {}
  PROVE  TimesRight(F)
  <1> DEFINE S == {clock + f : f \in F}
             a == MinOf(F)
             z == MaxOf(F)
  <1>1. Frames \in Nat /\ Frames - 1 \in Nat /\ F \subseteq Nat
    BY BurstAssumption
  <1>2. IsFiniteSet(F)
    <2>1. 0 \in Int /\ Frames - 1 \in Int
      BY <1>1
    <2>2. IsFiniteSet(0..(Frames - 1))
      BY <2>1, FS_Interval
    <2> QED BY <2>2, FS_Subset
  <1>3. IsFiniteSet(S) /\ Cardinality(S) = Cardinality(F)
    BY <1>1, <1>2, ShiftedCount
  <1>4. Cardinality(F) \in Nat
    BY <1>2, FS_CardinalityType
  <1>5. a \in F /\ \A x \in F : a <= x
    BY <1>1, MinIs
  <1>6. z \in F /\ \A x \in F : x <= z
    BY <1>1, MaxIs
  <1> HIDE DEF a, z
  <1>7. a \in Nat /\ z \in Nat /\ a <= z /\ z <= Frames - 1
    BY <1>1, <1>5, <1>6
  <1>8. \A x \in S : x \in Nat /\ clock + a <= x /\ x < clock + z + 1
    BY <1>1, <1>5, <1>6, <1>7
  <1> HIDE DEF S
  <1>9. /\ clock + a \in Nat /\ clock + z + 1 \in Nat
        /\ clock <= clock + a /\ clock + a <= clock + z + 1
        /\ clock + z + 1 <= clock + Frames
    BY <1>1, <1>7
  <1> QED BY <1>3, <1>4, <1>8, <1>9 DEF S, a, z, OnClock, TimesRight

LEMMA TimesParts ==
  ASSUME NEW X, TimesRight(X), NEW s, NEW e, NEW n, NEW S,
         s = clock + MinOf(X), e = clock + MaxOf(X) + 1, n = Cardinality(X), S = OnClock(X)
  PROVE  /\ IsFiniteSet(S) /\ Cardinality(S) = n /\ n \in Nat /\ s \in Nat /\ e \in Nat
         /\ clock <= s /\ s <= e /\ e <= clock + Frames /\ S \subseteq s..(e - 1)
  <1>1. IsFiniteSet(S) /\ Cardinality(S) = n /\ n \in Nat
    BY DEF TimesRight
  <1>2. s \in Nat /\ e \in Nat
    BY DEF TimesRight
  <1>3. clock <= s /\ s <= e /\ e <= clock + Frames
    BY DEF TimesRight
  <1>4. \A x \in S : x \in Nat /\ s <= x /\ x < e
    BY DEF TimesRight
  <1>5. S \subseteq s..(e - 1)
    BY <1>2, <1>4
  <1> QED BY <1>1, <1>2, <1>3, <1>5

LEMMA CellsOf ==
  ASSUME clock \in Nat, NEW tile \in Tiles, NEW bins, bins \subseteq StrongBins(tile)
  PROVE  /\ FramesIn(tile, bins) \subseteq 0..(Frames - 1)
         /\ bins # {} => FramesIn(tile, bins) # {}
         /\ \A c \in CellsIn(tile, bins) :
              \E b \in bins : \E f \in tile[b] : c = <<clock + f, b>>
         /\ {c[1] : c \in CellsIn(tile, bins)} = {clock + f : f \in FramesIn(tile, bins)}
  <1>1. tile \in [BinSet -> SUBSET (0..(Frames - 1))]
    BY BurstAssumption
  <1>2. \A b \in bins : b \in BinSet /\ tile[b] \subseteq 0..(Frames - 1)
    BY <1>1 DEF StrongBins
  <1>3. ASSUME NEW b \in bins PROVE tile[b] # {}
    <2>1. Cardinality(tile[b]) >= 2
      BY DEF StrongBins
    <2>2. Cardinality({}) = 0
      BY FS_EmptySet
    <2> QED BY <2>1, <2>2
  <1>4. FramesIn(tile, bins) \subseteq 0..(Frames - 1)
    BY <1>2 DEF FramesIn
  <1>5. bins # {} => FramesIn(tile, bins) # {}
    BY <1>3 DEF FramesIn
  <1>6. ASSUME NEW c \in CellsIn(tile, bins)
        PROVE  \E b \in bins : \E f \in tile[b] : c = <<clock + f, b>>
    BY DEF CellsIn
  <1>7. ASSUME NEW b \in bins, NEW f \in tile[b] PROVE <<clock + f, b>> \in CellsIn(tile, bins)
    BY DEF CellsIn
  <1>8. {c[1] : c \in CellsIn(tile, bins)} \subseteq {clock + f : f \in FramesIn(tile, bins)}
    <2>1. ASSUME NEW c \in CellsIn(tile, bins) PROVE c[1] \in {clock + f : f \in FramesIn(tile, bins)}
      <3>0. PICK b \in bins : \E f \in tile[b] : c = <<clock + f, b>>
        BY <1>6
      <3>1. PICK f \in tile[b] : c = <<clock + f, b>>
        BY <3>0
      <3>2. f \in FramesIn(tile, bins)
        BY DEF FramesIn
      <3> QED BY <3>1, <3>2
    <2> QED BY <2>1
  <1>9. ASSUME NEW f \in FramesIn(tile, bins) PROVE clock + f \in {c[1] : c \in CellsIn(tile, bins)}
    <2>1. PICK b \in bins : f \in tile[b]
      BY DEF FramesIn
    <2>2. <<clock + f, b>> \in CellsIn(tile, bins) /\ <<clock + f, b>>[1] = clock + f
      BY <1>7, <2>1
    <2> QED BY <2>2, Zenon
  <1> QED BY <1>4, <1>5, <1>6, <1>8, <1>9

\* The burst of some strong bins.
LEMMA TileBurstOk ==
  ASSUME clock \in Nat, NEW tile \in Tiles, NEW bins, bins \subseteq StrongBins(tile), bins # {}
  PROVE  PieceOk(Piece(tile, bins)) /\ Piece(tile, bins).burst.cells = CellsIn(tile, bins)
  <1> DEFINE F == FramesIn(tile, bins)
             C == CellsIn(tile, bins)
             b == TileBurst(tile, bins)
             low == MinOf(bins)
             high == MaxOf(bins)
             S == OnClock(F)
  <1>1. /\ F \subseteq 0..(Frames - 1) /\ F # {} /\ {c[1] : c \in C} = S
        /\ \A c \in C : \E x \in bins : \E f \in tile[x] : c = <<clock + f, x>>
    BY CellsOf DEF OnClock
  <1>2. bins \subseteq Nat /\ bins \subseteq 0..Cardinality(BinSet) /\ Cardinality(BinSet) \in Nat
    BY BinsBounded DEF StrongBins
  <1>3. /\ low \in Nat /\ high \in Nat /\ high <= Cardinality(BinSet)
        /\ \A x \in bins : low <= x /\ x <= high /\ x \in Nat
    <2>1. high \in bins /\ \A x \in bins : x <= high
      BY <1>2, MaxIs
    <2>2. low \in bins /\ \A x \in bins : low <= x
      BY <1>2, MinIs
    <2> HIDE DEF low, high
    <2> QED BY <1>2, <2>1, <2>2
  <1> DEFINE s == clock + MinOf(F)
             e == clock + MaxOf(F) + 1
             n == Cardinality(F)
             r == low \in CenterBins
             m == bins # low..high
  <1>4. b = [low |-> low, high |-> high, lastLow |-> low, lastHigh |-> high, start |-> s, end |-> e,
             active |-> n, center |-> r, ambiguous |-> m, limited |-> FALSE, id |-> 0, cells |-> C]
    BY DEF TileBurst
  <1>5. /\ IsFiniteSet(S) /\ Cardinality(S) = n /\ n \in Nat /\ s \in Nat /\ e \in Nat
        /\ clock <= s /\ s <= e /\ e <= clock + Frames /\ S \subseteq s..(e - 1)
    <2>1. F \subseteq 0..(Frames - 1) /\ F # {}
      BY <1>1
    <2>2. TimesRight(F)
      BY <2>1, FramesCount
    <2> QED BY <2>2, TimesParts, Zenon
  <1>6. Piece(tile, bins) = [burst |-> b, frames |-> F, matches |-> {t \in Live : Matches(b, t)}]
    BY DEF Piece
  <1> HIDE DEF F, C, b, low, high, s, e, n, r, m
  <1>7. ASSUME NEW c \in C PROVE c \in (s..(e - 1)) \X (low..high)
    <2>0. PICK x \in bins : \E f \in tile[x] : c = <<clock + f, x>>
      BY <1>1
    <2>1. PICK f \in tile[x] : c = <<clock + f, x>>
      BY <2>0
    <2>2. x \in low..high
      BY <1>3
    <2>3. c[1] \in S
      BY <1>1
    <2>4. c[1] = clock + f
      BY <2>1
    <2>5. clock + f \in s..(e - 1)
      BY <1>5, <2>3, <2>4
    <2> QED BY <2>1, <2>2, <2>5
  <1> HIDE DEF S
  <1>8. C \subseteq Nat \X Nat
    <2>1. s..(e - 1) \subseteq Nat /\ low..high \subseteq Nat
      BY <1>3, <1>5
    <2> QED BY <1>7, <2>1
  <1>9. /\ b.low = low /\ b.high = high /\ b.start = s /\ b.end = e /\ b.active = n /\ b.cells = C
        /\ BurstShape(b)
    BY <1>3, <1>4, <1>5, <1>8 DEF BurstShape
  <1>10. Instants(b) = S
    BY <1>1, <1>9 DEF Instants
  <1>11. BurstOk(b, clock + Frames)
    BY <1>5, <1>7, <1>9, <1>10 DEF BurstOk
  <1> DEFINE p == Piece(tile, bins)
  <1>12. p.burst = b /\ p.frames = F /\ p.matches \subseteq Live
    BY <1>6
  <1> HIDE DEF p
  <1>13. b.start >= clock /\ b.high <= Cardinality(BinSet)
    BY <1>3, <1>5, <1>9
  <1>14. PieceOk(p)
    BY <1>1, <1>10, <1>11, <1>12, <1>13 DEF PieceOk, S
  <1> QED BY <1>9, <1>12, <1>14 DEF C, p

\* Components that share no cell and cover some cells together.
PiecesFit(P, X) ==
  /\ \A p \in P : PieceOk(p)
  /\ \A p, q \in P : p # q => p.burst.cells \cap q.burst.cells = {}
  /\ UNION {p.burst.cells : p \in P} = X

LEMMA PiecesOk ==
  ASSUME clock \in Nat, NEW tile \in Tiles
  PROVE  PiecesFit(Pieces(tile), CellsIn(tile, StrongBins(tile)))
  <1> DEFINE S == StrongBins(tile)
             P == Pieces(tile)
             From(b) == BinsFrom(tile, b)
  <1>1. ASSUME NEW b \in Starts(tile)
        PROVE  /\ From(b) \subseteq S /\ b \in From(b)
               /\ PieceOk(Piece(tile, From(b))) /\ Piece(tile, From(b)).burst.cells = CellsIn(tile, From(b))
    <2>1. From(b) \subseteq S /\ b \in From(b)
      BY BinsFromIs
    <2> QED BY <2>1, TileBurstOk
  <1>2. \A p \in P : \E b \in Starts(tile) : p = Piece(tile, From(b))
    BY DEF Pieces
  <1>3. \A b \in Starts(tile) : Piece(tile, From(b)) \in P
    BY DEF Pieces
  <1>4. \A a, b \in Starts(tile) : a # b => From(a) \cap From(b) = {}
    BY BinsFromApart
  <1>5. \A x \in S : \E b \in Starts(tile) : x \in From(b)
    BY BinsFromCover
  <1> HIDE DEF P, From
  <1>6. \A p \in P : PieceOk(p)
    BY <1>1, <1>2
  <1>7. ASSUME NEW p \in P, NEW q \in P, p # q,
               NEW c, c \in p.burst.cells, c \in q.burst.cells
        PROVE  FALSE
    <2>1. PICK a \in Starts(tile) : p = Piece(tile, From(a))
      BY <1>2
    <2>2. PICK b \in Starts(tile) : q = Piece(tile, From(b))
      BY <1>2
    <2>3. From(a) \cap From(b) = {}
      BY <1>4, <1>7, <2>1, <2>2
    <2>4. c \in CellsIn(tile, From(a)) /\ c \in CellsIn(tile, From(b))
      BY <1>1, <1>7, <2>1, <2>2
    <2>5. \E x \in From(a) : \E f \in tile[x] : c = <<clock + f, x>>
      BY <1>1, <2>4, CellsOf
    <2>6. \E x \in From(b) : \E f \in tile[x] : c = <<clock + f, x>>
      BY <1>1, <2>4, CellsOf
    <2>7. c[2] \in From(a) /\ c[2] \in From(b)
      BY <2>5, <2>6
    <2> QED BY <2>3, <2>7
  <1>8. ASSUME NEW c \in UNION {p.burst.cells : p \in P} PROVE c \in CellsIn(tile, S)
    <2>1. PICK p \in P : c \in p.burst.cells
      OBVIOUS
    <2>2. PICK a \in Starts(tile) : p = Piece(tile, From(a))
      BY <1>2
    <2>3. c \in CellsIn(tile, From(a)) /\ From(a) \subseteq S
      BY <1>1, <2>1, <2>2
    <2> QED BY <2>3 DEF CellsIn
  <1>9. ASSUME NEW c \in CellsIn(tile, S) PROVE c \in UNION {p.burst.cells : p \in P}
    <2>0. PICK x \in S : c \in {<<clock + f, x>> : f \in tile[x]}
      BY DEF CellsIn
    <2>1. PICK b \in Starts(tile) : x \in From(b)
      BY <1>5
    <2>2. c \in CellsIn(tile, From(b))
      BY <2>0, <2>1 DEF CellsIn
    <2>3. c \in Piece(tile, From(b)).burst.cells /\ Piece(tile, From(b)) \in P
      BY <1>1, <1>3, <2>2
    <2> QED BY <2>3
  <1> QED BY <1>6, <1>7, <1>8, <1>9 DEF PiecesFit, P

LEMMA LowestIs ==
  ASSUME NEW S, S # {}, \A c \in S : PieceOk(c)
  PROVE  Lowest(S) \in S /\ \A c \in S : Lowest(S).burst.low <= c.burst.low
  <1> DEFINE lows == {c.burst.low : c \in S}
  <1>1. lows \subseteq Nat /\ lows # {}
    BY DEF PieceOk, BurstOk, BurstShape
  <1>2. PICK m \in lows : \A n \in lows : m <= n
    BY <1>1, LeastElement, Zenon
  <1>3. PICK c \in S : m = c.burst.low
    BY <1>2
  <1>4. \A x \in S : c.burst.low <= x.burst.low
    BY <1>2, <1>3
  <1> QED BY <1>3, <1>4 DEF Lowest

\* Several components as one are a component.
LEMMA CombinedOk ==
  ASSUME clock \in Nat, NEW S, S # {}, \A c \in S : PieceOk(c)
  PROVE  /\ PieceOk(Combined(S))
         /\ Combined(S).burst.cells = UNION {c.burst.cells : c \in S}
  <1> DEFINE F == FramesOf(S)
             C == UNION {c.burst.cells : c \in S}
             highs == {c.burst.high : c \in S}
             L == Lowest(S)
             s == clock + MinOf(F)
             e == clock + MaxOf(F) + 1
             n == Cardinality(F)
             T == OnClock(F)
             high == MaxOf(highs)
             b == CombinedBurst(S)
  <1>1. F \subseteq 0..(Frames - 1) /\ F # {}
    BY DEF FramesOf, PieceOk
  <1>2. TimesRight(F)
    BY <1>1, FramesCount
  <1>3. /\ IsFiniteSet(T) /\ Cardinality(T) = n /\ n \in Nat /\ s \in Nat /\ e \in Nat
        /\ clock <= s /\ s <= e /\ e <= clock + Frames /\ T \subseteq s..(e - 1)
    BY <1>2, TimesParts, Zenon
  <1>4. L \in S /\ \A c \in S : L.burst.low <= c.burst.low
    BY LowestIs
  <1>5. Cardinality(BinSet) \in Nat
    BY BinsBounded
  <1>6. ASSUME NEW c \in S
        PROVE  /\ BurstShape(c.burst) /\ c.burst.low \in Nat /\ c.burst.high \in Nat
               /\ c.burst.high <= Cardinality(BinSet)
               /\ c.burst.cells \subseteq (c.burst.start..(c.burst.end - 1)) \X (c.burst.low..c.burst.high)
               /\ Instants(c.burst) = OnClock(c.frames)
    BY DEF PieceOk, BurstOk, BurstShape
  <1>7. high \in highs /\ \A x \in highs : x <= high
    <2>1. highs \subseteq 0..Cardinality(BinSet) /\ highs # {}
      BY <1>5, <1>6
    <2> QED BY <1>5, <2>1, MaxIs
  <1>8. high \in Nat /\ high <= Cardinality(BinSet) /\ \A c \in S : c.burst.high <= high
    BY <1>6, <1>7
  <1>9. b = [L.burst EXCEPT !.high = high, !.start = s, !.end = e, !.active = n, !.ambiguous = TRUE,
                            !.cells = C]
    BY DEF CombinedBurst
  <1>10. Combined(S) = [burst |-> b, frames |-> F, matches |-> L.matches]
    BY DEF Combined
  <1> HIDE DEF L, s, e, n, high, b
  <1>11. {c[1] : c \in C} = T
    <2>1. ASSUME NEW c \in C PROVE c[1] \in T
      <3>1. PICK p \in S : c \in p.burst.cells
        OBVIOUS
      <3>2. c[1] \in Instants(p.burst)
        BY <3>1 DEF Instants
      <3>3. PICK f \in p.frames : c[1] = clock + f
        BY <1>6, <3>2 DEF OnClock
      <3>4. f \in F
        BY <3>3 DEF FramesOf
      <3> QED BY <3>3, <3>4 DEF OnClock
    <2>2. ASSUME NEW x \in T PROVE x \in {c[1] : c \in C}
      <3>1. PICK f \in F : x = clock + f
        BY DEF OnClock
      <3>2. PICK p \in S : f \in p.frames
        BY DEF FramesOf
      <3>3. x \in Instants(p.burst)
        BY <1>6, <3>1, <3>2 DEF OnClock
      <3>4. PICK c \in p.burst.cells : x = c[1]
        BY <3>3 DEF Instants
      <3> QED BY <3>4
    <2> QED BY <2>1, <2>2
  <1>12. ASSUME NEW c \in C PROVE c \in (s..(e - 1)) \X (L.burst.low..high)
    <2>1. PICK p \in S : c \in p.burst.cells
      OBVIOUS
    <2>2. c \in (p.burst.start..(p.burst.end - 1)) \X (p.burst.low..p.burst.high)
      BY <1>6, <2>1
    <2>3. c = <<c[1], c[2]>> /\ c[2] \in p.burst.low..p.burst.high
      BY <2>2
    <2>4. L.burst.low <= p.burst.low /\ p.burst.high <= high /\ L.burst.low \in Nat
          /\ p.burst.low \in Nat /\ p.burst.high \in Nat
      BY <1>4, <1>6, <1>8
    <2>5. c[2] \in L.burst.low..high
      BY <1>8, <2>3, <2>4
    <2>6. c[1] \in s..(e - 1)
      <3>1. c[1] \in T
        BY <1>11
      <3> HIDE DEF T
      <3> QED BY <1>3, <3>1
    <2> QED BY <2>3, <2>5, <2>6
  <1> HIDE DEF T, C
  <1>13. L.burst.low \in Nat /\ BurstShape(L.burst)
    BY <1>4, <1>6
  <1>14. C \subseteq Nat \X Nat
    <2>1. s..(e - 1) \subseteq Nat /\ L.burst.low..high \subseteq Nat
      BY <1>3, <1>8, <1>13
    <2> QED BY <1>12, <2>1
  <1>15. /\ b.low = L.burst.low /\ b.high = high /\ b.start = s /\ b.end = e /\ b.active = n /\ b.cells = C
         /\ BurstShape(b)
    <2> DEFINE l == L.burst
    <2>1. BurstShape(l) /\ b = [l EXCEPT !.high = high, !.start = s, !.end = e, !.active = n,
                                         !.ambiguous = TRUE, !.cells = C]
      BY <1>9, <1>13
    <2> HIDE DEF l
    <2>2. /\ b.low = l.low /\ b.high = high /\ b.start = s /\ b.end = e /\ b.active = n /\ b.cells = C
          /\ BurstShape(b)
      BY <1>3, <1>8, <1>14, <2>1 DEF BurstShape
    <2> QED BY <2>2 DEF l
  <1>16. Instants(b) = T
    BY <1>11, <1>15 DEF Instants
  <1>17. BurstOk(b, clock + Frames)
    BY <1>3, <1>12, <1>15, <1>16 DEF BurstOk
  <1> DEFINE p == Combined(S)
  <1>18. p.burst = b /\ p.frames = F /\ p.matches \subseteq Live
    BY <1>4, <1>10 DEF PieceOk
  <1> HIDE DEF p, F
  <1>19. b.start >= clock /\ b.high <= Cardinality(BinSet)
    BY <1>3, <1>8, <1>15
  <1>20. PieceOk(p)
    BY <1>1, <1>16, <1>17, <1>18, <1>19 DEF PieceOk, T
  <1> QED BY <1>15, <1>18, <1>20 DEF C, p

\* The components that remain when the sweeps are put together cover the same
\* cells: a component belongs to one sweep.
LEMMA SweptFit ==
  ASSUME clock \in Nat, NEW P, NEW X, PiecesFit(P, X)
  PROVE  PiecesFit(AfterSweeps(P), X)
  <1> DEFINE W == {UsersOf(t, P) : t \in SweptTracks(P)}
             A == AfterSweeps(P)
             Cells(s) == UNION {c.burst.cells : c \in s}
  <1>1. /\ \A p \in P : PieceOk(p)
        /\ \A p, q \in P : p # q => p.burst.cells \cap q.burst.cells = {}
        /\ UNION {p.burst.cells : p \in P} = X
    BY DEF PiecesFit
  <1>2. A = (P \ UNION W) \cup {Combined(s) : s \in W}
    BY DEF AfterSweeps
  <1>3. ASSUME NEW s \in W PROVE s \subseteq P /\ s # {}
    <2>1. PICK t \in SweptTracks(P) : s = UsersOf(t, P)
      OBVIOUS
    <2>2. OneSweep(t, s)
      BY <2>1 DEF SweptTracks
    <2>3. \E c, d \in s : c # d
      BY <2>2 DEF OneSweep
    <2> QED BY <2>1, <2>3 DEF UsersOf
  <1>4. ASSUME NEW s \in W, NEW r \in W, NEW c \in s, c \in r PROVE s = r
    <2>1. PICK t \in SweptTracks(P) : s = UsersOf(t, P)
      OBVIOUS
    <2>2. PICK u \in SweptTracks(P) : r = UsersOf(u, P)
      OBVIOUS
    <2>3. OneSweep(t, s) /\ OneSweep(u, r)
      BY <2>1, <2>2 DEF SweptTracks
    <2>4. c.matches = {t} /\ c.matches = {u}
      BY <1>4, <2>3 DEF OneSweep
    <2>5. t = u
      BY <2>4
    <2> QED BY <2>1, <2>2, <2>5
  <1>5. ASSUME NEW s \in W
        PROVE  PieceOk(Combined(s)) /\ Combined(s).burst.cells = Cells(s)
    <2>1. s # {} /\ \A c \in s : PieceOk(c)
      BY <1>1, <1>3
    <2> QED BY <2>1, CombinedOk
  <1> HIDE DEF W, A
  <1>6. \A p \in A : PieceOk(p)
    BY <1>1, <1>2, <1>5
  \* The components an element of A stands for.
  <1>7. \A p \in A : \/ p \in P \ UNION W
                     \/ \E s \in W : p = Combined(s)
    BY <1>2
  <1>8. ASSUME NEW p \in A, NEW q \in A, p # q, NEW c, c \in p.burst.cells, c \in q.burst.cells
        PROVE  FALSE
    <2>1. CASE p \in P \ UNION W /\ q \in P \ UNION W
      BY <1>1, <1>8, <2>1
    <2>2. ASSUME NEW a \in P \ UNION W, NEW s \in W, c \in a.burst.cells, c \in Combined(s).burst.cells
          PROVE  FALSE
      <3>1. PICK d \in s : c \in d.burst.cells
        BY <1>5, <2>2
      <3>2. d \in P /\ d # a
        BY <1>3, <2>2, <3>1
      <3> QED BY <1>1, <2>2, <3>1, <3>2
    <2>3. ASSUME NEW s \in W, NEW r \in W, s # r,
                 c \in Combined(s).burst.cells, c \in Combined(r).burst.cells
          PROVE  FALSE
      <3>1. PICK d \in s : c \in d.burst.cells
        BY <1>5, <2>3
      <3>2. PICK a \in r : c \in a.burst.cells
        BY <1>5, <2>3
      <3>3. d \in P /\ a \in P
        BY <1>3, <3>1, <3>2
      <3>4. d = a
        BY <1>1, <3>1, <3>2, <3>3
      <3> QED BY <1>4, <2>3, <3>1, <3>2, <3>4
    <2> QED BY <1>7, <1>8, <2>1, <2>2, <2>3
  <1>9. ASSUME NEW c, NEW p \in A, c \in p.burst.cells PROVE c \in X
    <2>1. CASE p \in P \ UNION W
      BY <1>1, <1>9, <2>1
    <2>2. ASSUME NEW s \in W, p = Combined(s) PROVE c \in X
      <3>1. PICK d \in s : c \in d.burst.cells
        BY <1>5, <1>9, <2>2
      <3>2. d \in P
        BY <1>3
      <3> QED BY <1>1, <3>1, <3>2
    <2> QED BY <1>7, <2>1, <2>2
  <1>10. ASSUME NEW c \in X PROVE \E p \in A : c \in p.burst.cells
    <2>1. PICK p \in P : c \in p.burst.cells
      BY <1>1
    <2>2. CASE p \notin UNION W
      BY <1>2, <2>1, <2>2
    <2>3. ASSUME NEW s \in W, p \in s PROVE \E q \in A : c \in q.burst.cells
      <3>1. c \in Cells(s)
        BY <2>1, <2>3
      <3>2. c \in Combined(s).burst.cells /\ Combined(s) \in A
        BY <1>2, <1>5, <3>1
      <3> QED BY <3>2
    <2> QED BY <2>2, <2>3
  <1>11. UNION {p.burst.cells : p \in A} = X
    BY <1>9, <1>10
  <1> QED BY <1>6, <1>8, <1>11 DEF PiecesFit, A

LEMMA PairExtremes ==
  ASSUME NEW a \in Nat, NEW b \in Nat
  PROVE  /\ MinOf({a, b}) \in Nat /\ MinOf({a, b}) <= a /\ MinOf({a, b}) <= b
         /\ MaxOf({a, b}) \in Nat /\ a <= MaxOf({a, b}) /\ b <= MaxOf({a, b})
  <1> DEFINE S == {a, b}
  <1>1. MinOf(S) \in S /\ \A x \in S : MinOf(S) <= x
    <2>1. S \subseteq Nat /\ S # {}
      OBVIOUS
    <2> QED BY <2>1, MinIs
  <1>2. a + b \in Nat /\ S \subseteq 0..(a + b) /\ S # {}
    OBVIOUS
  <1>3. MaxOf(S) \in S /\ \A x \in S : x <= MaxOf(S)
    BY <1>2, MaxIs
  <1>4. a \in S /\ b \in S /\ \A x \in S : x \in Nat
    OBVIOUS
  <1> HIDE DEF S
  <1>5. /\ MinOf(S) \in Nat /\ MinOf(S) <= a /\ MinOf(S) <= b
        /\ MaxOf(S) \in Nat /\ a <= MaxOf(S) /\ b <= MaxOf(S)
    BY <1>1, <1>3, <1>4
  <1> QED BY <1>5 DEF S

\* A track and the component that continues it, which is later.
LEMMA ExtendedOk ==
  ASSUME clock \in Nat, NEW t, NEW b, BurstOk(t, clock), BurstOk(b, clock + Frames), b.start >= clock
  PROVE  /\ BurstOk(Extended(t, b), clock + Frames)
         /\ Extended(t, b).cells = t.cells \cup b.cells /\ Extended(t, b).start = t.start
  <1> DEFINE low == MinOf({t.low, b.low})
             high == MaxOf({t.high, b.high})
             n == t.active + b.active
             C == t.cells \cup b.cells
             m == t.ambiguous \/ b.ambiguous
             x == Extended(t, b)
  <1>0. Frames \in Nat /\ clock + Frames \in Nat
    BY BurstAssumption
  <1>1. /\ t.low \in Nat /\ t.high \in Nat /\ t.start \in Nat /\ t.end \in Nat /\ t.active \in Nat
        /\ b.low \in Nat /\ b.high \in Nat /\ b.start \in Nat /\ b.end \in Nat /\ b.active \in Nat
        /\ t.cells \subseteq Nat \X Nat /\ b.cells \subseteq Nat \X Nat
    BY DEF BurstOk, BurstShape
  <1>2. /\ t.start <= t.end /\ t.end <= clock /\ b.start <= b.end /\ b.end <= clock + Frames
        /\ t.cells \subseteq (t.start..(t.end - 1)) \X (t.low..t.high)
        /\ b.cells \subseteq (b.start..(b.end - 1)) \X (b.low..b.high)
        /\ IsFiniteSet(Instants(t)) /\ t.active = Cardinality(Instants(t))
        /\ IsFiniteSet(Instants(b)) /\ b.active = Cardinality(Instants(b))
        /\ BurstShape(t)
    BY DEF BurstOk
  <1>3. /\ low \in Nat /\ low <= t.low /\ low <= b.low
        /\ high \in Nat /\ t.high <= high /\ b.high <= high
    BY <1>1, PairExtremes
  <1>4. x = [t EXCEPT !.end = b.end, !.low = low, !.high = high, !.active = n, !.ambiguous = m,
                      !.lastLow = b.low, !.lastHigh = b.high, !.cells = C]
    BY DEF Extended
  <1>5. n \in Nat /\ C \subseteq Nat \X Nat
    BY <1>1
  <1>6. ASSUME NEW c \in C PROVE c \in (t.start..(b.end - 1)) \X (low..high)
    <2> HIDE DEF low, high
    <2>1. CASE c \in t.cells
      <3>1. c = <<c[1], c[2]>> /\ c[1] \in t.start..(t.end - 1) /\ c[2] \in t.low..t.high
        BY <1>2, <2>1
      <3>2. c[1] \in t.start..(b.end - 1)
        BY <1>1, <1>2, <3>1
      <3>3. c[2] \in low..high
        BY <1>1, <1>3, <3>1
      <3> QED BY <3>1, <3>2, <3>3
    <2>2. CASE c \in b.cells
      <3>1. c = <<c[1], c[2]>> /\ c[1] \in b.start..(b.end - 1) /\ c[2] \in b.low..b.high
        BY <1>2, <2>2
      <3>2. c[1] \in t.start..(b.end - 1)
        BY <1>1, <1>2, <3>1
      <3>3. c[2] \in low..high
        BY <1>1, <1>3, <3>1
      <3> QED BY <3>1, <3>2, <3>3
    <2> QED BY <2>1, <2>2
  <1>7. \A i \in Instants(t) : i < clock /\ i \in Nat
    <2>1. ASSUME NEW c \in t.cells PROVE c[1] < clock /\ c[1] \in Nat
      <3>1. c[1] \in t.start..(t.end - 1)
        BY <1>2
      <3> QED BY <1>1, <1>2, <3>1
    <2> QED BY <2>1 DEF Instants
  <1>8. \A i \in Instants(b) : i >= clock /\ i \in Nat
    <2>1. ASSUME NEW c \in b.cells PROVE c[1] >= clock /\ c[1] \in Nat
      <3>1. c[1] \in b.start..(b.end - 1)
        BY <1>2
      <3> QED BY <1>1, <1>2, <3>1
    <2> QED BY <2>1 DEF Instants
  <1>9. {c[1] : c \in C} = Instants(t) \cup Instants(b)
    BY DEF Instants
  <1>10. /\ IsFiniteSet(Instants(t) \cup Instants(b))
         /\ Cardinality(Instants(t) \cup Instants(b)) = n
    <2> DEFINE I == Instants(t)
               J == Instants(b)
    <2>1. IsFiniteSet(I) /\ IsFiniteSet(J) /\ I \cap J = {}
      BY <1>2, <1>7, <1>8
    <2>2. t.active = Cardinality(I) /\ b.active = Cardinality(J)
      BY <1>2
    <2> HIDE DEF I, J
    <2>3. IsFiniteSet(I \cup J)
      BY <2>1, FS_Union
    <2>4. Cardinality(I \cup J) = Cardinality(I) + Cardinality(J) - Cardinality(I \cap J)
      BY <2>1, FS_Union
    <2>5. Cardinality(I \cap J) = 0
      BY <2>1, FS_EmptySet
    <2>6. Cardinality(I \cup J) = n
      BY <1>1, <2>2, <2>4, <2>5
    <2> QED BY <2>3, <2>6 DEF I, J
  <1> HIDE DEF low, high, n, C, m, x
  <1>11. /\ x.low = low /\ x.high = high /\ x.start = t.start /\ x.end = b.end /\ x.active = n /\ x.cells = C
         /\ BurstShape(x)
    BY <1>1, <1>2, <1>3, <1>4, <1>5 DEF BurstShape
  <1>12. Instants(x) = Instants(t) \cup Instants(b)
    BY <1>9, <1>11 DEF Instants
  <1>13. t.start <= b.end
    BY <1>0, <1>1, <1>2
  <1>14. BurstOk(x, clock + Frames)
    BY <1>2, <1>6, <1>10, <1>11, <1>12, <1>13 DEF BurstOk
  <1> QED BY <1>11, <1>14 DEF x, C

LEMMA NewBurstSame ==
  ASSUME NEW c, NEW new, BurstShape(c.burst)
  PROVE  SameExtent(NewBurst(c, new), c.burst)
  <1> DEFINE l == c.burst
             x == NewBurst(c, new)
             m == l.ambiguous \/ c.matches # {}
             q == Rank(c, new) >= MaxBursts - Cardinality(Live)
             i == nextBurst + Rank(c, new)
  <1>1. x = [l EXCEPT !.ambiguous = m, !.limited = q, !.id = i]
    BY DEF NewBurst
  <1>2. BurstShape(l)
    OBVIOUS
  <1> HIDE DEF x, l, m, q, i
  <1>3. SameExtent(x, l)
    BY <1>1, <1>2 DEF BurstShape, SameExtent
  <1> QED BY <1>3 DEF x, l

-----------------------------------------------------------------------------
(* The step of a tile.                                                     *)

Cross(A, B) == \A s \in A, t \in B : s.cells \cap t.cells = {}

AllOk(A, upto) == \A b \in A : BurstOk(b, upto)

\* Bursts that begin after every hole.
AfterHoles(A) == \A b \in A, h \in holes : b.start > h

OutsideHoles(A) == \A b \in A, h \in holes : b.end <= h \/ b.start > h

BurstsInv ==
  /\ clock \in Nat /\ holes \subseteq 0..(clock - 1)
  /\ AllOk(bursts, clock) /\ AllOk(open, clock)
  /\ Apart(bursts) /\ Apart(open) /\ Cross(bursts, open)
  /\ Covered(bursts) \cup Covered(open) = strong
  /\ OutsideHoles(bursts) /\ AfterHoles(open)

LEMMA ApartUnion ==
  ASSUME NEW A, NEW B, Apart(A), Apart(B), Cross(A, B)
  PROVE  Apart(A \cup B)
  BY DEF Apart, Cross

LEMMA CrossUnion ==
  ASSUME NEW A, NEW B, NEW C, Cross(A, C), Cross(B, C)
  PROVE  Cross(A \cup B, C) /\ Cross(C, A \cup B)
  BY DEF Cross

LEMMA ApartSubset ==
  ASSUME NEW A, NEW B, Apart(B), A \subseteq B
  PROVE  Apart(A) /\ Cross(A, B \ A)
  BY DEF Apart, Cross

\* Bursts whose flags or number changed.
LEMMA RelabelledAll ==
  ASSUME NEW A, NEW B, NEW upto, AllOk(A, upto), Apart(A), NEW f,
         \A t \in A : SameExtent(f[t], t) /\ f[t] \in B, \A x \in B : \E t \in A : x = f[t]
  PROVE  /\ AllOk(B, upto) /\ Apart(B) /\ Covered(B) = Covered(A)
         /\ \A x \in B : \E t \in A : SameExtent(x, t)
  <1>1. ASSUME NEW t \in A PROVE BurstOk(f[t], upto)
    BY SameExtentOk DEF AllOk
  <1>2. \A t \in A : f[t].cells = t.cells
    BY DEF SameExtent
  <1>3. AllOk(B, upto) /\ \A x \in B : \E t \in A : SameExtent(x, t)
    BY <1>1 DEF AllOk
  <1>4. Apart(B)
    <2>1. ASSUME NEW x \in B, NEW y \in B, x # y PROVE x.cells \cap y.cells = {}
      <3>1. PICK t \in A : x = f[t]
        OBVIOUS
      <3>2. PICK u \in A : y = f[u]
        OBVIOUS
      <3>3. t # u
        BY <2>1, <3>1, <3>2
      <3> QED BY <1>2, <3>1, <3>2, <3>3 DEF Apart
    <2> QED BY <2>1 DEF Apart
  <1>5. Covered(B) = Covered(A)
    <2>1. ASSUME NEW c \in Covered(B) PROVE c \in Covered(A)
      <3>1. PICK x \in B : c \in x.cells
        BY DEF Covered
      <3>2. PICK t \in A : x = f[t]
        OBVIOUS
      <3> QED BY <1>2, <3>1, <3>2 DEF Covered
    <2>2. ASSUME NEW c \in Covered(A) PROVE c \in Covered(B)
      <3>1. PICK t \in A : c \in t.cells
        BY DEF Covered
      <3>2. f[t] \in B /\ c \in f[t].cells
        BY <1>2, <3>1
      <3> QED BY <3>2 DEF Covered
    <2> QED BY <2>1, <2>2
  <1> QED BY <1>3, <1>4, <1>5

LEMMA LimitedAll ==
  ASSUME NEW A, NEW upto, AllOk(A, upto), Apart(A)
  PROVE  LET B == {Limited(t) : t \in A}
         IN  /\ AllOk(B, upto) /\ Apart(B) /\ Covered(B) = Covered(A)
             /\ \A x \in B : \E t \in A : SameExtent(x, t)
  <1> DEFINE B == {Limited(t) : t \in A}
             f == [t \in A |-> Limited(t)]
  <1>1. ASSUME NEW t \in A PROVE SameExtent(Limited(t), t)
    BY LimitedSame DEF AllOk, BurstOk
  <1>2. \A t \in A : SameExtent(f[t], t) /\ f[t] \in B
    BY <1>1
  <1>3. \A x \in B : \E t \in A : x = f[t]
    OBVIOUS
  <1> HIDE DEF f, B
  <1>4. /\ AllOk(B, upto) /\ Apart(B) /\ Covered(B) = Covered(A)
        /\ \A x \in B : \E t \in A : SameExtent(x, t)
    BY <1>2, <1>3, RelabelledAll
  <1> QED BY <1>4 DEF B

LEMMA AmbiguousAll ==
  ASSUME NEW A, NEW upto, AllOk(A, upto), Apart(A)
  PROVE  LET B == {Ambiguous(t) : t \in A}
         IN  /\ AllOk(B, upto) /\ Apart(B) /\ Covered(B) = Covered(A)
             /\ \A x \in B : \E t \in A : SameExtent(x, t)
  <1> DEFINE B == {Ambiguous(t) : t \in A}
             f == [t \in A |-> Ambiguous(t)]
  <1>1. ASSUME NEW t \in A PROVE SameExtent(Ambiguous(t), t)
    BY AmbiguousSame DEF AllOk, BurstOk
  <1>2. \A t \in A : SameExtent(f[t], t) /\ f[t] \in B
    BY <1>1
  <1>3. \A x \in B : \E t \in A : x = f[t]
    OBVIOUS
  <1> HIDE DEF f, B
  <1>4. /\ AllOk(B, upto) /\ Apart(B) /\ Covered(B) = Covered(A)
        /\ \A x \in B : \E t \in A : SameExtent(x, t)
    BY <1>2, <1>3, RelabelledAll
  <1> QED BY <1>4 DEF B


\* Live tracks and the components of a tile share no cell.
LiveFit(P) ==
  /\ \A t \in Live : BurstOk(t, clock) /\ \A h \in holes : t.start > h
  /\ \A t, u \in Live : t # u => t.cells \cap u.cells = {}
  /\ \A t \in Live, c \in P : t.cells \cap c.burst.cells = {}
  /\ \A c, d \in P : c # d => c.burst.cells \cap d.burst.cells = {}
  /\ \A c \in P : /\ BurstOk(c.burst, clock + Frames) /\ c.burst.start >= clock
                  /\ c.matches \subseteq Live

LEMMA EarlierApart ==
  ASSUME clock \in Nat, NEW t, NEW c, BurstOk(t, clock), PieceOk(c)
  PROVE  t.cells \cap c.burst.cells = {}
  <1>1. /\ t.cells \subseteq (t.start..(t.end - 1)) \X (t.low..t.high)
        /\ t.end <= clock /\ t.start \in Nat /\ t.end \in Nat
    BY DEF BurstOk, BurstShape
  <1> DEFINE b == c.burst
  <1>2. /\ b.cells \subseteq (b.start..(b.end - 1)) \X (b.low..b.high)
        /\ clock <= b.start /\ b.start \in Nat /\ b.end \in Nat
    BY DEF PieceOk, BurstOk, BurstShape
  <1> HIDE DEF b
  <1>3. ASSUME NEW x \in t.cells, x \in b.cells PROVE FALSE
    <2>1. x[1] \in t.start..(t.end - 1) /\ x[1] \in b.start..(b.end - 1)
      BY <1>1, <1>2, <1>3
    <2> QED BY <1>1, <1>2, <2>1
  <1> QED BY <1>3 DEF b

LEMMA LiveFits ==
  ASSUME BurstsInv, NEW P, NEW X, PiecesFit(P, X)
  PROVE  LiveFit(P)
  <1>1. /\ Live \subseteq open /\ clock \in Nat /\ AllOk(open, clock) /\ Apart(open)
        /\ AfterHoles(open)
    BY DEF BurstsInv, Live
  <1>2. /\ \A p \in P : PieceOk(p)
        /\ \A p, q \in P : p # q => p.burst.cells \cap q.burst.cells = {}
    BY DEF PiecesFit
  <1>3. \A t \in Live : BurstOk(t, clock) /\ \A h \in holes : t.start > h
    BY <1>1 DEF AllOk, AfterHoles
  <1>4. \A t, u \in Live : t # u => t.cells \cap u.cells = {}
    BY <1>1 DEF Apart
  <1>5. \A t \in Live, c \in P : t.cells \cap c.burst.cells = {}
    BY <1>1, <1>2, <1>3, EarlierApart
  <1>6. \A c \in P : /\ BurstOk(c.burst, clock + Frames) /\ c.burst.start >= clock
                     /\ c.matches \subseteq Live
    BY <1>2 DEF PieceOk
  <1> QED BY <1>2, <1>3, <1>4, <1>5, <1>6 DEF LiveFit

\* What becomes of each live track and each component.
LEMMA Fates ==
  ASSUME NEW P, \A c \in P : c.matches \subseteq Live
  PROVE  /\ Retired(P) \subseteq Live /\ Quiet(P) \subseteq Live /\ New(P) \subseteq P
         /\ Retired(P) \cap Quiet(P) = {}
         /\ \A t \in Live, c \in P :
              Continues(c, t, P) => t \notin Retired(P) /\ t \notin Quiet(P) /\ c \notin New(P)
         /\ \A t \in Live : t \in Retired(P) \/ t \in Quiet(P) \/ \E c \in P : Continues(c, t, P)
         /\ \A c \in P : c \in New(P) \/ \E t \in Live : Continues(c, t, P)
         /\ \A t, u \in Live : \A c, d \in P :
              Continues(c, t, P) /\ Continues(d, u, P) => (t = u <=> c = d)
  <1>1. New(P) \subseteq P /\ Quiet(P) \subseteq Live
    BY DEF New, Quiet
  <1>2. ASSUME NEW t \in Retired(P) PROVE \E c \in New(P) : t \in c.matches
    BY DEF Retired
  <1>3. Retired(P) \subseteq Live
    BY <1>1, <1>2
  <1>4. ASSUME NEW t \in Retired(P) PROVE t \notin Quiet(P)
    BY <1>1, <1>2 DEF Quiet, UsersOf
  <1>5. ASSUME NEW t \in Live, NEW c \in P, Continues(c, t, P)
        PROVE  t \notin Retired(P) /\ t \notin Quiet(P) /\ c \notin New(P)
    <2>1. c.matches = {t} /\ UsersOf(t, P) = {c}
      BY <1>5 DEF Continues
    <2>2. c \notin New(P)
      BY <1>5 DEF New
    <2>3. t \notin Quiet(P)
      BY <2>1 DEF Quiet
    <2>4. ASSUME t \in Retired(P) PROVE FALSE
      <3>1. PICK d \in New(P) : t \in d.matches
        BY <1>2, <2>4
      <3>2. d \in UsersOf(t, P)
        BY <1>1, <3>1 DEF UsersOf
      <3> QED BY <2>1, <2>2, <3>1, <3>2
    <2> QED BY <2>2, <2>3, <2>4
  <1>6. \A c \in P : c \in New(P) \/ \E t \in Live : Continues(c, t, P)
    BY DEF New
  <1>7. ASSUME NEW t \in Live, t \notin Quiet(P), t \notin Retired(P)
        PROVE  \E c \in P : Continues(c, t, P)
    <2>1. PICK c \in UsersOf(t, P) : TRUE
      BY <1>7 DEF Quiet
    <2>2. c \in P /\ t \in c.matches
      BY DEF UsersOf
    <2>3. c \notin New(P)
      BY <1>7, <2>2 DEF Retired
    <2>4. PICK u \in Live : Continues(c, u, P)
      BY <1>6, <2>2, <2>3
    <2>5. c.matches = {u}
      BY <2>4 DEF Continues
    <2>6. u = t
      BY <2>2, <2>5
    <2> QED BY <2>2, <2>4, <2>6
  <1>8. ASSUME NEW t \in Live, NEW u \in Live, NEW c \in P, NEW d \in P,
               Continues(c, t, P), Continues(d, u, P)
        PROVE  t = u <=> c = d
    <2>1. c.matches = {t} /\ UsersOf(t, P) = {c} /\ d.matches = {u} /\ UsersOf(u, P) = {d}
      BY <1>8 DEF Continues
    <2> QED BY <2>1
  <1> QED BY <1>1, <1>3, <1>4, <1>5, <1>6, <1>7, <1>8

LEMMA GrownIs ==
  ASSUME NEW P
  PROVE  /\ \A x \in Grown(P) : \E t \in Live : \E c \in P :
              Continues(c, t, P) /\ x = Extended(t, c.burst)
         /\ \A t \in Live, c \in P : Continues(c, t, P) => Extended(t, c.burst) \in Grown(P)
  <1> DEFINE D == {p \in Live \X P : Continues(p[2], p[1], P)}
  <1>1. Grown(P) = {Extended(p[1], p[2].burst) : p \in D}
    BY DEF Grown
  <1>2. ASSUME NEW x \in Grown(P)
        PROVE  \E t \in Live : \E c \in P : Continues(c, t, P) /\ x = Extended(t, c.burst)
    <2>1. PICK p \in D : x = Extended(p[1], p[2].burst)
      BY <1>1
    <2>2. p[1] \in Live /\ p[2] \in P /\ Continues(p[2], p[1], P)
      OBVIOUS
    <2> QED BY <2>1, <2>2
  <1>3. ASSUME NEW t \in Live, NEW c \in P, Continues(c, t, P)
        PROVE  Extended(t, c.burst) \in Grown(P)
    <2> DEFINE p == <<t, c>>
    <2>1. p \in Live \X P /\ p[1] = t /\ p[2] = c
      OBVIOUS
    <2> HIDE DEF p
    <2>2. p \in D
      BY <1>3, <2>1
    <2> QED BY <1>1, <2>1, <2>2
  <1> QED BY <1>2, <1>3

\* The collections a tile leaves: where the live tracks and the components go.
Begun(P) == {NewBurst(c, New(P)) : c \in New(P)}

SharedOut(P, X) ==
  /\ \A A \in {Retired(P), Quiet(P), Grown(P), Begun(P)} :
       AllOk(A, clock + Frames) /\ Apart(A) /\ AfterHoles(A)
  /\ Cross(Retired(P), Quiet(P)) /\ Cross(Retired(P), Grown(P)) /\ Cross(Retired(P), Begun(P))
  /\ Cross(Quiet(P), Grown(P)) /\ Cross(Quiet(P), Begun(P)) /\ Cross(Grown(P), Begun(P))
  /\ Covered(Retired(P)) \cup Covered(Quiet(P)) \cup Covered(Grown(P)) \cup Covered(Begun(P))
       = Covered(Live) \cup X

LEMMA TileShared ==
  ASSUME BurstsInv, NEW P, NEW X, PiecesFit(P, X)
  PROVE  SharedOut(P, X)
  <1> DEFINE R == Retired(P)
             Q == Quiet(P)
             G == Grown(P)
             N == Begun(P)
             upto == clock + Frames
  <1>0. clock \in Nat /\ upto \in Nat /\ clock <= upto /\ holes \subseteq 0..(clock - 1)
    BY BurstAssumption DEF BurstsInv
  <1>1. LiveFit(P)
    BY LiveFits
  <1>2. /\ \A t \in Live : BurstOk(t, clock) /\ \A h \in holes : t.start > h
        /\ \A t, u \in Live : t # u => t.cells \cap u.cells = {}
        /\ \A t \in Live, c \in P : t.cells \cap c.burst.cells = {}
        /\ \A c, d \in P : c # d => c.burst.cells \cap d.burst.cells = {}
        /\ \A c \in P : /\ BurstOk(c.burst, upto) /\ c.burst.start >= clock
                        /\ c.matches \subseteq Live
    BY <1>1 DEF LiveFit
  <1>3. /\ R \subseteq Live /\ Q \subseteq Live /\ New(P) \subseteq P /\ R \cap Q = {}
        /\ \A t \in Live, c \in P :
             Continues(c, t, P) => t \notin R /\ t \notin Q /\ c \notin New(P)
        /\ \A t \in Live : t \in R \/ t \in Q \/ \E c \in P : Continues(c, t, P)
        /\ \A c \in P : c \in New(P) \/ \E t \in Live : Continues(c, t, P)
        /\ \A t, u \in Live : \A c, d \in P :
              Continues(c, t, P) /\ Continues(d, u, P) => (t = u <=> c = d)
    BY <1>2, Fates
  <1>4. /\ \A x \in G : \E t \in Live : \E c \in P : Continues(c, t, P) /\ x = Extended(t, c.burst)
        /\ \A t \in Live, c \in P : Continues(c, t, P) => Extended(t, c.burst) \in G
    BY GrownIs
  <1>5. ASSUME NEW t \in Live, NEW c \in P
        PROVE  /\ BurstOk(Extended(t, c.burst), upto)
               /\ Extended(t, c.burst).cells = t.cells \cup c.burst.cells
               /\ Extended(t, c.burst).start = t.start
    <2> DEFINE b == c.burst
    <2>1. BurstOk(t, clock) /\ BurstOk(b, clock + Frames) /\ b.start >= clock
      BY <1>2
    <2> HIDE DEF b
    <2>2. /\ BurstOk(Extended(t, b), clock + Frames)
          /\ Extended(t, b).cells = t.cells \cup b.cells /\ Extended(t, b).start = t.start
      BY <1>0, <2>1, ExtendedOk
    <2> QED BY <2>2 DEF b
  <1>6. \A x \in N : \E c \in New(P) : x = NewBurst(c, New(P))
    BY DEF Begun
  <1>7. ASSUME NEW c \in New(P)
        PROVE  /\ NewBurst(c, New(P)) \in N /\ BurstOk(NewBurst(c, New(P)), upto)
               /\ NewBurst(c, New(P)).cells = c.burst.cells
               /\ NewBurst(c, New(P)).start = c.burst.start
    <2> DEFINE x == NewBurst(c, New(P))
               b == c.burst
    <2>1. BurstOk(b, upto) /\ BurstShape(b)
      BY <1>2, <1>3 DEF BurstOk
    <2>2. SameExtent(x, b)
      BY <2>1, NewBurstSame
    <2>3. x \in N
      BY DEF Begun
    <2> HIDE DEF x, b
    <2>4. BurstOk(x, upto) /\ x.cells = b.cells /\ x.start = b.start
      BY <2>1, <2>2, SameExtentOk DEF SameExtent
    <2> QED BY <2>3, <2>4 DEF x, b
  <1> HIDE DEF R, Q, G, N, upto
  \* What an element of each collection is.
  <1>8. ASSUME NEW x \in G
        PROVE  \E t \in Live : \E c \in P :
                 /\ Continues(c, t, P) /\ x = Extended(t, c.burst)
                 /\ x.cells = t.cells \cup c.burst.cells
                 /\ t \notin R /\ t \notin Q /\ c \notin New(P)
    BY <1>3, <1>4, <1>5
  <1>9. ASSUME NEW x \in N PROVE \E c \in New(P) : c \in P /\ x = NewBurst(c, New(P)) /\ x.cells = c.burst.cells
    BY <1>3, <1>6, <1>7
  <1>10. AllOk(R, upto) /\ AllOk(Q, upto)
    BY <1>0, <1>2, <1>3, BurstLater DEF AllOk
  <1>11. AllOk(G, upto)
    BY <1>4, <1>5 DEF AllOk
  <1>12. AllOk(N, upto)
    BY <1>6, <1>7 DEF AllOk
  <1>13. AfterHoles(R) /\ AfterHoles(Q)
    BY <1>2, <1>3 DEF AfterHoles
  <1>14. AfterHoles(G)
    BY <1>2, <1>4, <1>5 DEF AfterHoles
  <1>15. AfterHoles(N)
    <2>1. ASSUME NEW c \in New(P), NEW h \in holes PROVE c.burst.start > h
      <3>1. c.burst.start \in Nat /\ c.burst.start >= clock
        BY <1>2, <1>3 DEF BurstOk, BurstShape
      <3>2. h \in Nat /\ h < clock
        BY <1>0
      <3> QED BY <1>0, <3>1, <3>2
    <2> QED BY <1>6, <1>7, <2>1 DEF AfterHoles
  <1>16. Apart(R) /\ Apart(Q) /\ Cross(R, Q)
    BY <1>2, <1>3 DEF Apart, Cross
  <1>17. Apart(G)
    <2>1. ASSUME NEW x \in G, NEW y \in G, x # y PROVE x.cells \cap y.cells = {}
      <3>1. PICK t \in Live : \E c \in P :
              Continues(c, t, P) /\ x = Extended(t, c.burst) /\ x.cells = t.cells \cup c.burst.cells
        BY <1>8
      <3>2. PICK c \in P :
              Continues(c, t, P) /\ x = Extended(t, c.burst) /\ x.cells = t.cells \cup c.burst.cells
        BY <3>1
      <3>3. PICK u \in Live : \E d \in P :
              Continues(d, u, P) /\ y = Extended(u, d.burst) /\ y.cells = u.cells \cup d.burst.cells
        BY <1>8
      <3>4. PICK d \in P :
              Continues(d, u, P) /\ y = Extended(u, d.burst) /\ y.cells = u.cells \cup d.burst.cells
        BY <3>3
      <3>5. t = u <=> c = d
        BY <1>3, <3>2, <3>4
      <3>6. t # u /\ c # d
        BY <2>1, <3>2, <3>4, <3>5
      <3>7. /\ t.cells \cap u.cells = {} /\ c.burst.cells \cap d.burst.cells = {}
            /\ t.cells \cap d.burst.cells = {} /\ u.cells \cap c.burst.cells = {}
        BY <1>2, <3>6
      <3> QED BY <3>2, <3>4, <3>7
    <2> QED BY <2>1 DEF Apart
  <1>18. Apart(N)
    <2>1. ASSUME NEW x \in N, NEW y \in N, x # y PROVE x.cells \cap y.cells = {}
      <3>1. PICK c \in New(P) : c \in P /\ x = NewBurst(c, New(P)) /\ x.cells = c.burst.cells
        BY <1>9
      <3>2. PICK d \in New(P) : d \in P /\ y = NewBurst(d, New(P)) /\ y.cells = d.burst.cells
        BY <1>9
      <3>3. c # d
        BY <2>1, <3>1, <3>2
      <3> QED BY <1>2, <3>1, <3>2, <3>3
    <2> QED BY <2>1 DEF Apart
  <1>19. ASSUME NEW T, T \subseteq Live, T \cap {u \in Live : \E c \in P : Continues(c, u, P)} = {}
         PROVE  Cross(T, G) /\ Cross(T, N)
    <2>1. ASSUME NEW t \in T, NEW y \in G PROVE t.cells \cap y.cells = {}
      <3>1. PICK u \in Live : \E c \in P : Continues(c, u, P) /\ y.cells = u.cells \cup c.burst.cells
        BY <1>8
      <3>2. PICK c \in P : Continues(c, u, P) /\ y.cells = u.cells \cup c.burst.cells
        BY <3>1
      <3>3. t \in Live /\ t # u
        BY <1>19, <3>2
      <3> QED BY <1>2, <3>2, <3>3
    <2>2. ASSUME NEW t \in T, NEW y \in N PROVE t.cells \cap y.cells = {}
      <3>1. PICK c \in New(P) : c \in P /\ y.cells = c.burst.cells
        BY <1>9
      <3> QED BY <1>2, <1>19, <3>1
    <2> QED BY <2>1, <2>2 DEF Cross
  <1>20. Cross(R, G) /\ Cross(R, N)
    BY <1>3, <1>19
  <1>21. Cross(Q, G) /\ Cross(Q, N)
    BY <1>3, <1>19
  <1>22. Cross(G, N)
    <2>1. ASSUME NEW x \in G, NEW y \in N PROVE x.cells \cap y.cells = {}
      <3>1. PICK t \in Live : \E c \in P : c \notin New(P) /\ x.cells = t.cells \cup c.burst.cells
        BY <1>8
      <3>2. PICK c \in P : c \notin New(P) /\ x.cells = t.cells \cup c.burst.cells
        BY <3>1
      <3>3. PICK d \in New(P) : d \in P /\ y.cells = d.burst.cells
        BY <1>9
      <3>4. c # d
        BY <3>2, <3>3
      <3>5. c.burst.cells \cap d.burst.cells = {} /\ t.cells \cap d.burst.cells = {}
        BY <1>2, <3>3, <3>4
      <3> QED BY <3>2, <3>3, <3>5
    <2> QED BY <2>1 DEF Cross
  <1> DEFINE All == Covered(R) \cup Covered(Q) \cup Covered(G) \cup Covered(N)
  <1>23. X = UNION {p.burst.cells : p \in P}
    BY DEF PiecesFit
  <1>24. ASSUME NEW z \in All PROVE z \in Covered(Live) \cup X
    <2>1. CASE z \in Covered(R) \cup Covered(Q)
      BY <1>3, <2>1 DEF Covered
    <2>2. CASE z \in Covered(G)
      <3>1. PICK x \in G : z \in x.cells
        BY <2>2 DEF Covered
      <3>2. PICK t \in Live : \E c \in P : x.cells = t.cells \cup c.burst.cells
        BY <1>8
      <3>3. PICK c \in P : x.cells = t.cells \cup c.burst.cells
        BY <3>2
      <3> QED BY <1>23, <3>1, <3>3 DEF Covered
    <2>3. CASE z \in Covered(N)
      <3>1. PICK x \in N : z \in x.cells
        BY <2>3 DEF Covered
      <3>2. PICK c \in New(P) : c \in P /\ x.cells = c.burst.cells
        BY <1>9
      <3> QED BY <1>23, <3>1, <3>2
    <2> QED BY <2>1, <2>2, <2>3
  <1>25. ASSUME NEW z \in Covered(Live) PROVE z \in All
    <2>1. PICK t \in Live : z \in t.cells
      BY DEF Covered
    <2>2. CASE t \in R \/ t \in Q
      BY <2>1, <2>2 DEF Covered
    <2>3. ASSUME NEW c \in P, Continues(c, t, P) PROVE z \in All
      <3>1. Extended(t, c.burst) \in G /\ z \in Extended(t, c.burst).cells
        BY <1>4, <1>5, <2>1, <2>3
      <3> QED BY <3>1 DEF Covered
    <2> QED BY <1>3, <2>2, <2>3
  <1>26. ASSUME NEW z \in X PROVE z \in All
    <2>1. PICK c \in P : z \in c.burst.cells
      BY <1>23
    <2>2. CASE c \in New(P)
      <3>1. NewBurst(c, New(P)) \in N /\ z \in NewBurst(c, New(P)).cells
        BY <1>7, <2>1, <2>2
      <3> QED BY <3>1 DEF Covered
    <2>3. ASSUME NEW t \in Live, Continues(c, t, P) PROVE z \in All
      <3>1. Extended(t, c.burst) \in G /\ z \in Extended(t, c.burst).cells
        BY <1>4, <1>5, <2>1, <2>3
      <3> QED BY <3>1 DEF Covered
    <2> QED BY <1>3, <2>2, <2>3
  <1>27. All = Covered(Live) \cup X
    BY <1>24, <1>25, <1>26
  <1> QED BY <1>10, <1>11, <1>12, <1>13, <1>14, <1>15, <1>16, <1>17, <1>18, <1>20, <1>21, <1>22, <1>27
       DEF SharedOut, R, Q, G, N, upto

LEMMA CrossSame ==
  ASSUME NEW A, NEW B, NEW C, Cross(A, C), \A x \in B : \E t \in A : SameExtent(x, t)
  PROVE  Cross(B, C)
  BY DEF Cross, SameExtent

LEMMA CrossSubset ==
  ASSUME NEW A, NEW B, NEW C, NEW D, Cross(A, C), B \subseteq A, D \subseteq C
  PROVE  Cross(B, D) /\ Cross(D, B)
  BY DEF Cross

LEMMA AfterSame ==
  ASSUME NEW A, NEW B, AfterHoles(A), \A x \in B : \E t \in A : SameExtent(x, t)
  PROVE  AfterHoles(B)
  BY DEF AfterHoles, SameExtent

LEMMA CoveredUnion ==
  ASSUME NEW A, NEW B
  PROVE  Covered(A \cup B) = Covered(A) \cup Covered(B)
  BY DEF Covered

\* The collections of a tile: earlier bursts (O), retired tracks (R), quiet
\* ones (Q), grown ones (G) and new ones (N).
Separate(upto, O, R, Q, G, N) ==
  /\ \A A \in {R, Q, G, N} : AllOk(A, upto) /\ Apart(A) /\ AfterHoles(A) /\ Cross(O, A)
  /\ AllOk(O, upto) /\ Apart(O) /\ OutsideHoles(O)
  /\ Cross(R, Q) /\ Cross(R, G) /\ Cross(R, N) /\ Cross(Q, G) /\ Cross(Q, N) /\ Cross(G, N)

ClosedBursts(O, R, M, J) == O \cup {Ambiguous(t) : t \in R} \cup M \cup {Limited(t) : t \in J}

\* The bursts that have ended (B) and the tracks that go on (K) after the tile:
\* some new tracks (M) find no place and others (J) last too long.
SettleFrom(upto, O, R, Q, G, N, M, J, B, K) ==
  /\ Separate(upto, O, R, Q, G, N) /\ M \subseteq N /\ J \subseteq Q \cup G \cup (N \ M)
  /\ B = ClosedBursts(O, R, M, J) /\ K = (Q \cup G \cup (N \ M)) \ J

SettleTo(upto, O, R, Q, G, N, M, J, B, K) ==
  /\ AllOk(B, upto) /\ AllOk(K, upto) /\ Apart(B) /\ Apart(K) /\ Cross(B, K)
  /\ Covered(B) \cup Covered(K)
       = Covered(O) \cup Covered(R) \cup Covered(Q) \cup Covered(G) \cup Covered(N)
  /\ OutsideHoles(B) /\ AfterHoles(K)

LEMMA Settled ==
  ASSUME NEW upto, NEW O, NEW R, NEW Q, NEW G, NEW N, NEW M, NEW J, NEW B, NEW K,
         SettleFrom(upto, O, R, Q, G, N, M, J, B, K)
  PROVE  SettleTo(upto, O, R, Q, G, N, M, J, B, K)
  <1> DEFINE NK == N \ M
             kept == Q \cup G \cup NK
             RA == {Ambiguous(t) : t \in R}
             JL == {Limited(t) : t \in J}
  <1>1. /\ Separate(upto, O, R, Q, G, N) /\ M \subseteq N /\ J \subseteq Q \cup G \cup (N \ M)
        /\ B = ClosedBursts(O, R, M, J) /\ K = (Q \cup G \cup (N \ M)) \ J
    BY DEF SettleFrom
  <1>2. /\ AllOk(O, upto) /\ Apart(O) /\ OutsideHoles(O)
        /\ Cross(R, Q) /\ Cross(R, G) /\ Cross(R, N) /\ Cross(Q, G) /\ Cross(Q, N) /\ Cross(G, N)
    BY <1>1 DEF Separate
  <1>3. AllOk(R, upto) /\ Apart(R) /\ AfterHoles(R) /\ Cross(O, R)
    BY <1>1 DEF Separate
  <1>4. AllOk(Q, upto) /\ Apart(Q) /\ AfterHoles(Q) /\ Cross(O, Q)
    BY <1>1 DEF Separate
  <1>5. AllOk(G, upto) /\ Apart(G) /\ AfterHoles(G) /\ Cross(O, G)
    BY <1>1 DEF Separate
  <1>6. AllOk(N, upto) /\ Apart(N) /\ AfterHoles(N) /\ Cross(O, N)
    BY <1>1 DEF Separate
  <1>7. Apart(M) /\ Cross(M, NK) /\ Apart(NK)
    BY <1>1, <1>6, ApartSubset
  <1>8. Apart(kept)
    BY <1>2, <1>4, <1>5, <1>7 DEF Apart, Cross
  <1>9. Cross(O, kept) /\ Cross(R, kept)
    BY <1>2, <1>4, <1>5, <1>6 DEF Cross
  <1>10. Cross(M, kept)
    BY <1>1, <1>2, <1>7 DEF Cross
  <1>11. Cross(O, M) /\ Cross(R, M) /\ M \subseteq N
    BY <1>1, <1>2, <1>6 DEF Cross
  <1>12. AllOk(kept, upto) /\ AfterHoles(kept)
    BY <1>4, <1>5, <1>6 DEF AllOk, AfterHoles
  <1>13. AllOk(M, upto) /\ AfterHoles(M)
    BY <1>1, <1>6 DEF AllOk, AfterHoles
  <1>14. Covered(M) \cup Covered(NK) = Covered(N)
    BY <1>1 DEF Covered
  <1>15. Covered(kept) = Covered(Q) \cup Covered(G) \cup Covered(NK)
    BY DEF Covered
  <1> HIDE DEF kept, NK
  <1>16. J \subseteq kept /\ K = kept \ J
    BY <1>1 DEF kept, NK
  <1>17. Apart(J) /\ Apart(K) /\ Cross(J, K) /\ K \subseteq kept
    <2>1. Apart(J) /\ Cross(J, kept \ J)
      BY <1>8, <1>16, ApartSubset
    <2>2. Apart(K)
      BY <1>8, <1>16 DEF Apart
    <2> QED BY <1>16, <2>1, <2>2
  <1>18. AllOk(J, upto) /\ AfterHoles(J) /\ AllOk(K, upto) /\ AfterHoles(K)
    BY <1>12, <1>16, <1>17 DEF AllOk, AfterHoles
  <1>19. /\ AllOk(RA, upto) /\ Apart(RA) /\ Covered(RA) = Covered(R)
         /\ \A x \in RA : \E t \in R : SameExtent(x, t)
    BY <1>3, AmbiguousAll
  <1>20. /\ AllOk(JL, upto) /\ Apart(JL) /\ Covered(JL) = Covered(J)
         /\ \A x \in JL : \E t \in J : SameExtent(x, t)
    BY <1>17, <1>18, LimitedAll
  <1>21. B = O \cup RA \cup M \cup JL
    BY <1>1 DEF ClosedBursts
  <1> HIDE DEF RA, JL
  <1>22. Cross(J, O) /\ Cross(J, R) /\ Cross(J, M)
    BY <1>9, <1>10, <1>16, CrossSubset
  <1>23. Cross(JL, O) /\ Cross(JL, R) /\ Cross(JL, M) /\ Cross(JL, K)
    BY <1>17, <1>20, <1>22, CrossSame
  <1>24. Cross(R, O) /\ Cross(R, M) /\ Cross(R, JL) /\ Cross(R, K)
    <2>1. Cross(R, O) /\ Cross(R, JL)
      BY <1>3, <1>23 DEF Cross
    <2>2. Cross(R, K)
      BY <1>9, <1>17 DEF Cross
    <2> QED BY <1>11, <2>1, <2>2
  <1>25. Cross(RA, O) /\ Cross(RA, M) /\ Cross(RA, JL) /\ Cross(RA, K)
    BY <1>19, <1>24, CrossSame
  <1>26. Cross(O, K) /\ Cross(M, K)
    BY <1>9, <1>10, <1>17 DEF Cross
  <1>27. Cross(B, K)
    BY <1>21, <1>23, <1>25, <1>26 DEF Cross
  <1>28. Apart(B)
    <2>1. Cross(O, RA) /\ Apart(O \cup RA)
      <3>1. Cross(O, RA)
        BY <1>25 DEF Cross
      <3> QED BY <1>2, <1>19, <3>1, ApartUnion
    <2>2. Cross(O \cup RA, M) /\ Cross(O \cup RA \cup M, JL)
      BY <1>11, <1>23, <1>25 DEF Cross
    <2>3. Apart(O \cup RA \cup M)
      BY <1>7, <2>1, <2>2, ApartUnion
    <2>4. Apart(O \cup RA \cup M \cup JL)
      BY <1>20, <2>2, <2>3, ApartUnion
    <2> QED BY <1>21, <2>4
  <1>29. AllOk(B, upto)
    BY <1>2, <1>13, <1>19, <1>20, <1>21 DEF AllOk
  <1>30. OutsideHoles(B)
    <2>1. AfterHoles(RA) /\ AfterHoles(JL)
      BY <1>3, <1>18, <1>19, <1>20, AfterSame
    <2> QED BY <1>2, <1>13, <1>21, <2>1 DEF OutsideHoles, AfterHoles
  <1>31. Covered(J) \cup Covered(K) = Covered(kept)
    BY <1>16 DEF Covered
  <1>32. Covered(B) = Covered(O) \cup Covered(RA) \cup Covered(M) \cup Covered(JL)
    BY <1>21 DEF Covered
  <1>33. Covered(B) \cup Covered(K)
           = Covered(O) \cup Covered(R) \cup Covered(Q) \cup Covered(G) \cup Covered(N)
    BY <1>14, <1>15, <1>19, <1>20, <1>31, <1>32
  <1> QED BY <1>17, <1>18, <1>27, <1>28, <1>29, <1>30, <1>33 DEF SettleTo

LEMMA ConsumeKeeps ==
  ASSUME BurstsInv, NEW tile \in Tiles, Consume(tile)
  PROVE  BurstsInv'
  <1> DEFINE P == AfterSweeps(Pieces(tile))
             X == CellsIn(tile, StrongBins(tile))
             upto == clock + Frames
             O == bursts \cup (open \ Live)
             R == Retired(P)
             Q == Quiet(P)
             G == Grown(P)
             N == Begun(P)
             M == {b \in N : b.limited}
             kept == Q \cup G \cup {b \in N : ~b.limited}
             J == {t \in kept : t.end - t.start >= LongBurst}
  <1>1. /\ open' = kept \ J
        /\ bursts' = bursts \cup (open \ Live) \cup {Ambiguous(t) : t \in R} \cup M \cup {Limited(t) : t \in J}
        /\ strong' = strong \cup X /\ clock' = clock + Frames /\ holes' = holes
    BY DEF Consume, Begun
  <1>2. /\ clock \in Nat /\ holes \subseteq 0..(clock - 1)
        /\ AllOk(bursts, clock) /\ AllOk(open, clock)
        /\ Apart(bursts) /\ Apart(open) /\ Cross(bursts, open)
        /\ Covered(bursts) \cup Covered(open) = strong
        /\ OutsideHoles(bursts) /\ AfterHoles(open) /\ Live \subseteq open
    BY DEF BurstsInv, Live
  <1>3. PiecesFit(P, X)
    <2>1. PiecesFit(Pieces(tile), X)
      BY <1>2, PiecesOk
    <2> HIDE DEF X
    <2> QED BY <1>2, <2>1, SweptFit
  <1>4. SharedOut(P, X) /\ LiveFit(P)
    BY <1>3, TileShared, LiveFits
  <1>5. /\ \A A \in {R, Q, G, N} : AllOk(A, upto) /\ Apart(A) /\ AfterHoles(A)
        /\ Cross(R, Q) /\ Cross(R, G) /\ Cross(R, N) /\ Cross(Q, G) /\ Cross(Q, N) /\ Cross(G, N)
        /\ Covered(R) \cup Covered(Q) \cup Covered(G) \cup Covered(N) = Covered(Live) \cup X
    BY <1>4 DEF SharedOut
  <1>6. \A c \in P : PieceOk(c)
    BY <1>3 DEF PiecesFit
  <1>7. UNION {c.burst.cells : c \in P} = X
    BY <1>3 DEF PiecesFit
  <1> HIDE DEF P, X, R, Q, G, N
  <1>8. N \ M = {b \in N : ~b.limited} /\ M \subseteq N
    OBVIOUS
  <1>9. kept = Q \cup G \cup (N \ M)
    BY <1>8
  <1> HIDE DEF M, kept
  <1>10. J \subseteq kept
    OBVIOUS
  <1> HIDE DEF J
  <1>11. clock \in Nat /\ upto \in Nat /\ clock <= upto
    BY <1>2, BurstAssumption
  \* What ended before the tile meets neither the live tracks nor the tile.
  <1>12. AllOk(O, clock) /\ AllOk(O, upto)
    <2>1. AllOk(O, clock)
      BY <1>2 DEF AllOk
    <2> QED BY <1>11, <2>1, BurstLater DEF AllOk
  <1>13. Apart(O) /\ Cross(O, Live)
    BY <1>2 DEF Apart, Cross
  <1>14. OutsideHoles(O)
    BY <1>2 DEF OutsideHoles, AfterHoles
  <1>15. ASSUME NEW x \in O, NEW z \in x.cells PROVE z \notin Covered(Live) \cup X
    <2>1. z \notin Covered(Live)
      BY <1>13, <1>15 DEF Cross, Covered
    <2>2. ASSUME z \in X PROVE FALSE
      <3>1. PICK c \in P : z \in c.burst.cells
        BY <1>7, <2>2
      <3>2. BurstOk(x, clock) /\ PieceOk(c)
        BY <1>6, <1>12 DEF AllOk
      <3>3. x.cells \cap c.burst.cells = {}
        BY <1>11, <3>2, EarlierApart
      <3> QED BY <1>15, <3>1, <3>3
    <2> QED BY <2>1, <2>2
  <1>16. \A A \in {R, Q, G, N} : Cross(O, A)
    <2>1. ASSUME NEW A \in {R, Q, G, N}, NEW x \in O, NEW y \in A PROVE x.cells \cap y.cells = {}
      <3>1. y.cells \subseteq Covered(A)
        BY DEF Covered
      <3>2. Covered(A) \subseteq Covered(Live) \cup X
        BY <1>5
      <3> QED BY <1>15, <3>1, <3>2
    <2> QED BY <2>1 DEF Cross
  <1> HIDE DEF upto
  <1> DEFINE B == O \cup {Ambiguous(t) : t \in R} \cup M \cup {Limited(t) : t \in J}
             K == (Q \cup G \cup (N \ M)) \ J
  <1>17. bursts' = B /\ open' = K
    BY <1>1, <1>9
  <1>18. Covered(O) \cup Covered(Live) = strong
    <2>1. Covered(O) \cup Covered(Live) = Covered(bursts) \cup Covered(open)
      BY <1>2 DEF Covered
    <2> QED BY <1>2, <2>1
  <1> HIDE DEF O
  <1>19. \A A \in {R, Q, G, N} : AllOk(A, upto) /\ Apart(A) /\ AfterHoles(A) /\ Cross(O, A)
    BY <1>5, <1>16
  <1>20. J \subseteq Q \cup G \cup (N \ M)
    BY <1>9, <1>10
  <1>21. B = ClosedBursts(O, R, M, J) /\ Separate(upto, O, R, Q, G, N)
    BY <1>5, <1>12, <1>13, <1>14, <1>19 DEF ClosedBursts, Separate
  <1>22. K = (Q \cup G \cup (N \ M)) \ J
    OBVIOUS
  <1> HIDE DEF B, K
  <1>23. M \subseteq N
    BY <1>8
  <1>24. /\ AllOk(B, upto) /\ AllOk(K, upto) /\ Apart(B) /\ Apart(K) /\ Cross(B, K)
         /\ Covered(B) \cup Covered(K)
              = Covered(O) \cup Covered(R) \cup Covered(Q) \cup Covered(G) \cup Covered(N)
         /\ OutsideHoles(B) /\ AfterHoles(K)
    <2>1. SettleFrom(upto, O, R, Q, G, N, M, J, B, K)
      BY <1>23, <1>20, <1>21, <1>22 DEF SettleFrom
    <2>2. SettleTo(upto, O, R, Q, G, N, M, J, B, K)
      BY <2>1, Settled
    <2> QED BY <2>2 DEF SettleTo
  <1>25. Covered(B) \cup Covered(K) = strong'
    BY <1>1, <1>5, <1>18, <1>24
  <1>26. clock' = upto /\ upto \in Nat /\ holes' = holes /\ holes' \subseteq 0..(upto - 1)
    <2>1. holes \subseteq 0..(upto - 1)
      BY <1>2, <1>11
    <2> QED BY <1>1, <1>11, <2>1 DEF upto
  <1>27. AllOk(bursts, clock)' /\ AllOk(open, clock)'
    BY <1>17, <1>24, <1>26 DEF AllOk, BurstOk, BurstShape, Instants
  <1>28. Apart(bursts)' /\ Apart(open)' /\ Cross(bursts, open)'
    BY <1>17, <1>24 DEF Apart, Cross
  <1>29. (Covered(bursts) \cup Covered(open))' = strong'
    BY <1>17, <1>25 DEF Covered
  <1>30. OutsideHoles(bursts)' /\ AfterHoles(open)'
    BY <1>17, <1>24, <1>26 DEF OutsideHoles, AfterHoles
  <1> QED BY <1>26, <1>27, <1>28, <1>29, <1>30 DEF BurstsInv

LEMMA DiscontinuityKeeps ==
  ASSUME BurstsInv, Discontinuity
  PROVE  BurstsInv'
  <1> DEFINE L == {Limited(t) : t \in open}
             upto == clock + 1
             B == bursts \cup L
  <1>1. bursts' = B /\ open' = {} /\ clock' = upto /\ holes' = holes \cup {clock} /\ strong' = strong
    BY DEF Discontinuity
  <1>2. /\ clock \in Nat /\ holes \subseteq 0..(clock - 1)
        /\ AllOk(bursts, clock) /\ AllOk(open, clock)
        /\ Apart(bursts) /\ Apart(open) /\ Cross(bursts, open)
        /\ Covered(bursts) \cup Covered(open) = strong
        /\ OutsideHoles(bursts) /\ AfterHoles(open)
    BY DEF BurstsInv
  <1>3. /\ AllOk(L, clock) /\ Apart(L) /\ Covered(L) = Covered(open)
        /\ \A x \in L : \E t \in open : SameExtent(x, t)
    BY <1>2, LimitedAll
  <1> HIDE DEF L
  <1>4. Cross(open, bursts)
    BY <1>2 DEF Cross
  <1>5. Cross(L, bursts) /\ AfterHoles(L)
    BY <1>2, <1>3, <1>4, CrossSame, AfterSame
  <1>6. Apart(B)
    BY <1>2, <1>3, <1>5, ApartUnion DEF Cross
  <1>7. upto \in Nat /\ clock <= upto
    BY <1>2
  <1>8. AllOk(B, clock) /\ AllOk(B, upto)
    <2>1. AllOk(B, clock)
      BY <1>2, <1>3 DEF AllOk
    <2> QED BY <1>2, <1>7, <2>1, BurstLater DEF AllOk
  <1>9. Covered(B) = strong
    <2>1. Covered(B) = Covered(bursts) \cup Covered(L)
      BY DEF Covered
    <2> QED BY <1>2, <1>3, <2>1
  <1>10. \A b \in B : b.end <= clock /\ b.end \in Nat
    BY <1>8 DEF AllOk, BurstOk, BurstShape
  <1>11. OutsideHoles(B)
    BY <1>2, <1>5 DEF OutsideHoles, AfterHoles
  <1>12. OutsideHoles(bursts)'
    BY <1>1, <1>10, <1>11 DEF OutsideHoles
  <1>13. holes' \subseteq 0..(upto - 1)
    BY <1>1, <1>2
  <1> HIDE DEF B
  <1>14. AllOk(bursts, clock)' /\ AllOk(open, clock)'
    BY <1>1, <1>8 DEF AllOk, BurstOk, BurstShape, Instants
  <1>15. Apart(bursts)' /\ Apart(open)' /\ Cross(bursts, open)' /\ AfterHoles(open)'
    BY <1>1, <1>6 DEF Apart, Cross, AfterHoles
  <1>16. (Covered(bursts) \cup Covered(open))' = strong'
    BY <1>1, <1>9 DEF Covered
  <1> QED BY <1>1, <1>7, <1>12, <1>13, <1>14, <1>15, <1>16 DEF BurstsInv

\* Every strong cell of the spectrum is in exactly one burst, a burst's active
\* time is the number of its distinct frames, inside its envelope, and no burst
\* reaches across unobserved time (BurstGrouper::consume and finish).
THEOREM BurstsAreAccountable == BurstsSpec => []BurstsAccountable
  <1>1. BurstsInit => BurstsInv
    <2> SUFFICES ASSUME BurstsInit PROVE BurstsInv
      OBVIOUS
    <2>1. clock = 0 /\ open = {} /\ bursts = {} /\ strong = {} /\ holes = {}
      BY DEF BurstsInit
    <2> QED BY <2>1 DEF BurstsInv, AllOk, Apart, Cross, Covered, OutsideHoles, AfterHoles
  <1>2. BurstsInv /\ [BurstsNext]_bvars => BurstsInv'
    <2> SUFFICES ASSUME BurstsInv, [BurstsNext]_bvars PROVE BurstsInv'
      OBVIOUS
    <2>1. ASSUME NEW tile \in Tiles, Consume(tile) PROVE BurstsInv'
      BY <2>1, ConsumeKeeps
    <2>2. CASE Discontinuity
      BY <2>2, DiscontinuityKeeps
    <2>3. CASE UNCHANGED bvars
      <3>1. /\ clock' = clock /\ open' = open /\ bursts' = bursts /\ strong' = strong
            /\ holes' = holes
        BY <2>3 DEF bvars
      <3> QED BY <3>1 DEF BurstsInv, AllOk, BurstOk, BurstShape, Instants, Apart, Cross, Covered,
                          OutsideHoles, AfterHoles
    <2> QED BY <2>1, <2>2, <2>3 DEF BurstsNext
  <1>3. BurstsInv => BurstsAccountable
    <2> SUFFICES ASSUME BurstsInv PROVE BurstsAccountable
      OBVIOUS
    <2> DEFINE A == bursts \cup open
    <2>1. /\ AllOk(bursts, clock) /\ AllOk(open, clock)
          /\ Apart(bursts) /\ Apart(open) /\ Cross(bursts, open)
          /\ Covered(bursts) \cup Covered(open) = strong
          /\ OutsideHoles(bursts) /\ AfterHoles(open)
      BY DEF BurstsInv
    <2>2. UNION {b.cells : b \in A} = strong
      BY <2>1 DEF Covered
    <2>3. Apart(A)
      BY <2>1, ApartUnion
    <2>4. ASSUME NEW b \in A
          PROVE  /\ b.active = Cardinality({c[1] : c \in b.cells})
                 /\ b.cells \subseteq (b.start..(b.end - 1)) \X (b.low..b.high)
      BY <2>1 DEF AllOk, BurstOk, Instants
    <2>5. \A b \in A : \A h \in holes : b.end <= h \/ b.start > h
      BY <2>1 DEF OutsideHoles, AfterHoles
    <2> QED BY <2>2, <2>3, <2>4, <2>5 DEF BurstsAccountable, Apart
  <1> QED BY <1>1, <1>2, <1>3, PTL DEF BurstsSpec

=============================================================================
