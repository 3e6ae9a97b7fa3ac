----------------------- MODULE FirmwareUpdate_proofs -----------------------
(***************************************************************************)
(* Proofs about the update of the firmware, for any number of client       *)
(* threads, of chunks and of versions.                                     *)
(***************************************************************************)
EXTENDS FirmwareUpdate, TLAPS

Excused == "clash" \in odd \/ errors > 0

(* At most one update is under way, and none while the boot loader runs.   *)
BusyInv ==
    /\ stage # "dead"
    /\ stage # "up" => Busy = {}
    /\ \A t \in Busy : Busy = {t}

(* The boot table names a complete image, and the thread that has set it   *)
(* waits for the reboot.                                                   *)
TableInv ==
    /\ table.set => table.length = NumChunks /\ Complete(temp)
    /\ stage = "up" /\ table.set => \E t \in Thread : pc[t] = "reboot"
    /\ stage \in {"copy", "clear"} => table.set
    /\ stage = "wipe" => ~table.set

(* Where the application is complete, and how far it has been copied.      *)
AppInv ==
    /\ stage \in {"up", "clear", "wipe"} => Complete(app)
    /\ stage = "loader" /\ ~table.set => Complete(app)
    /\ stage = "copy" => \A i \in Chunk : i < pos => app[i] = temp[i]

(* What each thread knows of OTA_TEMP and of the size.                     *)
Knows(t) ==
    /\ pc[t] = "chunks" =>
         \E v \in Nat : /\ file[t] = Image(v)
                        /\ \A i \in Chunk : temp[i] = IF i < at[t] THEN v ELSE Blank
    /\ pc[t] = "record" => temp = Image(offer)
    /\ pc[t] = "answer" => size = 0 \/ (size = NumChunks /\ Complete(temp))
    /\ pc[t] = "arm" => Complete(temp) /\ (t \in Client => size = NumChunks)

ThreadInv == \A t \in Thread : Knows(t)

BootInv == ~Excused => BusyInv /\ TableInv /\ AppInv /\ ThreadInv

(* Where the version recorded in the settings is.                          *)
Recorded ==
    /\ \A l \in Lan : pc[l] # "reboot"
    /\ \A c \in Client :
          /\ pc[c] = "answer" => IF size = 0 THEN app = Image(rom) ELSE temp = Image(rom)
          /\ pc[c] = "arm" => temp = Image(rom)
          /\ pc[c] = "reboot" => table.set /\ temp = Image(rom)
    /\ stage = "up" /\ (\A c \in Client : pc[c] \notin {"answer", "arm", "reboot"})
          => app = Image(rom)
    /\ stage = "loader" => IF table.set THEN temp = Image(rom) ELSE app = Image(rom)
    /\ stage \in {"copy", "clear"} => temp = Image(rom)
    /\ stage \in {"clear", "wipe"} => app = Image(rom)

RecordInv == odd = {} /\ errors = 0 => Recorded

Control == {"idle", "erase", "chunks", "verify", "record", "answer", "arm", "reboot"}
Table   == [set : BOOLEAN, length : 0 .. NumChunks, crc : Content]

-----------------------------------------------------------------------------
(* Lemmas on images and on the control of the threads.                     *)

LEMMA Constants ==
    /\ NumChunks \in Nat \ {0}
    /\ 1 \in Chunk /\ NumChunks \in Chunk
    /\ Blank \notin Nat /\ Torn \notin Nat /\ Blank # Torn
    /\ 0 \in 0 .. NumChunks /\ NumChunks \in 0 .. NumChunks
  BY FirmwareAssumption DEF Chunk

LEMMA ImageType ==
    ASSUME NEW v \in Data
    PROVE  Image(v) \in Content /\ \A i \in Chunk : Image(v)[i] = v
  BY DEF Image, Content

(* The image of a version is complete.                                     *)
LEMMA ImageComplete ==
    ASSUME NEW v \in Nat PROVE Complete(Image(v))
  BY Constants DEF Image, Complete

(* What is filled up to the last chunk with one version is its image.      *)
LEMMA Filled ==
    ASSUME NEW c \in Content, NEW d \in Content, \A i \in Chunk : c[i] = d[i]
    PROVE  c = d
  BY DEF Content

LEMMA TableType ==
    ASSUME NEW b \in BOOLEAN, NEW n \in 0 .. NumChunks, NEW c \in Content
    PROVE  [set |-> b, length |-> n, crc |-> c] \in Table
  BY DEF Table

LEMMA NoTableType == NoTable \in Table /\ ~NoTable.set
  BY Constants, ImageType DEF NoTable, Table, Empty, Data

LEMMA GotoType ==
    ASSUME pc \in [Thread -> Control], NEW t \in Thread, NEW l \in Control, Goto(t, l)
    PROVE  /\ pc' \in [Thread -> Control]
           /\ pc'[t] = l /\ \A p \in Thread : p # t => pc'[p] = pc[p]
           /\ Busy' = IF l = "idle" THEN Busy \ {t} ELSE Busy \cup {t}
  BY DEF Goto, Busy

-----------------------------------------------------------------------------
(* The types.                                                              *)

LEMMA TypeInit == Init => TypeOK
  <1> SUFFICES ASSUME Init PROVE TypeOK
    OBVIOUS
  <1>1. Image(0) \in Content /\ Empty \in Content
    BY ImageType DEF Data, Empty
  <1>2. [t \in Thread |-> "idle"] \in [Thread -> Control]
    BY DEF Control
  <1> QED
    BY <1>1, <1>2, Constants, NoTableType
       DEF Init, TypeOK, Table, Control, Thread

(* One lemma for the part of the state that each step of a thread changes. *)
LEMMA ProgramType ==
    ASSUME NEW i, temp \in Content, NEW v \in Data,
           temp' = [temp EXCEPT ![i] = Program(@, v)]
    PROVE  temp' \in Content
  BY DEF Program, Content, Data

LEMMA BeginType ==
    ASSUME TypeOK, NEW t \in Thread, Begin(t)
    PROVE  requests' \in Nat /\ odd' \subseteq {"clash", "parted"}
  BY DEF Begin, TypeOK

LEMMA ClientType ==
    ASSUME TypeOK, NEW c \in Client,
           \/ Ask(c) \/ AskFails(c) \/ DownloadBegins(c) \/ DownloadChunk(c) \/ DownloadFails(c)
           \/ Verify(c) \/ Record(c) \/ Answer(c) \/ AnswerFails(c) \/ Arm(c)
    PROVE  TypeOK'
  <1>1. c \in Thread /\ pc \in [Thread -> Control] /\ at \in [Thread -> Chunk]
        /\ file \in [Thread -> Content] /\ temp \in Content /\ table \in Table
    BY DEF TypeOK, Thread, Control, Table
  <1>2. CASE Ask(c)
    <2>1. \E l \in Control : Goto(c, l)
      BY <1>2 DEF Ask, Control
    <2>2. pc' \in [Thread -> Control] /\ size' \in 0 .. NumChunks
      BY <1>1, <1>2, <2>1, GotoType, Constants DEF Ask, TypeOK
    <2>3. requests' \in Nat /\ odd' \subseteq {"clash", "parted"}
      BY <1>1, <1>2, BeginType DEF Ask
    <2> QED
      BY <1>2, <2>2, <2>3 DEF Ask, TypeOK, Control
  <1>3. CASE AskFails(c)
    BY <1>1, <1>3, BeginType DEF AskFails, TypeOK, cloud, thread
  <1>4. CASE DownloadBegins(c)
    <2>1. pc' \in [Thread -> Control]
      BY <1>1, <1>4, GotoType DEF DownloadBegins, Control
    <2>2. Image(offer) \in Content /\ Empty \in Content
      BY ImageType DEF TypeOK, Data, Empty
    <2>3. file' \in [Thread -> Content] /\ at' \in [Thread -> Chunk]
      BY <1>1, <1>4, <2>2, Constants DEF DownloadBegins
    <2> QED
      BY <1>4, <2>1, <2>2, <2>3 DEF DownloadBegins, TypeOK, Control, cloud, history
  <1>5. CASE DownloadChunk(c)
    <2>1. at[c] \in Chunk /\ file[c] \in Content
      BY <1>1
    <2>2. file[c][at[c]] \in Data
      BY <2>1 DEF Content
    <2>3. temp' \in Content
      BY <1>1, <1>5, <2>2, ProgramType DEF DownloadChunk
    <2>4. at' \in [Thread -> Chunk]
      <3>1. at[c] < NumChunks => at[c] + 1 \in Chunk
        BY <2>1, Constants DEF Chunk
      <3> QED
        BY <1>1, <1>5, <3>1 DEF DownloadChunk
    <2>5. pc' \in [Thread -> Control]
      BY <1>1, <1>5, GotoType DEF DownloadChunk, Control
    <2> QED
      BY <1>5, <2>3, <2>4, <2>5 DEF DownloadChunk, TypeOK, Control, cloud, history
  <1>6. CASE DownloadFails(c) \/ Verify(c) \/ Record(c) \/ Answer(c) \/ AnswerFails(c)
    <2>1. \E l \in Control : Goto(c, l)
      BY <1>6 DEF DownloadFails, Verify, Record, Answer, AnswerFails, Control
    <2>2. pc' \in [Thread -> Control]
      BY <1>1, <2>1, GotoType
    <2>3. odd' \subseteq {"clash", "parted"} /\ UNCHANGED <<requests, restarts, errors>>
      BY <1>6 DEF DownloadFails, Verify, Record, Answer, AnswerFails, TypeOK, history
    <2> QED
      BY <1>6, <2>2, <2>3, Constants
         DEF DownloadFails, Verify, Record, Answer, AnswerFails, TypeOK, Control, cloud
  <1>7. CASE Arm(c)
    <2>1. pc' \in [Thread -> Control]
      BY <1>1, <1>7, GotoType DEF Arm, Control
    <2>2. table' \in Table
      BY <1>7, TableType DEF Arm, TypeOK
    <2> QED
      BY <1>7, <2>1, <2>2 DEF Arm, TypeOK, Control, Table, cloud, history
  <1> QED
    BY <1>2, <1>3, <1>4, <1>5, <1>6, <1>7

LEMMA LanType ==
    ASSUME TypeOK, NEW l \in Lan,
           \/ UploadBegins(l) \/ UploadChunk(l) \/ UploadChunkError(l)
           \/ UploadFails(l) \/ ArmUpload(l)
    PROVE  TypeOK'
  <1>1. l \in Thread /\ pc \in [Thread -> Control] /\ at \in [Thread -> Chunk]
        /\ file \in [Thread -> Content] /\ temp \in Content /\ table \in Table
    BY DEF TypeOK, Thread, Control, Table
  <1>2. CASE UploadBegins(l)
    <2>1. pc' \in [Thread -> Control]
      BY <1>1, <1>2, GotoType DEF UploadBegins, Control
    <2>2. requests' \in Nat /\ odd' \subseteq {"clash", "parted"}
      BY <1>1, <1>2, BeginType DEF UploadBegins
    <2>3. Empty \in Content
      BY ImageType DEF Data, Empty
    <2>4. PICK v \in 0 .. MaxVersion : file' = [file EXCEPT ![l] = Image(v)]
      BY <1>2 DEF UploadBegins
    <2>5. Image(v) \in Content
      BY FirmwareAssumption, ImageType DEF Data
    <2>6. file' \in [Thread -> Content] /\ at' \in [Thread -> Chunk]
      BY <1>1, <1>2, <2>4, <2>5, Constants DEF UploadBegins
    <2> QED
      BY <1>2, <2>1, <2>2, <2>3, <2>6 DEF UploadBegins, TypeOK, Control, cloud
  <1>3. CASE UploadChunk(l) \/ UploadChunkError(l)
    <2>1. at[l] \in Chunk /\ file[l] \in Content
      BY <1>1
    <2>2. file[l][at[l]] \in Data
      BY <2>1 DEF Content
    <2>3. temp' \in Content
      <3>1. CASE UploadChunk(l)
        BY <1>1, <2>2, <3>1, ProgramType DEF UploadChunk
      <3>2. CASE UploadChunkError(l)
        BY <1>1, <3>2 DEF UploadChunkError, Content, Data
      <3> QED
        BY <1>3, <3>1, <3>2
    <2>4. at' \in [Thread -> Chunk]
      <3>1. at[l] < NumChunks => at[l] + 1 \in Chunk
        BY <2>1, Constants DEF Chunk
      <3> QED
        BY <1>1, <1>3, <3>1 DEF UploadChunk, UploadChunkError
    <2>5. pc' \in [Thread -> Control]
      BY <1>1, <1>3, GotoType DEF UploadChunk, UploadChunkError, Control
    <2>6. file' \in [Thread -> Content]
      <3>1. [file[l] EXCEPT ![at[l]] = Blank] \in Content
        BY <2>1 DEF Content, Data
      <3>2. file' = file \/ file' = [file EXCEPT ![l] = [file[l] EXCEPT ![at[l]] = Blank]]
        BY <1>1, <1>3 DEF UploadChunk, UploadChunkError
      <3> QED
        BY <1>1, <3>1, <3>2
    <2>7. CASE UploadChunk(l)
      BY <2>3, <2>4, <2>5, <2>6, <2>7 DEF UploadChunk, TypeOK, Control, cloud, history
    <2>8. CASE UploadChunkError(l)
      BY <2>3, <2>4, <2>5, <2>6, <2>8 DEF UploadChunkError, TypeOK, Control, cloud
    <2> QED
      BY <1>3, <2>7, <2>8
  <1>4. CASE UploadFails(l)
    <2>1. pc' \in [Thread -> Control]
      BY <1>1, <1>4, GotoType DEF UploadFails, Control
    <2> QED
      BY <1>4, <2>1 DEF UploadFails, TypeOK, Control, cloud, history
  <1>5. CASE ArmUpload(l)
    <2>1. pc' \in [Thread -> Control]
      BY <1>1, <1>5, GotoType DEF ArmUpload, Control
    <2>2. table' \in Table
      BY <1>1, <1>5, TableType, Constants DEF ArmUpload
    <2> QED
      BY <1>5, <2>1, <2>2 DEF ArmUpload, TypeOK, Control, Table, cloud, history
  <1> QED
    BY <1>2, <1>3, <1>4, <1>5

LEMMA RestartType ==
    ASSUME TypeOK, Reboot \/ PowerFail PROVE TypeOK'
  <1>1. Restart
    BY DEF Reboot, PowerFail
  <1>2. Empty \in Content /\ Default \in Nat
    BY ImageType DEF Data, Empty, Default
  <1>3. pc' \in [Thread -> Control]
    BY <1>1 DEF Restart, Control
  <1>4. table \in Table /\ file \in [Thread -> Content]
    BY DEF TypeOK, Table
  <1>5. rom' \in Nat /\ table' \in Table
    <2>1. ASSUME SaveCut(rom', table') PROVE rom' \in Nat /\ table' \in Table
      <3>1. \A l \in Lan : file[l] \in Content
        BY <1>4 DEF Thread
      <3>2. rom' \in Nat
        BY <1>2, <2>1 DEF SaveCut, TypeOK
      <3>3. \/ table' \in {table, NoTable}
            \/ table' = [set |-> TRUE, length |-> size, crc |-> otaCrc]
            \/ \E l \in Lan : table' = [set |-> TRUE, length |-> NumChunks, crc |-> file[l]]
        BY <2>1 DEF SaveCut
      <3>4. [set |-> TRUE, length |-> size, crc |-> otaCrc] \in Table
        BY TableType DEF TypeOK
      <3>5. \A l \in Lan : [set |-> TRUE, length |-> NumChunks, crc |-> file[l]] \in Table
        BY <3>1, TableType, Constants
      <3> QED
        BY <1>4, <3>2, <3>3, <3>4, <3>5, NoTableType
    <2>2. rom \in Nat
      BY DEF TypeOK
    <2>3. \/ UNCHANGED <<rom, table>>
          \/ SaveCut(rom', table')
          \/ rom' \in {rom, Default} /\ table' = NoTable
      BY DEF Reboot, PowerFail
    <2> QED
      BY <1>2, <1>4, <2>1, <2>2, <2>3, NoTableType
  <1>6. restarts' \in Nat /\ odd' \subseteq {"clash", "parted"}
    <2>1. odd' = odd \/ odd' = odd \cup {"parted"}
      BY DEF Reboot, PowerFail
    <2>2. restarts' = restarts \/ restarts' = restarts + 1
      BY DEF Reboot, PowerFail
    <2>3. odd \subseteq {"clash", "parted"} /\ restarts \in Nat
      BY DEF TypeOK
    <2>4. odd' \subseteq {"clash", "parted"}
      BY <2>1, <2>3
    <2>5. restarts' \in Nat
      BY <2>2, <2>3
    <2> QED
      BY <2>4, <2>5
  <1>7. /\ errors' = errors /\ requests' = requests
        /\ otaCrc' \in Content /\ size' \in 0 .. NumChunks
        /\ lock' = {} /\ stage' = "loader" /\ offer' = 0
        /\ UNCHANGED <<latest, app, temp, at, file, pos>>
    BY <1>1, <1>2, Constants DEF Restart
  <1> QED
    BY <1>3, <1>5, <1>6, <1>7 DEF TypeOK, Control, Table

LEMMA LoaderType ==
    ASSUME TypeOK, Loader \/ LoaderError PROVE TypeOK'
  <1>1. Empty \in Content /\ 1 \in Chunk
    BY ImageType, Constants DEF Data, Empty
  <1>2. table \in Table
    BY DEF TypeOK, Table
  <1>3. CASE LoaderWipes \/ LoaderErases \/ LoaderEnds
    BY <1>1, <1>3 DEF LoaderWipes, LoaderErases, LoaderEnds, Started, TypeOK, cloud, thread,
                      history
  <1>4. CASE LoaderCopies
    <2>1. temp[pos] \in Data
      BY DEF TypeOK, Content
    <2>2. app' \in Content
      BY <1>4, <2>1 DEF LoaderCopies, TypeOK, Content
    <2>3. pos' \in Chunk
      BY <1>2, <1>4, Constants DEF LoaderCopies, TypeOK, Chunk
    <2> QED
      BY <1>4, <2>2, <2>3 DEF LoaderCopies, TypeOK, cloud, thread, history
  <1>5. CASE LoaderClears
    BY <1>5, NoTableType DEF LoaderClears, TypeOK, Table, cloud, thread, history
  <1>6. CASE LoaderError
    <2>1. temp' \in Content /\ app' \in Content /\ table' \in Table
      BY <1>1, <1>2, <1>6, NoTableType DEF LoaderError, TypeOK
    <2> QED
      BY <1>6, <2>1 DEF LoaderError, TypeOK, Table, cloud, thread
  <1> QED
    BY <1>3, <1>4, <1>5, <1>6 DEF Loader

LEMMA TypeStep == TypeOK /\ [Next]_vars => TypeOK'
  <1> SUFFICES ASSUME TypeOK, [Next]_vars PROVE TypeOK'
    OBVIOUS
  <1>1. CASE Publish
    BY <1>1 DEF Publish, TypeOK, thread, history
  <1>2. CASE UNCHANGED vars
    BY <1>2 DEF vars, TypeOK, cloud, thread, history
  <1> QED
    BY <1>1, <1>2, ClientType, LanType, RestartType, LoaderType DEF Next

(* The variables keep their types: no upload or copy runs past the end.    *)
THEOREM TypeCorrect == Spec => []TypeOK
  BY TypeInit, TypeStep, PTL DEF Spec

-----------------------------------------------------------------------------
(* One update at a time.                                                   *)

(* What excuses a bad end stays in the history.                            *)
LEMMA ExcusedStays ==
    ASSUME TypeOK, [Next]_vars, ~Excused'
    PROVE  /\ ~Excused /\ (errors' = 0 => errors = 0)
           /\ odd \subseteq odd' \/ \E c \in Client : Record(c)
  <1>1. /\ errors' = errors \/ errors' = errors + 1
        /\ odd \ {"parted"} \subseteq odd'
        /\ odd \subseteq odd' \/ \E c \in Client : Record(c)
    <2>1. CASE UNCHANGED history
      BY <2>1 DEF history
    <2>2. CASE \E t \in Thread : Begin(t) /\ errors' = errors
      BY <2>2 DEF Begin
    <2>3. CASE \E l \in Lan : UploadChunkError(l)
      BY <2>3 DEF UploadChunkError
    <2>4. CASE Reboot \/ PowerFail
      BY <2>4 DEF Reboot, PowerFail, Restart
    <2>5. CASE LoaderError
      BY <2>5 DEF LoaderError
    <2>6. CASE UNCHANGED vars
      BY <2>6 DEF vars, history
    <2>7. ASSUME NEW c \in Client, Record(c) \/ AnswerFails(c) PROVE <1>1!:
      BY <2>7 DEF Record, AnswerFails
    <2>8. ASSUME NEW l \in Lan, ArmUpload(l) PROVE <1>1!:
      BY <2>8 DEF ArmUpload
    <2> QED
      BY <2>1, <2>2, <2>3, <2>4, <2>5, <2>6, <2>7, <2>8
         DEF Next, Publish, Ask, AskFails, DownloadBegins, DownloadChunk, DownloadFails,
             Verify, Answer, Arm, UploadBegins, UploadChunk, UploadFails,
             Loader, LoaderWipes, LoaderErases, LoaderCopies, LoaderClears, LoaderEnds, Thread
  <1> QED
    BY <1>1 DEF Excused, TypeOK

(* An update begins when no other is under way.                            *)
LEMMA BeginsAlone ==
    ASSUME TypeOK, NEW t \in Thread, Begin(t), "clash" \notin odd'
    PROVE  stage = "up" /\ (\A p \in Thread : pc[p] = "idle") /\ "clash" \notin odd
  BY DEF Begin, Busy

(* A thread that is busy is alone, and the application runs.               *)
LEMMA Alone ==
    ASSUME BusyInv, NEW t \in Thread, pc[t] # "idle"
    PROVE  stage = "up" /\ \A p \in Thread : p # t => pc[p] = "idle"
  <1>1. t \in Busy
    BY DEF Busy
  <1> QED
    BY <1>1 DEF BusyInv, Busy

(* The steps of a thread that leave the boot table alone.                  *)
LEMMA Ordinary ==
    ASSUME TypeOK, TableInv, AppInv, NEW t \in Thread, NEW l \in Control, Goto(t, l),
           stage = "up", pc[t] # "reboot", \A p \in Thread : p # t => pc[p] = "idle",
           stage' = stage, app' = app, table' = table
    PROVE  BusyInv' /\ TableInv' /\ AppInv' /\ (Knows(t)' => ThreadInv')
  <1>1. pc'[t] = l /\ \A p \in Thread : p # t => pc'[p] = "idle"
    BY GotoType DEF TypeOK, Control
  <1>2. BusyInv'
    BY <1>1 DEF BusyInv, Busy
  <1>3. ~table.set
    BY DEF TableInv
  <1>4. TableInv'
    BY <1>3 DEF TableInv
  <1>5. AppInv'
    BY DEF AppInv, Complete
  <1>6. \A p \in Thread : p # t => Knows(p)'
    BY <1>1 DEF Knows
  <1> QED
    BY <1>2, <1>4, <1>5, <1>6 DEF ThreadInv
(* A thread with the boot table to set sets it.                            *)
LEMMA Arms ==
    ASSUME TypeOK, BusyInv, AppInv, NEW t \in Thread, pc[t] = "arm", Goto(t, "reboot"),
           Complete(temp), table'.set, table'.length = NumChunks,
           UNCHANGED <<app, temp, stage>>
    PROVE  BusyInv' /\ TableInv' /\ AppInv' /\ ThreadInv'
  <1>1. stage = "up" /\ \A p \in Thread : p # t => pc[p] = "idle"
    BY Alone
  <1>2. pc'[t] = "reboot" /\ \A p \in Thread : p # t => pc'[p] = "idle"
    BY <1>1, GotoType DEF TypeOK, Control
  <1>3. BusyInv'
    BY <1>1, <1>2 DEF BusyInv, Busy
  <1>4. TableInv' /\ AppInv'
    BY <1>1, <1>2 DEF TableInv, AppInv, Complete
  <1>5. ThreadInv'
    BY <1>2 DEF ThreadInv, Knows
  <1> QED
    BY <1>3, <1>4, <1>5

(* A chunk is written to where OTA_TEMP is blank.                          *)
LEMMA ChunkWritten ==
    ASSUME TypeOK, NEW t \in Thread, Knows(t), pc[t] = "chunks",
           temp' = [temp EXCEPT ![at[t]] = Program(@, file[t][at[t]])],
           file' = file,
           \/ at[t] < NumChunks /\ at' = [at EXCEPT ![t] = @ + 1] /\ pc' = pc
           \/ at[t] >= NumChunks /\ pc'[t] \in {"verify", "arm"}
    PROVE  /\ pc'[t] = "chunks" => Knows(t)'
           /\ pc'[t] # "chunks" => Complete(temp')
  <1>1. PICK v \in Nat : /\ file[t] = Image(v)
                         /\ \A i \in Chunk : temp[i] = IF i < at[t] THEN v ELSE Blank
    BY DEF Knows
  <1>2. at[t] \in Chunk /\ temp \in Content
    BY DEF TypeOK
  <1>3. file[t][at[t]] = v /\ temp[at[t]] = Blank
    BY <1>1, <1>2, ImageType DEF Chunk, Data
  <1>4. temp' = [temp EXCEPT ![at[t]] = v]
    BY <1>2, <1>3 DEF Program, Content
  <1>5. \A i \in Chunk : temp'[i] = IF i < at[t] + 1 THEN v ELSE Blank
    BY <1>1, <1>2, <1>4 DEF Content, Chunk
  <1>6. CASE at[t] < NumChunks /\ at' = [at EXCEPT ![t] = @ + 1] /\ pc' = pc
    <2>1. at'[t] = at[t] + 1 /\ file'[t] = Image(v)
      BY <1>1, <1>6 DEF TypeOK
    <2> QED
      BY <1>5, <1>6, <2>1 DEF Knows
  <1>7. CASE at[t] >= NumChunks /\ pc'[t] \in {"verify", "arm"}
    <2>1. \A i \in Chunk : temp'[i] = Image(v)[i]
      BY <1>2, <1>5, <1>7, ImageType, Constants DEF Chunk, Data
    <2>2. temp' \in Content /\ Image(v) \in Content
      BY <1>2, <1>4, ImageType DEF Content, Data
    <2>3. temp' = Image(v)
      BY <2>1, <2>2, Filled
    <2> QED
      BY <1>7, <2>3, ImageComplete
  <1> QED
    BY <1>6, <1>7

(* Each step of a client's thread ...                                      *)
LEMMA ClientBoot ==
    ASSUME TypeOK, BusyInv, TableInv, AppInv, ThreadInv, NEW c \in Client, "clash" \notin odd',
           \/ Ask(c) \/ AskFails(c) \/ DownloadBegins(c) \/ DownloadChunk(c) \/ DownloadFails(c)
           \/ Verify(c) \/ Record(c) \/ Answer(c) \/ AnswerFails(c) \/ Arm(c)
    PROVE  BusyInv' /\ TableInv' /\ AppInv' /\ ThreadInv'
  <1>1. c \in Thread /\ c \notin Lan /\ Knows(c)
    BY FirmwareAssumption DEF Thread, ThreadInv
  <1>2. pc \in [Thread -> Control]
    BY DEF TypeOK, Control
  <1>3. CASE Ask(c)
    <2>1. stage = "up" /\ \A p \in Thread : pc[p] = "idle"
      BY <1>1, <1>3, BeginsAlone DEF Ask
    <2>2. PICK l \in Control : Goto(c, l) /\ l \in {"answer", "erase"} /\ (l = "answer" => size' = 0)
      BY <1>3 DEF Ask, Control
    <2>3. BusyInv' /\ TableInv' /\ AppInv' /\ (Knows(c)' => ThreadInv')
      BY <1>1, <1>3, <2>1, <2>2, Ordinary DEF Ask
    <2>4. pc'[c] = l
      BY <1>1, <1>2, <2>2, GotoType
    <2> QED
      BY <2>2, <2>3, <2>4 DEF Knows
  <1>4. CASE AskFails(c)
    <2>1. BusyInv' /\ TableInv' /\ AppInv'
      BY <1>4 DEF AskFails, BusyInv, Busy, TableInv, AppInv, Complete, thread
    <2>2. ThreadInv'
      BY <1>4 DEF AskFails, ThreadInv, Knows, Complete, thread, cloud
    <2> QED
      BY <2>1, <2>2
  <1>5. CASE \/ DownloadBegins(c) \/ DownloadChunk(c) \/ DownloadFails(c)
             \/ Verify(c) \/ Record(c) \/ Answer(c) \/ AnswerFails(c)
    <2>1. /\ pc[c] # "idle" /\ pc[c] # "reboot" /\ \E l \in Control : Goto(c, l)
          /\ stage' = stage /\ app' = app /\ table' = table
      <3>1. pc' = pc => Goto(c, pc[c])
        BY <1>1, <1>2 DEF Goto
      <3>2. pc[c] \in Control
        BY <1>1, <1>2
      <3> QED
        BY <1>5, <3>1, <3>2 DEF DownloadBegins, DownloadChunk, DownloadFails, Verify, Record,
                      Answer, AnswerFails, Control
    <2>2. BusyInv' /\ TableInv' /\ AppInv' /\ (Knows(c)' => ThreadInv')
      BY <1>1, <2>1, Alone, Ordinary
    <2>3. Knows(c)'
      <3>1. CASE DownloadBegins(c)
        <4>1. pc'[c] = "chunks" /\ at'[c] = 1 /\ file'[c] = Image(offer) /\ temp' = Empty
          BY <1>1, <1>2, <3>1, GotoType DEF DownloadBegins, Control, TypeOK
        <4>2. \A i \in Chunk : temp'[i] = IF i < 1 THEN offer ELSE Blank
          BY <4>1, Constants DEF Empty, Image, Chunk
        <4> QED
          BY <4>1, <4>2 DEF Knows, TypeOK
      <3>2. CASE DownloadChunk(c)
        BY <1>1, <1>2, <3>2, ChunkWritten, GotoType DEF DownloadChunk, Control, Knows
      <3>3. CASE DownloadFails(c) \/ Verify(c) \/ AnswerFails(c)
        <4>1. pc'[c] \in {"idle", "record"} /\ (pc'[c] = "record" => temp' = Image(offer'))
          BY <1>1, <1>2, <3>3, GotoType DEF DownloadFails, Verify, AnswerFails, Control, cloud
        <4> QED
          BY <4>1 DEF Knows
      <3>4. CASE Record(c)
        <4>1. pc'[c] = "answer" /\ size' = NumChunks /\ temp' = Image(offer)
          BY <1>1, <1>2, <3>4, GotoType DEF Record, Control, Knows
        <4> QED
          BY <4>1, ImageComplete DEF Knows, TypeOK
      <3>5. CASE Answer(c)
        <4>1. /\ pc'[c] = (IF size = 0 THEN "idle" ELSE "arm")
              /\ temp' = temp /\ size' = size
          BY <1>1, <1>2, <3>5, GotoType DEF Answer, Control
        <4>2. size = 0 \/ (size = NumChunks /\ Complete(temp))
          BY <1>1, <3>5 DEF Answer, Knows
        <4> QED
          BY <4>1, <4>2 DEF Knows, Complete
      <3> QED
        BY <1>5, <3>1, <3>2, <3>3, <3>4, <3>5
    <2> QED
      BY <2>2, <2>3
  <1>6. CASE Arm(c)
    BY <1>1, <1>6, Arms DEF Arm, Knows
  <1> QED
    BY <1>3, <1>4, <1>5, <1>6
(* ... of an upload ...                                                    *)
LEMMA LanBoot ==
    ASSUME TypeOK, BusyInv, TableInv, AppInv, ThreadInv, NEW l \in Lan, "clash" \notin odd',
           UploadBegins(l) \/ UploadChunk(l) \/ UploadFails(l) \/ ArmUpload(l)
    PROVE  BusyInv' /\ TableInv' /\ AppInv' /\ ThreadInv'
  <1>1. l \in Thread /\ l \notin Client /\ Knows(l)
    BY FirmwareAssumption DEF Thread, ThreadInv
  <1>2. pc \in [Thread -> Control]
    BY DEF TypeOK, Control
  <1>3. CASE UploadBegins(l)
    <2>1. stage = "up" /\ \A p \in Thread : pc[p] = "idle"
      BY <1>1, <1>3, BeginsAlone DEF UploadBegins
    <2>2. BusyInv' /\ TableInv' /\ AppInv' /\ (Knows(l)' => ThreadInv')
      BY <1>1, <1>3, <2>1, Ordinary DEF UploadBegins, Control
    <2>3. PICK v \in 0 .. MaxVersion : file' = [file EXCEPT ![l] = Image(v)]
      BY <1>3 DEF UploadBegins
    <2>4. v \in Nat
      BY FirmwareAssumption
    <2>5. pc'[l] = "chunks" /\ at'[l] = 1 /\ file'[l] = Image(v) /\ temp' = Empty
      BY <1>1, <1>2, <1>3, <2>3, GotoType DEF UploadBegins, Control, TypeOK
    <2>6. \A i \in Chunk : temp'[i] = IF i < 1 THEN v ELSE Blank
      BY <2>5, Constants DEF Empty, Image, Chunk
    <2> QED
      BY <2>2, <2>4, <2>5, <2>6 DEF Knows
  <1>4. CASE UploadChunk(l)
    <2>1. pc' = pc => Goto(l, pc[l])
      BY <1>1, <1>2 DEF Goto
    <2>2. /\ pc[l] = "chunks" /\ \E m \in Control : Goto(l, m)
          /\ stage' = stage /\ app' = app /\ table' = table
      BY <1>4, <2>1 DEF UploadChunk, Control
    <2>3. BusyInv' /\ TableInv' /\ AppInv' /\ (Knows(l)' => ThreadInv')
      BY <1>1, <2>2, Alone, Ordinary
    <2>4. Knows(l)'
      <3>1. pc'[l] \in {"chunks", "arm"}
        BY <1>1, <1>2, <1>4, GotoType DEF UploadChunk, Control
      <3>2. at[l] \in Nat /\ NumChunks \in Nat
        BY <1>1, Constants DEF TypeOK, Chunk
      <3>3. /\ pc'[l] = "chunks" => Knows(l)'
            /\ pc'[l] # "chunks" => Complete(temp')
        <4>1. \/ at[l] < NumChunks /\ at' = [at EXCEPT ![l] = @ + 1] /\ pc' = pc
              \/ at[l] >= NumChunks /\ pc'[l] \in {"verify", "arm"}
          BY <1>1, <1>2, <1>4, <3>2, GotoType DEF UploadChunk, Control
        <4> QED
          BY <1>1, <1>4, <4>1, ChunkWritten DEF UploadChunk
      <3>4. pc'[l] = "arm" => Knows(l)'
        BY <1>1, <3>3 DEF Knows, Complete
      <3> QED
        BY <3>1, <3>3, <3>4
    <2> QED
      BY <2>3, <2>4
  <1>5. CASE UploadFails(l)
    <2>1. pc'[l] = "idle"
      BY <1>1, <1>2, <1>5, GotoType DEF UploadFails, Control
    <2>2. BusyInv' /\ TableInv' /\ AppInv' /\ (Knows(l)' => ThreadInv')
      BY <1>1, <1>5, Alone, Ordinary DEF UploadFails, Control
    <2> QED
      BY <2>1, <2>2 DEF Knows
  <1>6. CASE ArmUpload(l)
    BY <1>1, <1>6, Arms DEF ArmUpload, Knows
  <1> QED
    BY <1>3, <1>4, <1>5, <1>6

(* ... of a reboot and of a power failure, which leave the loader either   *)
(* a complete application or a boot table with a complete image ...        *)
LEMMA RestartBoot ==
    ASSUME TypeOK, BusyInv, TableInv, AppInv, ThreadInv, Reboot \/ PowerFail
    PROVE  BusyInv' /\ TableInv' /\ AppInv' /\ ThreadInv'
  <1>1. Restart
    BY DEF Reboot, PowerFail
  <1>2. \A t \in Thread : pc'[t] = "idle"
    BY <1>1 DEF Restart
  <1>3. /\ table'.set => table'.length = NumChunks /\ Complete(temp)
        /\ ~table'.set => Complete(app)
    <2>1. CASE table' = table
      BY <2>1 DEF TableInv, AppInv, BusyInv, TypeOK
    <2>2. CASE stage = "up" /\ SaveCut(rom', table')
      <3>1. Complete(app)
        BY <2>2 DEF AppInv
      <3>2. \/ table' \in {table, NoTable}
            \/ \E c \in Client : /\ pc[c] = "arm"
                                 /\ table' = [set |-> TRUE, length |-> size, crc |-> otaCrc]
            \/ \E l \in Lan : /\ pc[l] = "arm"
                              /\ table' = [set |-> TRUE, length |-> NumChunks, crc |-> file[l]]
        BY <2>2 DEF SaveCut
      <3>3. \A t \in Thread : pc[t] = "arm" =>
                Complete(temp) /\ (t \in Client => size = NumChunks)
        BY DEF ThreadInv, Knows
      <3> QED
        BY <3>1, <3>2, <3>3, NoTableType DEF TableInv, Thread
    <2>3. CASE stage = "clear" /\ table' = NoTable
      BY <2>3, NoTableType DEF AppInv
    <2> QED
      BY <2>1, <2>2, <2>3 DEF Reboot, PowerFail
  <1>4. stage' = "loader" /\ app' = app /\ temp' = temp
    BY <1>1 DEF Restart
  <1>5. BusyInv'
    BY <1>2, <1>4 DEF BusyInv, Busy
  <1>6. TableInv' /\ AppInv'
    BY <1>3, <1>4 DEF TableInv, AppInv, Complete
  <1>7. ThreadInv'
    BY <1>2 DEF ThreadInv, Knows
  <1> QED
    BY <1>5, <1>6, <1>7

(* ... and of the boot loader.                                             *)
LEMMA LoaderBoot ==
    ASSUME TypeOK, BusyInv, TableInv, AppInv, ThreadInv, Loader
    PROVE  BusyInv' /\ TableInv' /\ AppInv' /\ ThreadInv'
  <1>1. stage # "up" /\ pc' = pc
    BY DEF Loader, LoaderWipes, LoaderErases, LoaderCopies, LoaderClears, LoaderEnds, thread
  <1>2. \A t \in Thread : pc[t] = "idle"
    BY <1>1 DEF BusyInv, Busy
  <1>3. ThreadInv'
    BY <1>1, <1>2 DEF ThreadInv, Knows
  <1>4. table.length \in 0 .. NumChunks /\ table.set \in BOOLEAN
    BY DEF TypeOK
  <1>5. stage' # "dead" => BusyInv'
    BY <1>1, <1>2 DEF BusyInv, Busy
  <1>6. CASE LoaderWipes
    <2>1. ~table.set
      BY <1>4, <1>6 DEF LoaderWipes, NeedUpdate, CheckCrc
    <2>2. stage' = "up" /\ Complete(app')
      BY <1>6, <2>1 DEF LoaderWipes, Started, AppInv
    <2> QED
      BY <1>3, <1>5, <1>6, <2>1, <2>2 DEF LoaderWipes, TableInv, AppInv
  <1>7. CASE LoaderErases
    <2>1. table.set /\ table.length = NumChunks /\ Complete(temp)
      BY <1>7 DEF LoaderErases, NeedUpdate, TableInv
    <2>2. stage' = "copy" /\ pos' = 1
      BY <1>7, <2>1, Constants DEF LoaderErases
    <2>3. AppInv'
      BY <2>2 DEF AppInv, Chunk
    <2>4. TableInv'
      BY <1>7, <2>1, <2>2 DEF LoaderErases, TableInv, Complete
    <2> QED
      BY <1>3, <1>5, <2>2, <2>3, <2>4
  <1>8. CASE LoaderCopies
    <2>1. table.set /\ table.length = NumChunks /\ Complete(temp)
      BY <1>8 DEF LoaderCopies, TableInv
    <2>2. pos \in Chunk /\ app \in Content /\ temp \in Content /\ app' \in Content
      BY LoaderType DEF TypeOK
    <2>3. \A i \in Chunk : i < pos + 1 => app'[i] = temp[i]
      BY <1>8, <2>2 DEF LoaderCopies, AppInv, Content, Chunk
    <2>4. temp' = temp /\ table' = table
      BY <1>8 DEF LoaderCopies
    <2>5. CASE pos < NumChunks
      <3>1. stage' = "copy" /\ pos' = pos + 1
        BY <1>8, <2>1, <2>5 DEF LoaderCopies
      <3> QED
        BY <1>3, <1>5, <2>1, <2>3, <2>4, <3>1 DEF TableInv, AppInv, Complete
    <2>6. CASE ~(pos < NumChunks)
      <3>1. stage' = "clear"
        BY <1>8, <2>1, <2>6 DEF LoaderCopies
      <3>2. \A i \in Chunk : app'[i] = temp[i]
        BY <2>2, <2>3, <2>6, Constants DEF Chunk
      <3>3. app' = temp
        BY <2>2, <3>2, Filled
      <3> QED
        BY <1>3, <1>5, <2>1, <2>4, <3>1, <3>3 DEF TableInv, AppInv, Complete
    <2> QED
      BY <2>5, <2>6
  <1>9. CASE LoaderClears
    BY <1>3, <1>5, <1>9, NoTableType DEF LoaderClears, TableInv, AppInv, Complete
  <1>10. CASE LoaderEnds
    <2>1. stage' = "up" /\ ~table.set /\ Complete(app)
      BY <1>10 DEF LoaderEnds, TableInv, AppInv, Started
    <2> QED
      BY <1>3, <1>5, <1>10, <2>1 DEF LoaderEnds, TableInv, AppInv, Complete
  <1> QED
    BY <1>6, <1>7, <1>8, <1>9, <1>10 DEF Loader

LEMMA BootInit == Init => BootInv
  <1> SUFFICES ASSUME Init PROVE BootInv
    OBVIOUS
  <1>1. \A t \in Thread : pc[t] = "idle"
    BY DEF Init
  <1>2. stage = "up" /\ ~table.set /\ Complete(app)
    BY NoTableType, ImageComplete DEF Init
  <1>3. BusyInv
    BY <1>1, <1>2 DEF BusyInv, Busy
  <1>4. TableInv /\ AppInv
    BY <1>2 DEF TableInv, AppInv
  <1>5. ThreadInv
    BY <1>1 DEF ThreadInv, Knows
  <1> QED
    BY <1>3, <1>4, <1>5 DEF BootInv

LEMMA BootStep == TypeOK /\ BootInv /\ [Next]_vars => BootInv'
  <1> SUFFICES ASSUME TypeOK, BootInv, [Next]_vars, ~Excused'
               PROVE  BusyInv' /\ TableInv' /\ AppInv' /\ ThreadInv'
    BY DEF BootInv
  <1>1. BusyInv /\ TableInv /\ AppInv /\ ThreadInv
    BY ExcusedStays DEF BootInv
  <1>2. "clash" \notin odd' /\ ~(errors' > 0)
    BY DEF Excused
  <1>3. CASE UNCHANGED vars \/ Publish
    <2>1. UNCHANGED <<app, temp, table, size, pc, at, file, stage, pos, offer>>
      BY <1>3 DEF vars, cloud, thread, Publish
    <2>2. BusyInv' /\ TableInv'
      BY <1>1, <2>1 DEF BusyInv, Busy, TableInv, Complete
    <2>3. AppInv' /\ ThreadInv'
      BY <1>1, <2>1 DEF AppInv, ThreadInv, Knows, Complete
    <2> QED
      BY <2>2, <2>3
  <1>4. ASSUME LoaderError \/ \E l \in Lan : UploadChunkError(l) PROVE FALSE
    BY <1>2, <1>4 DEF LoaderError, UploadChunkError, TypeOK
  <1> QED
    BY <1>1, <1>2, <1>3, <1>4, ClientBoot, LanBoot, RestartBoot, LoaderBoot DEF Next

(* NeverDead: wherever the power fails in a download, an upload, a save or *)
(* the copy of the boot loader, the device ends with a complete firmware,  *)
(* unless updates overlapped or an operation failed                        *)
(* (Update_for_OTA.c:191-238).                                             *)
THEOREM NeverDeadHolds == Spec => []NeverDead
  <1>1. BootInv => NeverDead
    BY DEF BootInv, BusyInv, Excused, NeverDead
  <1> QED
    BY <1>1, TypeInit, TypeStep, BootInit, BootStep, PTL DEF Spec
-----------------------------------------------------------------------------
(* The recorded version.                                                   *)

LEMMA RecordInit == Init => RecordInv
  <1> SUFFICES ASSUME Init PROVE RecordInv
    OBVIOUS
  <1>1. \A t \in Thread : pc[t] = "idle"
    BY DEF Init
  <1>2. stage = "up" /\ app = Image(rom)
    BY DEF Init
  <1> QED
    BY <1>1, <1>2 DEF RecordInv, Recorded, Thread

(* A client's thread may part version and firmware; when it records the    *)
(* next version, they are together again.                                  *)
LEMMA ClientRecord ==
    ASSUME TypeOK, BusyInv, TableInv, AppInv, ThreadInv,
           NEW c \in Client, odd' = {}, Recorded \/ Record(c),
           \/ Ask(c) \/ AskFails(c) \/ DownloadBegins(c) \/ DownloadChunk(c) \/ DownloadFails(c)
           \/ Verify(c) \/ Record(c) \/ Answer(c) \/ AnswerFails(c) \/ Arm(c)
    PROVE  Recorded'
  <1>1. c \in Thread /\ c \notin Lan /\ Knows(c)
    BY FirmwareAssumption DEF Thread, ThreadInv
  <1>2. pc \in [Thread -> Control] /\ \A p \in Client : p \in Thread
    BY DEF TypeOK, Control, Thread
  <1>0. pc[c] # "record" => Recorded
    BY DEF Record
  <1>3. CASE AskFails(c)
    <2>1. Recorded
      BY <1>0, <1>3 DEF AskFails, Begin
    <2> QED
      BY <1>3, <2>1 DEF AskFails, Recorded, thread
  <1>4. ASSUME ~AskFails(c)
        PROVE  \E l \in Control : Goto(c, l)
    <2>1. pc' = pc => Goto(c, pc[c])
      BY <1>1, <1>2 DEF Goto
    <2>2. pc[c] \in Control
      BY <1>1, <1>2
    <2> QED
      BY <1>4, <2>1, <2>2 DEF Ask, DownloadBegins, DownloadChunk, DownloadFails, Verify,
                              Record, Answer, AnswerFails, Arm, Control
  <1>5. ASSUME ~AskFails(c)
        PROVE  /\ stage = "up" /\ stage' = "up" /\ app' = app
               /\ \A p \in Thread : p # c => pc[p] = "idle"
               /\ \A p \in Thread : p # c => pc'[p] = "idle"
    <2>1. stage = "up" /\ \A p \in Thread : p # c => pc[p] = "idle"
      <3>1. CASE Ask(c)
        BY <1>1, <3>1, BeginsAlone DEF Ask
      <3>2. CASE ~Ask(c)
        BY <1>1, <1>5, <3>2, Alone DEF DownloadBegins, DownloadChunk, DownloadFails, Verify,
                                 Record, Answer, AnswerFails, Arm
      <3> QED
        BY <3>1, <3>2
    <2>2. stage' = stage /\ app' = app
      BY <1>5 DEF Ask, DownloadBegins, DownloadChunk, DownloadFails, Verify,
                  Record, Answer, AnswerFails, Arm
    <2> QED
      BY <1>1, <1>2, <1>4, <1>5, <2>1, <2>2, GotoType
  (* It remains to see what the thread itself does.                        *)
  <1>6. ASSUME ~AskFails(c),
               pc'[c] = "answer" => IF size' = 0 THEN app' = Image(rom') ELSE temp' = Image(rom'),
               pc'[c] = "arm" => temp' = Image(rom'),
               pc'[c] = "reboot" => table'.set /\ temp' = Image(rom'),
               pc'[c] \notin {"answer", "arm", "reboot"} => app' = Image(rom')
        PROVE  Recorded'
    <2>1. \A l \in Lan : pc'[l] # "reboot"
      BY <1>1, <1>5, <1>6 DEF Thread
    <2>2. \A p \in Client : p # c => pc'[p] = "idle"
      BY <1>2, <1>5, <1>6
    <2>3. stage' = "up"
      BY <1>5, <1>6
    <2> QED
      BY <1>6, <2>1, <2>2, <2>3 DEF Recorded
  <1>7. CASE Ask(c)
    <2>1. stage = "up" /\ \A p \in Thread : pc[p] = "idle"
      BY <1>1, <1>7, BeginsAlone DEF Ask
    <2>2. app = Image(rom)
      BY <1>0, <1>1, <1>2, <2>1 DEF Recorded
    <2>3. /\ pc'[c] \in {"answer", "erase"} /\ (pc'[c] = "answer" => size' = 0)
          /\ app' = app /\ rom' = rom
      BY <1>1, <1>2, <1>7, GotoType DEF Ask, Control
    <2> QED
      BY <1>3, <1>6, <2>2, <2>3
  <1>8. CASE DownloadBegins(c) \/ DownloadChunk(c) \/ DownloadFails(c) \/ Verify(c)
    <2>1. /\ pc[c] \notin {"answer", "arm", "reboot", "record"}
          /\ pc'[c] \notin {"answer", "arm", "reboot"}
          /\ app' = app /\ rom' = rom
      BY <1>1, <1>2, <1>8, GotoType
         DEF DownloadBegins, DownloadChunk, DownloadFails, Verify, Control
    <2>2. CASE ~AskFails(c)
      <3>1. app = Image(rom)
        BY <1>0, <1>2, <1>5, <2>1, <2>2 DEF Recorded
      <3> QED
        BY <1>6, <2>1, <2>2, <3>1
    <2> QED
      BY <1>3, <2>2
  <1>9. CASE Record(c)
    <2>1. /\ pc'[c] = "answer" /\ size' # 0 /\ rom' = offer
          /\ temp' = Image(offer)
      BY <1>1, <1>2, <1>9, GotoType, Constants DEF Record, Control, Knows
    <2> QED
      BY <1>3, <1>6, <2>1
  <1>10. CASE Answer(c)
    <2>1. /\ pc'[c] = (IF size = 0 THEN "idle" ELSE "arm") /\ pc[c] = "answer"
          /\ app' = app /\ rom' = rom /\ temp' = temp
      BY <1>1, <1>2, <1>10, GotoType DEF Answer, Control
    <2>2. IF size = 0 THEN app = Image(rom) ELSE temp = Image(rom)
      BY <1>0, <2>1 DEF Recorded
    <2> QED
      BY <1>3, <1>6, <2>1, <2>2
  <1>12. CASE AnswerFails(c)
    <2>1. /\ pc'[c] = "idle" /\ pc[c] = "answer" /\ size = 0
          /\ app' = app /\ rom' = rom
      BY <1>1, <1>2, <1>12, GotoType DEF AnswerFails, Control
    <2>2. app = Image(rom)
      BY <1>0, <2>1 DEF Recorded
    <2> QED
      BY <1>3, <1>6, <2>1, <2>2
  <1>11. CASE Arm(c)
    <2>1. /\ pc'[c] = "reboot" /\ pc[c] = "arm" /\ table'.set
          /\ rom' = rom /\ temp' = temp
      BY <1>1, <1>2, <1>11, GotoType DEF Arm, Control
    <2>2. temp = Image(rom)
      BY <1>0, <2>1 DEF Recorded
    <2> QED
      BY <1>3, <1>6, <2>1, <2>2
  <1> QED
    BY <1>3, <1>7, <1>8, <1>9, <1>10, <1>11, <1>12

(* An upload breaks off, or is installed and parts them.                   *)
LEMMA LanRecord ==
    ASSUME TypeOK, BusyInv, Recorded, NEW l \in Lan, odd' = {},
           UploadBegins(l) \/ UploadChunk(l) \/ UploadFails(l) \/ ArmUpload(l)
    PROVE  Recorded'
  <1>1. l \in Thread /\ l \notin Client /\ pc \in [Thread -> Control]
    BY FirmwareAssumption DEF TypeOK, Control, Thread
  <1>2. ~ArmUpload(l)
    BY DEF ArmUpload
  <1>3. stage = "up" /\ \A p \in Thread : p # l => pc[p] = "idle"
    <2>1. CASE UploadBegins(l)
      BY <1>1, <2>1, BeginsAlone DEF UploadBegins
    <2>2. CASE UploadChunk(l) \/ UploadFails(l)
      BY <1>1, <2>2, Alone DEF UploadChunk, UploadFails
    <2> QED
      BY <1>2, <2>1, <2>2
  <1>4. /\ UNCHANGED <<app, rom, stage>>
        /\ \/ pc' = pc /\ pc[l] = "chunks"
           \/ \E k \in {"chunks", "arm", "idle"} : Goto(l, k)
    BY <1>2 DEF UploadBegins, UploadChunk, UploadFails
  <1>5. pc'[l] # "reboot" /\ \A p \in Thread : p # l => pc'[p] = "idle"
    BY <1>1, <1>3, <1>4 DEF Goto
  <1>6. \A p \in Client : p \in Thread /\ p # l /\ pc[p] = "idle" /\ pc'[p] = "idle"
    BY <1>1, <1>3, <1>5 DEF Thread
  <1>7. app = Image(rom)
    BY <1>3, <1>6 DEF Recorded
  <1> QED
    BY <1>3, <1>4, <1>5, <1>6, <1>7 DEF Recorded, Thread

(* Power failures outside the windows that Parts names lose nothing.       *)
LEMMA RestartRecord ==
    ASSUME TypeOK, BusyInv, TableInv, Recorded, odd' = {}, Reboot \/ PowerFail
    PROVE  Recorded'
  <1>1. Restart
    BY DEF Reboot, PowerFail
  <1>2. \A t \in Thread : pc'[t] = "idle"
    BY <1>1 DEF Restart
  <1>3. stage' = "loader" /\ app' = app /\ temp' = temp
    BY <1>1 DEF Restart
  <1>4. rom' = rom /\ IF table'.set THEN temp = Image(rom) ELSE app = Image(rom)
    <2>1. CASE Reboot
      <3>1. PICK t \in Thread : pc[t] = "reboot"
        BY <2>1 DEF Reboot
      <3> QED
        BY <2>1, <3>1 DEF Reboot, Recorded, Thread
    <2>2. CASE PowerFail
      <3>1. /\ rom' = rom /\ ~(Recording /\ ~table'.set)
            /\ table'.set => \A l \in Lan : pc[l] # "arm"
        BY <2>2 DEF PowerFail, Parts
      <3>2. ASSUME table'.set PROVE temp = Image(rom)
        <4>1. table' = table \/ (stage = "up" /\ \E c \in Client : pc[c] = "arm")
          BY <2>2, <3>1, <3>2, NoTableType DEF PowerFail, SaveCut
        <4>2. CASE stage = "up" /\ \E c \in Client : pc[c] = "arm"
          BY <4>2 DEF Recorded
        <4>3. CASE stage = "up" /\ table' = table
          <5>1. PICK t \in Thread : pc[t] = "reboot"
            BY <3>2, <4>3 DEF TableInv
          <5> QED
            BY <5>1 DEF Recorded, Thread
        <4>4. CASE stage # "up" /\ table' = table
          BY <3>2, <4>4 DEF TableInv, BusyInv, Recorded, TypeOK
        <4> QED
          BY <4>1, <4>2, <4>3, <4>4
      <3>3. ASSUME ~table'.set PROVE app = Image(rom)
        <4>1. ~Recording
          BY <3>1, <3>3
        <4>2. CASE stage = "up"
          BY <4>1, <4>2 DEF Recording, Recorded
        <4>3. CASE stage # "up"
          <5>1. table' = table \/ stage = "clear"
            BY <2>2, <4>3 DEF PowerFail
          <5> QED
            BY <3>3, <4>3, <5>1 DEF TableInv, BusyInv, Recorded, TypeOK
        <4> QED
          BY <4>2, <4>3
      <3> QED
        BY <3>1, <3>2, <3>3
    <2> QED
      BY <2>1, <2>2
  <1> QED
    BY <1>2, <1>3, <1>4 DEF Recorded, Thread

LEMMA LoaderRecord ==
    ASSUME TypeOK, BusyInv, TableInv, AppInv, Recorded, Loader
    PROVE  Recorded'
  <1>1. stage # "up" /\ pc' = pc
    BY DEF Loader, LoaderWipes, LoaderErases, LoaderCopies, LoaderClears, LoaderEnds, thread
  <1>2. \A t \in Thread : pc[t] = "idle" /\ pc'[t] = "idle"
    BY <1>1 DEF BusyInv, Busy
  <1>3. (\A l \in Lan : pc'[l] = "idle") /\ (\A c \in Client : pc'[c] = "idle")
    BY <1>2 DEF Thread
  <1>4. table.length \in 0 .. NumChunks
    BY DEF TypeOK
  <1>5. rom' = rom
    BY DEF Loader, LoaderWipes, LoaderErases, LoaderCopies, LoaderClears, LoaderEnds
  <1>6. CASE LoaderWipes
    <2>1. ~table.set
      BY <1>4, <1>6 DEF LoaderWipes, NeedUpdate, CheckCrc
    <2>2. stage' \in {"up", "dead"} /\ app = Image(rom) /\ app' = app
      BY <1>6, <2>1 DEF LoaderWipes, Started, Recorded
    <2> QED
      BY <1>3, <1>5, <2>2 DEF Recorded
  <1>7. CASE LoaderErases
    <2>1. table.set /\ table.length = NumChunks
      BY <1>7 DEF LoaderErases, NeedUpdate, TableInv
    <2>2. stage' = "copy" /\ temp = Image(rom) /\ temp' = temp
      BY <1>7, <2>1, Constants DEF LoaderErases, Recorded
    <2> QED
      BY <1>3, <1>5, <2>2 DEF Recorded
  <1>8. CASE LoaderCopies
    <2>1. table.set /\ table.length = NumChunks
      BY <1>8 DEF LoaderCopies, TableInv
    <2>2. pos \in Chunk /\ app \in Content /\ temp \in Content /\ app' \in Content
      BY LoaderType DEF TypeOK
    <2>3. \A i \in Chunk : i < pos + 1 => app'[i] = temp[i]
      BY <1>8, <2>2 DEF LoaderCopies, AppInv, Content, Chunk
    <2>4. temp' = temp /\ temp = Image(rom) /\ stage' \in {"copy", "clear"}
      BY <1>8 DEF LoaderCopies, Recorded
    <2>5. stage' = "clear" => app' = temp
      <3>1. stage' = "clear" => pos >= NumChunks
        BY <1>8, <2>1, <2>2, Constants DEF LoaderCopies, Chunk
      <3>2. stage' = "clear" => \A i \in Chunk : app'[i] = temp[i]
        BY <2>2, <2>3, <3>1, Constants DEF Chunk
      <3> QED
        BY <2>2, <3>2, Filled
    <2> QED
      BY <1>3, <1>5, <2>4, <2>5 DEF Recorded
  <1>9. CASE LoaderClears \/ LoaderEnds
    <2>1. stage' \in {"wipe", "up", "dead"} /\ app = Image(rom) /\ app' = app
      BY <1>9 DEF LoaderClears, LoaderEnds, Started, Recorded
    <2> QED
      BY <1>3, <1>5, <2>1 DEF Recorded
  <1> QED
    BY <1>6, <1>7, <1>8, <1>9 DEF Loader

LEMMA RecordStep == TypeOK /\ BootInv /\ RecordInv /\ [Next]_vars => RecordInv'
  <1> SUFFICES ASSUME TypeOK, BootInv, RecordInv, [Next]_vars, odd' = {}, errors' = 0
               PROVE  Recorded'
    BY DEF RecordInv
  <1>1. ~Excused' /\ ~Excused /\ errors = 0 /\ (odd = {} \/ \E c \in Client : Record(c))
    <2>1. ~Excused'
      BY DEF Excused
    <2> QED
      BY <2>1, ExcusedStays
  <1>2. BusyInv /\ TableInv /\ AppInv /\ ThreadInv
        /\ (Recorded \/ \E c \in Client : Record(c))
    BY <1>1 DEF BootInv, RecordInv
  <1>3. CASE \E c \in Client : Record(c)
    BY <1>2, <1>3, ClientRecord
  <1>4. CASE Recorded
    <2>1. CASE UNCHANGED vars \/ Publish
      <3>1. UNCHANGED <<app, temp, rom, table, size, pc, stage>>
        BY <2>1 DEF vars, cloud, thread, Publish
      <3> QED
        BY <1>4, <3>1 DEF Recorded
    <2>2. ~LoaderError /\ \A l \in Lan : ~UploadChunkError(l)
      BY <1>1 DEF LoaderError, UploadChunkError
    <2> QED
      BY <1>2, <1>4, <2>1, <2>2, ClientRecord, LanRecord, RestartRecord, LoaderRecord
         DEF Next
  <1> QED
    BY <1>2, <1>3, <1>4

(* RecordedIsInstalled: a version that fogCloudDevFirmwareUpdate saved is  *)
(* the one that runs or will be installed, wherever the power fails but in *)
(* the windows that Parts names, until a reply without memory, one of      *)
(* these windows or an upload parts the two; the next update recorded      *)
(* brings them together (fogCloud.c:408-416,                               *)
(* MicoFogCloudConfigServer.c:367-393).                                    *)
THEOREM RecordedIsInstalledHolds == Spec => []RecordedIsInstalled
  <1>1. RecordInv => RecordedIsInstalled
    BY DEF RecordInv, Recorded, RecordedIsInstalled
  <1> QED
    BY <1>1, TypeInit, TypeStep, BootInit, BootStep, RecordInit, RecordStep, PTL DEF Spec
-----------------------------------------------------------------------------
(* The firmware slot.                                                      *)

(* What the boot loader has not copied yet is blank, so a half copied      *)
(* application is never taken for a complete one.                          *)
UncopiedInv ==
    ~Excused => (stage = "copy" => \A i \in Chunk : i >= pos => app[i] = Blank)

LEMMA UncopiedInit == Init => UncopiedInv
  BY DEF Init, UncopiedInv

LEMMA UncopiedStep == TypeOK /\ UncopiedInv /\ [Next]_vars => UncopiedInv'
  <1> SUFFICES ASSUME TypeOK, UncopiedInv, [Next]_vars, ~Excused', stage' = "copy"
               PROVE  \A i \in Chunk : i >= pos' => app'[i] = Blank
    BY DEF UncopiedInv
  <1>1. stage = "copy" => \A i \in Chunk : i >= pos => app[i] = Blank
    BY ExcusedStays DEF UncopiedInv
  <1>2. pos \in Chunk /\ app \in Content
    BY DEF TypeOK
  <1>3. CASE LoaderErases
    BY <1>3 DEF LoaderErases, Empty, Image
  <1>4. CASE LoaderCopies
    <2>1. pos' = pos + 1 /\ app' = [app EXCEPT ![pos] = temp[pos]] /\ stage = "copy"
      BY <1>4 DEF LoaderCopies
    <2> QED
      BY <1>1, <1>2, <2>1 DEF Content, Chunk
  <1>5. CASE ~LoaderErases /\ ~LoaderCopies
    <2>1. ~LoaderError /\ ~Reboot /\ ~PowerFail
      BY DEF LoaderError, Reboot, PowerFail, Restart
    <2>2. UNCHANGED <<app, stage, pos>>
      BY <1>5, <2>1
         DEF Next, vars, Publish, Ask, AskFails, DownloadBegins, DownloadChunk, DownloadFails,
             Verify, Record, Answer, AnswerFails, Arm, UploadBegins, UploadChunk,
             UploadChunkError,
             UploadFails, ArmUpload, Loader, LoaderWipes, LoaderClears, LoaderEnds, Started
    <2> QED
      BY <1>1, <2>2
  <1> QED
    BY <1>3, <1>4, <1>5

(* The first chunk of a complete image is a version.                       *)
LEMMA VersionOf ==
    ASSUME NEW c \in Content, Complete(c) PROVE c[1] \in Nat
  BY Constants DEF Complete, Content, Data

(* While the application is complete and not touched, and no table is set  *)
(* before or after, OTA_TEMP may change as it likes.                       *)
LEMMA SlotFree ==
    ASSUME Complete(app), app' = app, ~table.set, ~table'.set
    PROVE  UNCHANGED <<Installed, Due>>
  BY DEF Installed, Due, Complete

LEMMA SlotKept ==
    ASSUME UNCHANGED <<app, temp, table>>
    PROVE  UNCHANGED <<Installed, Due>>
  BY DEF Installed, Due, Complete

(* A boot table that is set over a complete image arms it.                 *)
LEMMA SlotArmed ==
    ASSUME TypeOK, ~table.set, Complete(temp), UNCHANGED <<app, temp>>
    PROVE  UNCHANGED <<Installed, Due>> \/ FS!Arm
  <1>1. Installed' = Installed /\ Due = Blank
    BY DEF Installed, Due, Complete
  <1>2. Due' \in Nat \/ Due' = Blank
    BY VersionOf DEF Due, TypeOK
  <1> QED
    BY <1>1, <1>2 DEF FS!Arm

(* A boot table that is lost is an update that is given up.                *)
LEMMA SlotLost ==
    ASSUME ~table'.set, UNCHANGED <<app, temp>>
    PROVE  FS!GiveUp
  BY DEF FS!GiveUp, Installed, Due, Complete

(* A thread that is about to set the boot table finds it not set.          *)
LEMMA NotYetSet ==
    ASSUME BusyInv, TableInv, NEW t \in Thread, pc[t] \notin {"idle", "reboot"}
    PROVE  ~table.set /\ stage = "up"
  BY Alone DEF TableInv

(* What a power failure or a reboot does ...                               *)
LEMMA RestartSlot ==
    ASSUME TypeOK, BusyInv, TableInv, ThreadInv, Reboot \/ PowerFail
    PROVE  UNCHANGED <<Installed, Due>> \/ FS!Arm \/ FS!GiveUp
  <1>1. UNCHANGED <<app, temp>>
    BY DEF Reboot, PowerFail, Restart
  <1>2. \/ table' \in {table, NoTable}
        \/ \E t \in Thread : pc[t] = "arm"
    <2>1. ASSUME SaveCut(rom', table')
          PROVE  table' \in {table, NoTable} \/ \E t \in Thread : pc[t] = "arm"
      BY <2>1 DEF SaveCut, Thread
    <2> QED
      BY <2>1 DEF Reboot, PowerFail
  <1>3. CASE table' = table
    BY <1>1, <1>3, SlotKept
  <1>4. CASE table' = NoTable
    BY <1>1, <1>4, SlotLost, NoTableType
  <1>5. CASE \E t \in Thread : pc[t] = "arm"
    <2>1. PICK t \in Thread : pc[t] = "arm"
      BY <1>5
    <2>2. ~table.set /\ Complete(temp)
      BY <2>1, NotYetSet DEF ThreadInv, Knows
    <2> QED
      BY <1>1, <2>2, SlotArmed
  <1> QED
    BY <1>2, <1>3, <1>4, <1>5

(* ... the boot loader, which installs ...                                 *)
LEMMA LoaderSlot ==
    ASSUME TypeOK, TypeOK', BusyInv, TableInv, AppInv, AppInv', UncopiedInv, UncopiedInv',
           ~Excused, ~Excused', Loader
    PROVE  UNCHANGED <<Installed, Due>> \/ FS!GiveUp \/ FS!Install
  <1>1. app \in Content /\ temp \in Content /\ app' \in Content /\ pos \in Chunk
        /\ pos' \in Chunk /\ table.length \in 0 .. NumChunks /\ table.set \in BOOLEAN
    BY DEF TypeOK
  <1>2. CASE LoaderWipes \/ LoaderEnds
    <2>1. ~table.set
      BY <1>1, <1>2 DEF LoaderWipes, LoaderEnds, NeedUpdate, CheckCrc, TableInv
    <2>2. Complete(app) /\ app' = app /\ table' = table
      BY <1>2, <2>1 DEF LoaderWipes, LoaderEnds, AppInv
    <2> QED
      BY <2>1, <2>2, SlotFree
  <1>3. CASE LoaderClears
    BY <1>3, SlotLost, NoTableType DEF LoaderClears
  <1>4. CASE LoaderErases
    <2>1. table.set /\ Complete(temp) /\ UNCHANGED <<temp, table>>
      BY <1>4 DEF LoaderErases, NeedUpdate, TableInv
    <2>2. ~Complete(app')
      BY <1>4, Constants DEF LoaderErases, Complete, Empty, Image
    <2>3. Installed' = temp[1] /\ Due' = Blank
      BY <2>1, <2>2 DEF Installed, Due, Complete
    <2>4. CASE Complete(app) /\ app # temp
      <3>1. Due = temp[1] /\ temp[1] # Blank
        BY <2>1, <2>4 DEF Due, Complete
      <3> QED
        BY <2>3, <3>1 DEF FS!Install
    <2>5. CASE ~(Complete(app) /\ app # temp)
      BY <2>3, <2>5 DEF Installed, Due
    <2> QED
      BY <2>4, <2>5
  <1>5. CASE LoaderCopies
    <2>1. table.set /\ Complete(temp) /\ UNCHANGED <<temp, table>> /\ stage = "copy"
          /\ table.length = NumChunks
      BY <1>5 DEF LoaderCopies, TableInv
    <2>2. ASSUME NEW p \in Chunk, NEW a \in Content, \A i \in Chunk : i >= p => a[i] = Blank
          PROVE  ~Complete(a)
      <3>1. a[NumChunks] = Blank
        BY <2>2, Constants DEF Chunk
      <3> QED
        BY <3>1, Constants DEF Complete, Image
    <2>3. Installed = temp[1] /\ Due = Blank
      BY <1>1, <2>1, <2>2 DEF UncopiedInv, Installed, Due
    <2>4. CASE stage' = "copy"
      <3>1. ~Complete(app')
        BY <1>1, <2>2, <2>4 DEF UncopiedInv
      <3> QED
        BY <2>1, <2>3, <3>1 DEF Installed, Due, Complete
    <2>5. CASE stage' # "copy"
      <3>1. pos >= NumChunks /\ app' = [app EXCEPT ![pos] = temp[pos]]
        BY <1>1, <1>5, <2>1, <2>5, Constants DEF LoaderCopies, Chunk
      <3>2. \A i \in Chunk : app'[i] = temp[i]
        BY <1>1, <2>1, <3>1, Constants DEF AppInv, Content, Chunk
      <3>3. app' = temp'
        BY <1>1, <2>1, <3>2, Filled
      <3>4. Complete(app') /\ app'[1] = temp[1]
        BY <2>1, <3>3 DEF Complete
      <3> QED
        BY <2>3, <3>3, <3>4 DEF Installed, Due, Complete
    <2> QED
      BY <2>4, <2>5
  <1> QED
    BY <1>2, <1>3, <1>4, <1>5 DEF Loader

(* ... and a thread, which works on OTA_TEMP or arms what is there.        *)
LEMMA ThreadSlot ==
    ASSUME TypeOK, BusyInv, TableInv, AppInv, ThreadInv, "clash" \notin odd',
           \/ \E c \in Client :
                 \/ Ask(c) \/ AskFails(c)
                 \/ DownloadBegins(c) \/ DownloadChunk(c) \/ DownloadFails(c)
                 \/ Verify(c) \/ Record(c) \/ Answer(c) \/ AnswerFails(c) \/ Arm(c)
           \/ \E l \in Lan :
                 UploadBegins(l) \/ UploadChunk(l) \/ UploadFails(l) \/ ArmUpload(l)
    PROVE  UNCHANGED <<Installed, Due>> \/ FS!Arm
  <1>1. CASE \E t \in Client :
                \/ Ask(t) \/ AskFails(t) \/ DownloadFails(t) \/ Verify(t) \/ Record(t)
                \/ Answer(t) \/ AnswerFails(t)
    <2>1. UNCHANGED <<app, temp, table>>
      BY <1>1 DEF Ask, AskFails, DownloadFails, Verify, Record, Answer, AnswerFails
    <2> QED
      BY <2>1, SlotKept
  <1>2. CASE \/ \E c \in Client : DownloadBegins(c) \/ DownloadChunk(c)
             \/ \E l \in Lan : UploadBegins(l) \/ UploadChunk(l) \/ UploadFails(l)
    <2>1. UNCHANGED <<app, table>>
      BY <1>2 DEF DownloadBegins, DownloadChunk, UploadBegins, UploadChunk, UploadFails
    <2>2. PICK t \in Thread : \/ pc[t] \notin {"idle", "reboot"}
                              \/ Begin(t)
      BY <1>2 DEF DownloadBegins, DownloadChunk, UploadBegins, UploadChunk, UploadFails, Thread
    <2>3. ~table.set /\ stage = "up"
      BY <2>2, NotYetSet, BeginsAlone DEF TableInv
    <2> QED
      BY <2>1, <2>3, SlotFree DEF AppInv
  <1>3. CASE (\E c \in Client : Arm(c)) \/ (\E l \in Lan : ArmUpload(l))
    <2>1. UNCHANGED <<app, temp>>
      BY <1>3 DEF Arm, ArmUpload
    <2>2. PICK t \in Thread : pc[t] = "arm"
      BY <1>3 DEF Arm, ArmUpload, Thread
    <2>3. ~table.set /\ Complete(temp)
      BY <2>2, NotYetSet DEF ThreadInv, Knows
    <2> QED
      BY <2>1, <2>3, SlotArmed
  <1> QED
    BY <1>1, <1>2, <1>3

LEMMA SlotInit == Init => FS!FSInit
  <1> SUFFICES ASSUME Init PROVE FS!FSInit
    OBVIOUS
  <1>1. Complete(app) /\ app[1] = 0 /\ ~table.set
    BY Constants, ImageComplete, NoTableType DEF Init, Image
  <1>2. Installed \in Nat /\ Due = Blank
    BY <1>1 DEF Installed, Due
  <1>3. ~Excused
    BY DEF Init, Excused
  <1> QED
    BY <1>2, <1>3 DEF FS!FSInit, Excused

SlotInv == TypeOK /\ BootInv /\ UncopiedInv

LEMMA SlotStep == SlotInv /\ SlotInv' /\ [Next]_vars => [FS!FSNext]_(FS!fsvars)
  <1> SUFFICES ASSUME SlotInv, SlotInv', [Next]_vars PROVE [FS!FSNext]_(FS!fsvars)
    OBVIOUS
  <1>1. CASE Excused'
    BY <1>1 DEF FS!FSNext, Excused
  <1>2. CASE ~Excused'
    <2>1. ~Excused /\ "clash" \notin odd' /\ ~(errors' > 0)
      BY <1>2, ExcusedStays DEF Excused, SlotInv
    <2>2. TypeOK /\ BusyInv /\ TableInv /\ AppInv /\ ThreadInv /\ UncopiedInv
      BY <2>1 DEF SlotInv, BootInv
    <2>3. TypeOK' /\ AppInv' /\ UncopiedInv'
      BY <1>2 DEF SlotInv, BootInv
    <2>4. ASSUME LoaderError \/ \E l \in Lan : UploadChunkError(l) PROVE FALSE
      BY <2>1, <2>2, <2>4 DEF LoaderError, UploadChunkError, TypeOK
    <2>5. UNCHANGED <<Installed, Due>> \/ FS!Arm \/ FS!GiveUp \/ FS!Install
      <3>1. CASE Reboot \/ PowerFail
        BY <2>2, <3>1, RestartSlot
      <3>2. CASE Loader
        BY <1>2, <2>1, <2>2, <2>3, <3>2, LoaderSlot
      <3>3. CASE UNCHANGED vars \/ Publish
        BY <3>3, SlotKept DEF vars, Publish
      <3> QED
        BY <2>1, <2>2, <2>4, <3>1, <3>2, <3>3, ThreadSlot DEF Next
    <2>6. ASSUME UNCHANGED <<Installed, Due>> PROVE UNCHANGED (FS!fsvars)
      BY <1>2, <2>1, <2>6 DEF FS!fsvars, Excused
    <2> QED
      BY <2>1, <2>5, <2>6 DEF FS!FSNext, Excused
  <1> QED
    BY <1>1, <1>2

(* SlotSpec: the copy by the boot loader, chunk by chunk and begun again   *)
(* after every power failure, replaces the firmware as a whole by the      *)
(* complete image that OTA_TEMP held when the boot table was set, and      *)
(* nothing else changes the firmware, unless updates overlapped or an      *)
(* operation failed (Update_for_OTA.c:161-250,                             *)
(* MicoFogCloudConfigServer.c:381-393).                                    *)
THEOREM ImplementsFirmwareSlot == Spec => SlotSpec
  <1>1. Init => SlotInv
    BY TypeInit, BootInit, UncopiedInit DEF SlotInv
  <1>2. SlotInv /\ [Next]_vars => SlotInv'
    BY TypeStep, BootStep, UncopiedStep DEF SlotInv
  <1> QED
    BY <1>1, <1>2, SlotInit, SlotStep, PTL DEF Spec, SlotSpec, FS!FSSpec
=============================================================================
