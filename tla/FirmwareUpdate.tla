--------------------------- MODULE FirmwareUpdate ---------------------------
(***************************************************************************)
(* The way of a new firmware into the device.  A phone asks the cup to     *)
(* update itself (/dev-fw_update): fogCloudDevFirmwareUpdate asks the cloud*)
(* for the latest version, downloads it into the partition OTA_TEMP,       *)
(* checks it, records its version in the settings, and then the client's   *)
(* thread sets the boot table and asks for a reboot.  Or a tool on the LAN *)
(* uploads an image to the SDK's config server, which writes it to the     *)
(* same partition and sets the boot table.  The boot loader copies what    *)
(* the boot table names over the application.  All client threads share    *)
(* easyCloudContext, ota_crc, RecvRomFileSize and OTA_TEMP.                *)
(*                                                                         *)
(* Covered: several clients at once, uploads that break off, power         *)
(* failures anywhere and in a save of the settings (with the outcomes      *)
(* module ParaStore has), flash errors.  An image is one version number    *)
(* per chunk, and always of NumChunks chunks.  Left out: uploads that are  *)
(* not of the type of a firmware, isOTAInProgress, which only a LED shows, *)
(* and the start-up check for updates, which user_config.h:59 disables.    *)
(***************************************************************************)
EXTENDS Naturals

CONSTANTS
    Client,        (* threads of the cloud's config server                    *)
    Lan,           (* threads of the SDK's config server                      *)
    Blank, Torn,   (* an erased chunk, a chunk with anything else in it       *)
    MaxVersion,    (* exploration bound: versions the cloud publishes         *)
    NumChunks,     (* chunks of an image                                      *)
    MaxRequests,   (* exploration bound: updates asked for                    *)
    MaxRestarts,   (* exploration bound: power failures                       *)
    MaxErrors      (* exploration bound: flash operations that fail           *)

ASSUME FirmwareAssumption ==
    /\ Client \cap Lan = {}
    /\ Blank \notin Nat /\ Torn \notin Nat /\ Blank # Torn
    /\ NumChunks \in Nat \ {0}
    /\ MaxVersion \in Nat /\ MaxRequests \in Nat
    /\ MaxRestarts \in Nat /\ MaxErrors \in Nat

Thread  == Client \cup Lan
Chunk   == 1 .. NumChunks
Data    == Nat \cup {Blank, Torn}
Content == [Chunk -> Data]

Image(v) == [i \in Chunk |-> v]
Complete(c) == c[1] \notin {Blank, Torn} /\ c = Image(c[1])
Empty    == Image(Blank)
Default  == 0                       (* DEFAULT_ROM_VERSION, the first image   *)
NoTable  == [set |-> FALSE, length |-> 0, crc |-> Empty]

VARIABLES
    latest,        (* the version the cloud offers                            *)
    app,           (* the application partition                               *)
    temp,          (* the partition OTA_TEMP                                  *)
    rom,           (* romVersion in the settings                              *)
    table,         (* the boot table; its crc stands for the data it is of    *)
    offer,         (* easyCloudContext.service_status: version, MD5 and size  *)
    otaCrc,        (* ota_crc: the data it was computed over                  *)
    size,          (* RecvRomFileSize, in chunks                              *)
    lock,          (* uploads that hold flashContentInRam_mutex               *)
    pc, at,        (* per thread: its control, the next chunk to write        *)
    file,          (* per thread: the data it receives, as its CRC covers it  *)
    stage,         (* the boot loader's control, "up" or "dead"               *)
    pos,           (* the chunk the boot loader copies next                   *)
    requests, restarts, errors,
    odd            (* history: did one update begin before another's end      *)
                   (* ("clash"), and has something parted the version in the  *)
                   (* settings from the firmware since an update was recorded *)
                   (* last ("parted")?                                        *)

cloud   == <<latest, offer>>
thread  == <<pc, at, file>>
history == <<requests, restarts, errors, odd>>
vars == <<app, temp, rom, table, otaCrc, size, lock, stage, pos, cloud, thread, history>>

Init ==
    /\ latest = 0 /\ offer = 0
    /\ app = Image(0)
    /\ temp = Empty
    /\ rom = 0
    /\ table = NoTable
    /\ otaCrc = Empty
    /\ size = 0
    /\ lock = {}
    /\ pc = [t \in Thread |-> "idle"]
    /\ at = [t \in Thread |-> 1]
    /\ file = [t \in Thread |-> Image(0)]
    /\ stage = "up" /\ pos = 1
    /\ requests = 0 /\ restarts = 0 /\ errors = 0
    /\ odd = {}

Busy == {t \in Thread : pc[t] # "idle"}

(* A write into a chunk that is not blank leaves garbage unless it repeats *)
(* what is there.                                                          *)
Program(old, new) == IF old = Blank \/ old = new THEN new ELSE Torn

Goto(t, l) == pc' = [pc EXCEPT ![t] = l]

-----------------------------------------------------------------------------
(* The cloud publishes a new version.                                      *)
Publish ==
    /\ latest < MaxVersion
    /\ latest' = latest + 1
    /\ UNCHANGED <<app, temp, rom, table, offer, otaCrc, size, lock, stage, pos, thread, history>>

Begin(t) ==
    /\ stage = "up" /\ pc[t] = "idle"
    /\ requests < MaxRequests
    /\ requests' = requests + 1
    /\ odd' = IF Busy = {} THEN odd ELSE odd \cup {"clash"}

-----------------------------------------------------------------------------
(* fogCloudDevFirmwareUpdate for a client.                                 *)

Ask(c) ==
    /\ Begin(c)
    /\ offer' = latest
    /\ IF rom = latest
       THEN /\ size' = 0
            /\ Goto(c, "answer")
       ELSE /\ Goto(c, "erase")
            /\ size' = size
    /\ UNCHANGED <<latest, app, temp, rom, table, otaCrc, lock, at, file, stage,
                   pos, restarts, errors>>

AskFails(c) ==
    /\ Begin(c)
    /\ UNCHANGED <<cloud, app, temp, rom, table, otaCrc, size, lock, thread, stage,
                   pos, restarts, errors>>

(* FogCloudGetRomData: it fetches the file of the offer into OTA_TEMP.     *)
DownloadBegins(c) ==
    /\ pc[c] = "erase"
    /\ temp' = Empty
    /\ file' = [file EXCEPT ![c] = Image(offer)]
    /\ at' = [at EXCEPT ![c] = 1]
    /\ Goto(c, "chunks")
    /\ UNCHANGED <<cloud, app, rom, table, otaCrc, size, lock, stage, pos, history>>

DownloadChunk(c) ==
    /\ c \in Client
    /\ pc[c] = "chunks"
    /\ temp' = [temp EXCEPT ![at[c]] = Program(@, file[c][at[c]])]
    /\ IF at[c] < NumChunks
       THEN /\ at' = [at EXCEPT ![c] = @ + 1]
            /\ pc' = pc
       ELSE /\ Goto(c, "verify")
            /\ at' = at
    /\ UNCHANGED <<cloud, app, rom, table, otaCrc, size, lock, file, stage, pos, history>>

DownloadFails(c) ==
    /\ c \in Client
    /\ pc[c] = "chunks"
    /\ Goto(c, "idle")
    /\ UNCHANGED <<cloud, app, temp, rom, table, otaCrc, size, lock, at, file, stage, pos, history>>

(* The MD5 of what is in OTA_TEMP must be the offer's, and there must be   *)
(* memory for it; ota_crc is set before that is known.                     *)
Verify(c) ==
    /\ pc[c] = "verify"
    /\ otaCrc' = temp
    /\ \/ temp = Image(offer) /\ Goto(c, "record")
       \/ Goto(c, "idle")
    /\ UNCHANGED <<cloud, app, temp, rom, table, size, lock, at, file, stage, pos, history>>

(* Mutant: the size is not recorded. *)
RecordNoSize(c) ==
    /\ pc[c] = "record"
    /\ lock = {}
    /\ rom' = offer
    /\ odd' = odd \ {"parted"}
    /\ Goto(c, "answer")
    /\ UNCHANGED <<cloud, app, temp, table, otaCrc, size, lock, at, file, stage, pos,
                   requests, restarts, errors>>

(* With the mutex held: the version and its size, and a save.              *)
Record(c) ==
    /\ pc[c] = "record"
    /\ lock = {}
    /\ rom' = offer
    /\ size' = NumChunks
    /\ odd' = odd \ {"parted"}
    /\ Goto(c, "answer")
    /\ UNCHANGED <<cloud, app, temp, table, otaCrc, lock, at, file, stage, pos,
                   requests, restarts, errors>>

(* The client's thread replies: nothing to install, or on to the boot      *)
(* table.  Without memory for the reply what was recorded is forgotten.    *)
Answer(c) ==
    /\ pc[c] = "answer"
    /\ Goto(c, IF size = 0 THEN "idle" ELSE "arm")
    /\ UNCHANGED <<cloud, app, temp, rom, table, otaCrc, size, lock, at, file, stage, pos, history>>

AnswerFails(c) ==
    /\ pc[c] = "answer"
    /\ Goto(c, "idle")
    /\ odd' = IF size = 0 THEN odd ELSE odd \cup {"parted"}
    /\ UNCHANGED <<cloud, app, temp, rom, table, otaCrc, size, lock, at, file, stage, pos,
                   requests, restarts, errors>>

(* For the boot table it takes the mutex and reads the size again.         *)
Arm(c) ==
    /\ pc[c] = "arm"
    /\ lock = {}
    /\ table' = [set |-> TRUE, length |-> size, crc |-> otaCrc]
    /\ Goto(c, "reboot")
    /\ UNCHANGED <<cloud, app, temp, rom, otaCrc, size, lock, at, file, stage, pos, history>>

-----------------------------------------------------------------------------
(* An upload to the SDK's config server.  It holds the mutex from its      *)
(* first byte to its end.  The image may be of any version.                *)

UploadBegins(l) ==
    /\ Begin(l)
    /\ lock = {}
    /\ lock' = {l}
    /\ temp' = Empty
    /\ \E v \in 0 .. MaxVersion : file' = [file EXCEPT ![l] = Image(v)]
    /\ at' = [at EXCEPT ![l] = 1]
    /\ Goto(l, "chunks")
    /\ UNCHANGED <<cloud, app, rom, table, otaCrc, size, stage, pos, restarts, errors>>

UploadChunk(l) ==
    /\ l \in Lan
    /\ pc[l] = "chunks"
    /\ temp' = [temp EXCEPT ![at[l]] = Program(@, file[l][at[l]])]
    /\ IF at[l] < NumChunks
       THEN /\ at' = [at EXCEPT ![l] = @ + 1]
            /\ pc' = pc
       ELSE /\ Goto(l, "arm")
            /\ at' = at
    /\ UNCHANGED <<cloud, app, rom, table, otaCrc, size, lock, file, stage, pos, history>>

(* The write of a chunk fails: the mutex is given back, the bytes are not  *)
(* added to the CRC, and the upload goes on, for nobody looks at the       *)
(* callback's result (HTTPUtils.c:348).                                    *)
UploadChunkError(l) ==
    /\ l \in Lan
    /\ pc[l] = "chunks" /\ at[l] > 1
    /\ errors < MaxErrors
    /\ errors' = errors + 1
    /\ lock' = lock \ {l}
    /\ temp' = [temp EXCEPT ![at[l]] = Torn]
    /\ file' = [file EXCEPT ![l][at[l]] = Blank]
    /\ IF at[l] < NumChunks
       THEN /\ at' = [at EXCEPT ![l] = @ + 1]
            /\ pc' = pc
       ELSE /\ Goto(l, "arm")
            /\ at' = at
    /\ UNCHANGED <<cloud, app, rom, table, otaCrc, size, stage, pos, requests,
                   restarts, odd>>

(* The connection is lost, or the first write failed.                      *)
UploadFails(l) ==
    /\ l \in Lan
    /\ pc[l] = "chunks"
    /\ lock' = lock \ {l}
    /\ Goto(l, "idle")
    /\ UNCHANGED <<cloud, app, temp, rom, table, otaCrc, size, at, file, stage, pos, history>>

(* The boot table, with the CRC of what was received; an upload records no *)
(* version.                                                                *)
ArmUpload(l) ==
    /\ l \in Lan
    /\ pc[l] = "arm"
    /\ table' = [set |-> TRUE, length |-> NumChunks, crc |-> file[l]]
    /\ Goto(l, "reboot")
    /\ odd' = odd \cup {"parted"}
    /\ UNCHANGED <<cloud, app, temp, rom, otaCrc, size, lock, at, file, stage, pos,
                   requests, restarts, errors>>

-----------------------------------------------------------------------------
(* The power fails, or the power daemon reboots on request.  RAM is lost.  *)

Restart ==
    /\ offer' = 0 /\ otaCrc' = Empty /\ size' = 0
    /\ lock' = {}
    /\ pc' = [t \in Thread |-> "idle"]
    /\ stage' = "loader"
    /\ UNCHANGED <<latest, app, temp, at, file, pos, requests, errors>>

Reboot ==
    /\ stage = "up"
    /\ \E t \in Thread : pc[t] = "reboot"
    /\ Restart
    /\ UNCHANGED <<rom, table, restarts, odd>>

(* What the settings may be after a save of any thread was interrupted:    *)
(* main may have to be restored from the backup, which brings no boot      *)
(* table and, if the user part is blank, the defaults; and a save that     *)
(* Record or an Arm makes may have reached main.                           *)
SaveCut(r, t) ==
    \/ r \in {rom, Default} /\ t \in {table, NoTable}
    \/ \E c \in Client :
          /\ pc[c] = "record" /\ lock = {}
          /\ r = offer /\ t \in {table, NoTable}
    \/ \E c \in Client :
          /\ pc[c] = "arm" /\ lock = {}
          /\ r \in {rom, Default}
          /\ t = [set |-> TRUE, length |-> size, crc |-> otaCrc]
    \/ \E l \in Lan :
          /\ pc[l] = "arm"
          /\ r \in {rom, Default}
          /\ t = [set |-> TRUE, length |-> NumChunks, crc |-> file[l]]

(* A version is recorded for whose firmware the boot table is to be set.  *)
Recording ==
    \E c \in Client : pc[c] \in {"arm", "reboot"} \/ (pc[c] = "answer" /\ size # 0)

(* The version changes without its firmware, the boot table is not there   *)
(* for the version recorded, or it is there for an upload.                 *)
Parts(r, t) ==
    \/ r # rom
    \/ Recording /\ ~t.set
    \/ t.set /\ \E l \in Lan : pc[l] = "arm"

PowerFail ==
    /\ restarts < MaxRestarts
    /\ restarts' = restarts + 1
    /\ \/ UNCHANGED <<rom, table>>
       \/ stage = "up" /\ SaveCut(rom', table')
       \/ stage = "clear" /\ rom' \in {rom, Default} /\ table' = NoTable
    /\ odd' = IF Parts(rom', table') THEN odd \cup {"parted"} ELSE odd
    /\ Restart

-----------------------------------------------------------------------------
(* The boot loader, and the start of what is in the application partition. *)

Started == IF Complete(app) THEN "up" ELSE "dead"

(* checkcrc: err is kNoErr before the comparison and is set to kNoErr if   *)
(* the CRCs are equal; if they differ it stays kNoErr.                     *)
CheckCrc == TRUE

(* updateLogCheck                                                          *)
NeedUpdate == table.set /\ table.length <= NumChunks /\ CheckCrc

(* Nothing to install: OTA_TEMP is erased if it is not blank.              *)
LoaderWipes ==
    /\ stage = "loader" /\ ~NeedUpdate
    /\ temp' = Empty
    /\ stage' = Started
    /\ UNCHANGED <<cloud, app, rom, table, otaCrc, size, lock, pos, thread, history>>

(* Mutant: the boot table is cleared before the image is copied. *)
LoaderErasesDisarms ==
    /\ stage = "loader" /\ NeedUpdate
    /\ app' = Empty
    /\ table' = [table EXCEPT !.set = FALSE]
    /\ pos' = 1
    /\ stage' = IF table.length = 0 THEN "clear" ELSE "copy"
    /\ UNCHANGED <<cloud, temp, rom, otaCrc, size, lock, thread, history>>

LoaderErases ==
    /\ stage = "loader" /\ NeedUpdate
    /\ app' = Empty
    /\ pos' = 1
    /\ stage' = IF table.length = 0 THEN "clear" ELSE "copy"
    /\ UNCHANGED <<cloud, temp, rom, table, otaCrc, size, lock, thread, history>>

(* Mutant: one chunk too many. *)
LoaderCopiesOneMore ==
    /\ stage = "copy"
    /\ app' = [app EXCEPT ![pos] = temp[pos]]
    /\ IF pos <= table.length
       THEN /\ pos' = pos + 1
            /\ stage' = stage
       ELSE /\ stage' = "clear"
            /\ pos' = pos
    /\ UNCHANGED <<cloud, temp, rom, table, otaCrc, size, lock, thread, history>>

LoaderCopies ==
    /\ stage = "copy"
    /\ app' = [app EXCEPT ![pos] = temp[pos]]
    /\ IF pos < table.length
       THEN /\ pos' = pos + 1
            /\ stage' = stage
       ELSE /\ stage' = "clear"
            /\ pos' = pos
    /\ UNCHANGED <<cloud, temp, rom, table, otaCrc, size, lock, thread, history>>

(* Mutant: the boot table stays set. *)
LoaderClearsNot ==
    /\ stage = "clear"
    /\ stage' = "wipe"
    /\ UNCHANGED <<cloud, app, temp, rom, table, otaCrc, size, lock, pos, thread, history>>

LoaderClears ==
    /\ stage = "clear"
    /\ table' = NoTable
    /\ stage' = "wipe"
    /\ UNCHANGED <<cloud, app, temp, rom, otaCrc, size, lock, pos, thread, history>>

LoaderEnds ==
    /\ stage = "wipe"
    /\ temp' = Empty
    /\ stage' = Started
    /\ UNCHANGED <<cloud, app, rom, table, otaCrc, size, lock, pos, thread, history>>

(* A flash operation fails: main() ignores the result of update() and      *)
(* starts the application.  In checkcrc a failure counts as no update, and *)
(* OTA_TEMP is erased; an erase may have been done or not.                 *)
LoaderError ==
    /\ stage \in {"loader", "copy", "clear", "wipe"}
    /\ errors < MaxErrors
    /\ errors' = errors + 1
    /\ temp' \in IF stage \in {"loader", "wipe"} THEN {temp, Empty} ELSE {temp}
    /\ app' \in IF stage = "loader" /\ NeedUpdate THEN {app, Empty} ELSE {app}
    /\ table' \in IF stage = "clear" THEN {table, NoTable} ELSE {table}
    /\ stage' = IF Complete(app') THEN "up" ELSE "dead"
    /\ UNCHANGED <<cloud, rom, otaCrc, size, lock, pos, thread, requests,
                   restarts, odd>>

Loader == LoaderWipes \/ LoaderErases \/ LoaderCopies \/ LoaderClears \/ LoaderEnds

Next ==
    \/ Publish
    \/ \E c \in Client :
          \/ Ask(c) \/ AskFails(c)
          \/ DownloadBegins(c) \/ DownloadChunk(c) \/ DownloadFails(c)
          \/ Verify(c) \/ Record(c) \/ Answer(c) \/ AnswerFails(c) \/ Arm(c)
    \/ \E l \in Lan :
          \/ UploadBegins(l) \/ UploadChunk(l) \/ UploadChunkError(l)
          \/ UploadFails(l) \/ ArmUpload(l)
    \/ Reboot \/ PowerFail
    \/ Loader \/ LoaderError

Spec == Init /\ [][Next]_vars

(* The boot loader runs, and the power daemon reboots when it is asked to. *)
FairSpec == Spec /\ WF_vars(Loader) /\ WF_vars(Reboot)

-----------------------------------------------------------------------------
(* The type of the state.                                                  *)
TypeOK ==
    /\ latest \in Nat /\ offer \in Nat
    /\ app \in Content /\ temp \in Content /\ otaCrc \in Content
    /\ rom \in Nat
    /\ table \in [set : BOOLEAN, length : 0 .. NumChunks, crc : Content]
    /\ size \in 0 .. NumChunks
    /\ lock \subseteq Lan
    /\ pc \in [Thread -> {"idle", "erase", "chunks", "verify", "record", "answer",
                         "arm", "reboot"}]
    /\ at \in [Thread -> Chunk]
    /\ file \in [Thread -> Content]
    /\ stage \in {"up", "dead", "loader", "copy", "clear", "wipe"}
    /\ pos \in Chunk
    /\ requests \in Nat /\ restarts \in Nat /\ errors \in Nat
    /\ odd \subseteq {"clash", "parted"}

(* Whatever is interrupted, and however often, the boot loader never ends  *)
(* with an application partition that holds no complete image, as long as  *)
(* updates come one after the other and no flash operation fails.          *)
NeverDead == stage = "dead" => "clash" \in odd \/ errors > 0

(* The version in the settings, which is recorded before the boot table is *)
(* set, is that of the running firmware or of one about to be installed:   *)
(* through downloads that fail, uploads that break off, and power failures *)
(* in any of them, in the reboot and in the boot loader.  Only these part  *)
(* the two, until the next update is recorded: no memory for the reply, or *)
(* a power failure, between the record and the boot table; a save that was *)
(* interrupted and loses the boot table or the version; and an upload that *)
(* is installed.  Updates do not overlap, no flash operation fails.        *)
RecordedIsInstalled ==
    stage = "up" /\ odd = {} /\ errors = 0 =>
        \/ app = Image(rom)
        \/ \E c \in Client : pc[c] \in {"answer", "arm", "reboot"} /\ temp = Image(rom)

(* An image the boot table names gets installed and the table cleared,     *)
(* however often the power fails meanwhile.                                *)
UpdateEnds ==
    table.set ~> (~table.set /\ stage = "up") \/ "clash" \in odd \/ errors > 0

(* The version that runs, or that the boot loader is copying over what     *)
(* ran, and the one that is due to replace it.                             *)
Installed == IF Complete(app) THEN app[1] ELSE temp[1]
Due       == IF table.set /\ Complete(app) /\ app # temp THEN temp[1] ELSE Blank

FS == INSTANCE FirmwareSlot WITH
          None <- Blank, runs <- Installed, armed <- Due,
          disturbed <- "clash" \in odd \/ errors > 0

(* The copy, chunk by chunk and begun again after every power failure,     *)
(* implements an installation in one step: an update replaces the firmware *)
(* by the complete image that was in OTA_TEMP when the boot table was set, *)
(* as a whole or not at all, and nothing else changes the firmware.        *)
SlotSpec == FS!FSSpec

(* "if (checkcrc(...) != kNoErr) return Log_CRCERROR"                      *)
(* (Update_for_OTA.c:127): the boot loader copies only data whose CRC is   *)
(* the one of the boot table.                                              *)
CopiesOnlyWhatCrcCovers ==
    stage = "copy" => \A i \in 1 .. table.length : temp[i] = table.crc[i]
=============================================================================
