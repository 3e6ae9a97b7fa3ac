----------------------------- MODULE ParaStore -----------------------------
(***************************************************************************)
(* The settings store of the SDK.  The settings are kept twice in flash:   *)
(* in partition PARAMETER_1 (main) and in PARAMETER_2 (backup), each with  *)
(* the system part, the application's part and a CRC of both.  A save      *)
(* writes main and then backup, cell by cell; at power on the boot loader  *)
(* clears the boot table in main, MICOReadConfiguration repairs the copy   *)
(* that is broken from the other one, and the application restores the     *)
(* defaults when its part carries the wrong version.  Some threads save    *)
(* with flashContentInRam_mutex held, some without it.  The power may fail *)
(* between any two flash operations or in one, and an operation may fail.  *)
(*                                                                         *)
(* The data: each save or restore has a number, greater than all earlier   *)
(* ones, and a part of the settings is the number of the save that gave it *)
(* its value (the seed makes each save's system part new; the part of the  *)
(* application may stay).  A CRC is the pair of numbers it was computed    *)
(* from, so that no two contents share one, except that it may come out as *)
(* zero, which the code takes for a missing one.  The magic number is      *)
(* right in every copy whose CRC matches and is left out.                  *)
(***************************************************************************)
EXTENDS Naturals

CONSTANTS
    Locker,        (* threads that save with the mutex held                   *)
    Unlocked,      (* power daemon and config server: they save without it    *)
    Boot,          (* the thread that reads the settings at start             *)
    Blank,         (* an erased cell                                          *)
    Torn,          (* a cell whose write or erase was interrupted             *)
    Zero,          (* the CRC 0                                               *)
    ZeroCrc,       (* the saves whose CRC comes out as 0                      *)
    MaxSaves,      (* exploration bound: saves asked for                      *)
    MaxRestarts,   (* exploration bound: power failures and reboots           *)
    MaxErrors      (* exploration bound: flash operations that fail           *)

Thread == Locker \cup Unlocked \cup {Boot}
Image  == (Nat \cup {Blank, Torn}) \X (Nat \cup {Blank, Torn})

ASSUME ParaStoreAssumption ==
    /\ Boot \notin Locker \cup Unlocked /\ Locker \cap Unlocked = {}
    /\ Blank \notin Nat /\ Torn \notin Nat /\ Blank # Torn
    /\ {Blank, Torn, Zero} \cap Image = {}
    /\ Zero \notin {Blank, Torn}
    /\ ZeroCrc \subseteq Nat
    /\ MaxSaves \in Nat /\ MaxRestarts \in Nat /\ MaxErrors \in Nat

VARIABLES
    flash,         (* per partition: its cells sys, user and crc              *)
    bootTable,     (* does the boot table in main name an image to install?   *)
    ram,           (* flashContentInRam and user_config_data                  *)
    job,           (* per thread: the flash operation it is to do next        *)
    changed,       (* the unlocked threads that changed ram and will save it  *)
    stage,         (* how far the start has come                              *)
    kept,          (* paraSaveInRam of the boot loader: main as it read it    *)
    saves,         (* the number of the last save                             *)
    restarts, errors,
    acked,         (* history: the last save that returned without an error   *)
    whole,         (* history: was main whole when the power came on?         *)
    blame          (* history: what may have left no whole copy, since both   *)
                   (* copies were last written by one thread without a fault  *)

vars == <<flash, bootTable, ram, job, changed, stage, kept, saves, restarts,
          errors, acked, whole, blame>>
counters == <<restarts, errors>>

Partition == {"main", "backup"}
Cell      == {"erase", "sys", "user", "crc"}
Idle      == [part |-> "main", cell |-> "idle", last |-> "main", crc |-> Blank]
Erased    == [sys |-> Blank, user |-> Blank, crc |-> Blank]
NoRam     == [sys |-> Blank, user |-> Blank, boot |-> FALSE]

Active(p) == job[p].cell # "idle"
Others(p) == {q \in Thread \ {p} : Active(q)}

-----------------------------------------------------------------------------
(* CRC, is_crc_match, and what a partition or the whole store amounts to.  *)

(* Mutant: the CRC covers the system part only. *)
CrcOfSystemPart(s, u) == IF s \in ZeroCrc THEN Zero ELSE <<s, s>>

Crc(s, u) == IF s \in ZeroCrc THEN Zero ELSE <<s, u>>

CrcMatch(a, b) == a # Zero /\ b # Zero /\ a = b

Whole(c) == CrcMatch(Crc(c.sys, c.user), c.crc)

(* The settings a start would find: main's, else the backup's.             *)
Effective == IF Whole(flash["main"]) THEN flash["main"]
             ELSE IF Whole(flash["backup"]) THEN flash["backup"]
             ELSE Erased

(* A write can only clear bits: into a cell that is not blank it leaves    *)
(* garbage, unless it repeats what is there.                               *)
Program(old, new) == IF old = Blank \/ old = new THEN new ELSE Torn

Init ==
    /\ flash = [q \in Partition |-> Erased]
    /\ bootTable = FALSE
    /\ ram = NoRam
    /\ job = [p \in Thread |-> Idle]
    /\ changed = {}
    /\ stage = "loader"
    /\ kept = Erased
    /\ saves = 0 /\ restarts = 0 /\ errors = 0
    /\ acked = 0
    /\ whole = FALSE
    /\ blame = {"new"}

-----------------------------------------------------------------------------
(* internal_update_config and the two repairs: erase a partition, write    *)
(* the system part (with the boot table), the user part and the CRC.       *)

(* Mutant: a save writes main only. *)
JobOneCopy(q, r, crc) == [part |-> q, cell |-> "erase", last |-> q, crc |-> crc]

(* The job that starts at partition q, ends with partition r, writes crc.  *)
Job(q, r, crc) == [part |-> q, cell |-> "erase", last |-> r, crc |-> crc]

(* A save of s and u, which p puts into ram, with boot as the boot table.  *)
StartSave(p, s, u, b) ==
    /\ ram' = [sys |-> s, user |-> u, boot |-> b]
    /\ job' = [job EXCEPT ![p] = Job("main", "backup", Crc(s, u))]

Advance(p, cell) == job' = [job EXCEPT ![p].cell = cell]

Erase(p) ==
    /\ job[p].cell = "erase"
    /\ flash' = [flash EXCEPT ![job[p].part] = Erased]
    /\ bootTable' = (bootTable /\ job[p].part # "main")
    /\ Advance(p, "sys")
    /\ UNCHANGED <<ram, changed, stage, kept, saves, counters, acked, whole, blame>>

WriteSys(p) ==
    /\ job[p].cell = "sys"
    /\ flash' = [flash EXCEPT ![job[p].part].sys = Program(@, ram.sys)]
    /\ bootTable' = IF job[p].part = "main" THEN ram.boot ELSE bootTable
    /\ Advance(p, "user")
    /\ UNCHANGED <<ram, changed, stage, kept, saves, counters, acked, whole, blame>>

WriteUser(p) ==
    /\ job[p].cell = "user"
    /\ flash' = [flash EXCEPT ![job[p].part].user = Program(@, ram.user)]
    /\ Advance(p, "crc")
    /\ UNCHANGED <<bootTable, ram, changed, stage, kept, saves, counters, acked,
                   whole, blame>>

(* The caller goes on: the start of the application with its next part     *)
(* (it gives up when the restore of line 122 fails), the others not at all.*)
Return(p, ok) ==
    /\ job' = [job EXCEPT ![p] = Idle]
    /\ stage' = IF p # Boot THEN stage
                ELSE IF stage = "recover" THEN "check"
                ELSE IF ok THEN "up" ELSE "stopped"

(* Both copies are whole, equal and as p wrote them, and nobody is writing.*)
Settled(p) ==
    /\ Others(p) = {}
    /\ \A q \in Partition : flash'[q].crc = job[p].crc /\ Whole(flash'[q])

WriteCrc(p) ==
    /\ job[p].cell = "crc"
    /\ LET q    == job[p].part
           last == q = job[p].last
           bad  == ~last /\ flash'[q].crc = Zero      (* the read back of 104 *)
       IN  /\ flash' = [flash EXCEPT ![q].crc = Program(@, job[p].crc)]
           /\ IF last \/ bad
              THEN Return(p, ~bad)
              ELSE /\ job' = [job EXCEPT ![p].part = "backup", ![p].cell = "erase"]
                   /\ stage' = stage
           /\ acked' = IF last /\ job[p].crc # Zero THEN job[p].crc[1] ELSE acked
           /\ blame' = IF last /\ Settled(p) THEN {} ELSE blame
    /\ UNCHANGED <<bootTable, ram, changed, kept, saves, counters, whole>>

(* What an interrupted operation of the threads in T leaves in a cell.     *)
Hit(T, q, c) ==
    \E p \in T : job[p].part = q /\ job[p].cell \in {"erase", c}
TornFlash(T) ==
    [q \in Partition |->
        [sys  |-> IF Hit(T, q, "sys")  THEN Torn ELSE flash[q].sys,
         user |-> IF Hit(T, q, "user") THEN Torn ELSE flash[q].user,
         crc  |-> IF Hit(T, q, "crc")  THEN Torn ELSE flash[q].crc]]
(* The boot table is the first thing in main: old, new or gone.            *)
TornTable(T) ==
    IF Hit(T, "main", "sys") THEN {bootTable, ram.boot, FALSE} ELSE {bootTable}

FlashError(p) ==
    /\ Active(p)
    /\ errors < MaxErrors
    /\ errors' = errors + 1
    /\ \E T \in SUBSET {p} :
          /\ flash' = TornFlash(T)
          /\ bootTable' \in TornTable(T)
    /\ Return(p, FALSE)
    /\ blame' = blame \cup {"error"}
    /\ UNCHANGED <<ram, changed, kept, saves, restarts, acked, whole>>

-----------------------------------------------------------------------------
(* The threads of the running system.                                      *)

(* Mutant: the seed counts down. *)
FreshDown == saves - 1

Fresh == saves + 1

(* Callers that hold the mutex: the cloud's threads and the Wi-Fi callback.*)
(* The user part may change, and an update check may set the boot table.   *)
Save(p) ==
    /\ stage = "up"
    /\ saves < MaxSaves
    /\ \A q \in Locker : ~Active(q)
    /\ \E u \in {ram.user, Fresh}, b \in {ram.boot, TRUE} : StartSave(p, Fresh, u, b)
    /\ saves' = Fresh
    /\ blame' = IF Others(p) = {} THEN blame ELSE blame \cup {"overlap"}
    /\ UNCHANGED <<flash, bootTable, changed, stage, kept, counters, acked, whole>>

(* The button's callbacks and the config server change ram outside the     *)
(* mutex (a click the system part, a long press both) ...                  *)
Change(p) ==
    /\ stage = "up"
    /\ saves < MaxSaves
    /\ p \notin changed /\ ~Active(p)
    /\ \E u \in {ram.user, Fresh} : ram' = [ram EXCEPT !.sys = Fresh, !.user = u]
    /\ saves' = Fresh
    /\ changed' = changed \cup {p}
    /\ blame' = IF Others(p) = {} THEN blame ELSE blame \cup {"overlap"}
    /\ UNCHANGED <<flash, bootTable, job, stage, kept, counters, acked, whole>>

(* ... and save it in a later step.                                        *)
SaveUnlocked(p) ==
    /\ stage = "up"
    /\ p \in changed
    /\ changed' = changed \ {p}
    /\ StartSave(p, ram.sys, ram.user, ram.boot)
    /\ blame' = IF Others(p) = {} THEN blame ELSE blame \cup {"overlap"}
    /\ UNCHANGED <<flash, bootTable, stage, kept, saves, counters, acked, whole>>

-----------------------------------------------------------------------------
(* Power off, boot loader and start.                                       *)

TornCopy == [sys |-> Torn, user |-> Torn, crc |-> Torn]

(* A power failure or MicoSystemReboot; it may hit operations under way.   *)
PowerFail ==
    /\ restarts < MaxRestarts
    /\ restarts' = restarts + 1
    /\ \/ /\ stage \in {"ldErase", "ldWrite"}
          /\ flash' \in {flash, [flash EXCEPT !["main"] = TornCopy]}
          /\ bootTable' \in {bootTable, FALSE}
       \/ \E T \in SUBSET {p \in Thread : Active(p)} :
             /\ flash' = TornFlash(T)
             /\ bootTable' \in TornTable(T)
    /\ whole' = Whole(flash'["main"])
    /\ ram' = NoRam
    /\ job' = [p \in Thread |-> Idle]
    /\ changed' = {}
    /\ stage' = "loader"
    /\ kept' = Erased
    /\ UNCHANGED <<saves, errors, acked, blame>>

(* update(): with no image to install it leaves the settings alone; else,  *)
(* after the installation, it reads main, clears the boot table in it,     *)
(* erases main and writes it back.                                         *)
LoaderSkips ==
    /\ stage = "loader" /\ ~bootTable
    /\ stage' = "read"
    /\ UNCHANGED <<flash, bootTable, ram, job, changed, kept, saves, counters,
                   acked, whole, blame>>

(* Mutant: update() erases main without having read all of it. *)
LoaderReadsNothing ==
    /\ stage = "loader" /\ bootTable
    /\ kept' = Erased
    /\ stage' = "ldErase"
    /\ blame' = IF Whole(flash["backup"]) THEN blame ELSE blame \cup {"loader"}
    /\ UNCHANGED <<flash, bootTable, ram, job, changed, saves, counters, acked,
                   whole>>

LoaderReads ==
    /\ stage = "loader" /\ bootTable
    /\ kept' = flash["main"]
    /\ stage' = "ldErase"
    /\ blame' = IF Whole(flash["backup"]) THEN blame ELSE blame \cup {"loader"}
    /\ UNCHANGED <<flash, bootTable, ram, job, changed, saves, counters, acked,
                   whole>>

LoaderErases ==
    /\ stage = "ldErase"
    /\ flash' = [flash EXCEPT !["main"] = Erased]
    /\ bootTable' = FALSE
    /\ stage' = "ldWrite"
    /\ UNCHANGED <<ram, job, changed, kept, saves, counters, acked, whole, blame>>

LoaderWritesBack ==
    /\ stage = "ldWrite"
    /\ flash' = [flash EXCEPT !["main"] = kept]
    /\ stage' = "read"
    /\ UNCHANGED <<bootTable, ram, job, changed, kept, saves, counters, acked,
                   whole, blame>>

(* A flash operation of update() fails: main() of the boot loader ignores  *)
(* its result and starts the application.                                  *)
LoaderError ==
    /\ stage \in {"ldErase", "ldWrite"}
    /\ errors < MaxErrors
    /\ errors' = errors + 1
    /\ flash' \in {flash, [flash EXCEPT !["main"] = TornCopy]}
    /\ bootTable' \in {bootTable, FALSE}
    /\ stage' = "read"
    /\ blame' = blame \cup {"error"}
    /\ UNCHANGED <<ram, job, changed, kept, saves, restarts, acked, whole>>

(* MICOReadConfiguration: both copies are broken, restore the defaults.    *)
Restore ==
    /\ StartSave(Boot, Fresh, Fresh, FALSE)
    /\ saves' = Fresh
    /\ UNCHANGED <<flash, bootTable, changed, kept, counters, acked, whole, blame>>

ReadNeither ==
    /\ stage = "read"
    /\ ~Whole(flash["main"]) /\ ~Whole(flash["backup"])
    /\ stage' = "recover"
    /\ Restore

(* Mutant: the system part stays what was read from main, too. *)
ReadMainBrokenKeepsMain ==
    /\ stage = "read"
    /\ ~Whole(flash["main"]) /\ Whole(flash["backup"])
    /\ ram' = [sys |-> flash["main"].sys, user |-> flash["main"].user, boot |-> FALSE]
    /\ job' = [job EXCEPT ![Boot] = Job("main", "main", flash["backup"].crc)]
    /\ stage' = "recover"
    /\ UNCHANGED <<flash, bootTable, changed, kept, saves, counters, acked, whole, blame>>

(* Main is broken: the system part is taken from the backup, the user part *)
(* stays what was read from main, and both are written to main.            *)
ReadMainBroken ==
    /\ stage = "read"
    /\ ~Whole(flash["main"]) /\ Whole(flash["backup"])
    /\ ram' = [sys |-> flash["backup"].sys, user |-> flash["main"].user, boot |-> FALSE]
    /\ job' = [job EXCEPT ![Boot] = Job("main", "main", flash["backup"].crc)]
    /\ stage' = "recover"
    /\ UNCHANGED <<flash, bootTable, changed, kept, saves, counters, acked, whole, blame>>

(* Mutant: the backup is not looked at. *)
ReadMainOnly ==
    /\ stage = "read"
    /\ Whole(flash["main"])
    /\ ram' = [sys |-> flash["main"].sys, user |-> flash["main"].user, boot |-> bootTable]
    /\ stage' = "check"
    /\ UNCHANGED <<flash, bootTable, job, changed, kept, saves, counters, acked,
                   whole, blame>>

(* Main is whole: the backup is written again if it is broken or differs.  *)
ReadMain ==
    /\ stage = "read"
    /\ Whole(flash["main"])
    /\ ram' = [sys |-> flash["main"].sys, user |-> flash["main"].user, boot |-> bootTable]
    /\ LET backup == flash["backup"]
           same   == CrcMatch(flash["main"].crc, Crc(backup.sys, backup.user))
       IN  IF same /\ Whole(backup)
           THEN /\ stage' = "check"
                /\ job' = job
           ELSE /\ stage' = "recover"
                /\ job' = [job EXCEPT ![Boot] = Job("backup", "backup", flash["main"].crc)]
    /\ UNCHANGED <<flash, bootTable, changed, kept, saves, counters, acked, whole, blame>>

(* application_start: an erased user part has the wrong version, a torn    *)
(* one may have the right one (its value is then one never saved before).  *)
CheckAccepts ==
    /\ stage = "check"
    /\ ram.user # Blank
    /\ stage' = "up"
    /\ IF ram.user = Torn
       THEN /\ ram' = [ram EXCEPT !.user = Fresh]
            /\ saves' = Fresh
       ELSE UNCHANGED <<ram, saves>>
    /\ UNCHANGED <<flash, bootTable, job, changed, kept, counters, acked, whole, blame>>

CheckRestores ==
    /\ stage = "check"
    /\ ram.user \in {Blank, Torn}
    /\ stage' = "default"
    /\ Restore

Start == \/ LoaderSkips \/ LoaderReads \/ LoaderErases \/ LoaderWritesBack
         \/ LoaderError
         \/ ReadNeither \/ ReadMainBroken \/ ReadMain
         \/ CheckAccepts \/ CheckRestores

FlashStep(p) == Erase(p) \/ WriteSys(p) \/ WriteUser(p) \/ WriteCrc(p)

Next == \/ \E p \in Thread : FlashStep(p) \/ FlashError(p)
        \/ \E p \in Locker : Save(p)
        \/ \E p \in Unlocked : Change(p) \/ SaveUnlocked(p)
        \/ PowerFail
        \/ Start

Spec == Init /\ [][Next]_vars

-----------------------------------------------------------------------------
Part == Nat \cup {Blank, Torn}
Sum  == Image \cup {Blank, Torn, Zero}
Copy == [sys : Part, user : Part, crc : Sum]

(* The type of the state.                                                  *)
TypeOK ==
    /\ flash \in [Partition -> Copy]
    /\ bootTable \in BOOLEAN
    /\ ram \in [sys : Part, user : Part, boot : BOOLEAN]
    /\ job \in [Thread -> [part : Partition, cell : Cell \cup {"idle"},
                          last : Partition, crc : Sum]]
    /\ changed \subseteq Unlocked
    /\ stage \in {"loader", "ldErase", "ldWrite", "read", "recover", "check",
                  "default", "up", "stopped"}
    /\ kept \in Copy
    /\ saves \in Nat /\ restarts \in Nat /\ errors \in Nat /\ acked \in Nat
    /\ whole \in BOOLEAN
    /\ blame \subseteq {"new", "overlap", "error", "loader"}

(* Whenever the power fails, one of the two copies is whole: the backup is *)
(* touched only after main was written, and the start repairs one copy     *)
(* from the other before anyone saves.  It fails only before the first     *)
(* save, after saves that met, a flash error, or the boot loader's erase   *)
(* of main while the backup was broken.                                    *)
OneWholeCopy == blame = {} => Whole(flash["main"]) \/ Whole(flash["backup"])

(* A save that returned without an error is not lost: what a start would   *)
(* find is that save's system part or a later one's.                       *)
Durable == blame = {} => Effective.sys \in Nat /\ Effective.sys >= acked

(* After MICOReadConfiguration the system part in RAM is the one the flash *)
(* holds, whichever copy was broken and whatever the repair wrote.         *)
StartLoadsSaved ==
    stage = "check" /\ blame = {} => ram.sys = Effective.sys

(* A start restores the defaults only if the power failed while main was   *)
(* being written: an orderly restart, with or without an installation by   *)
(* the boot loader, never costs the settings.                              *)
DefaultsOnlyIfMainBroken ==
    [][ReadNeither \/ CheckRestores => ~whole \/ blame # {}]_vars

(* What a start may find: the whole copies, and main in the boot loader's  *)
(* RAM while it rewrites it.                                               *)
Settings(c) == [sys |-> c.sys, user |-> c.user]
Sources     == {flash["main"], flash["backup"]}
                   \cup (IF stage \in {"ldErase", "ldWrite"} THEN {kept} ELSE {})
Candidates  == {Settings(c) : c \in {d \in Sources : Whole(d)}}

SS == INSTANCE SettingsStore WITH
          candidates <- Candidates, given <- Settings(ram), disturbed <- blame # {}

(* Two copies, each written cell by cell, and the repairs and the boot     *)
(* loader at every start implement a store in which a save takes effect as *)
(* a whole: whenever the power fails, a start finds the settings of the    *)
(* last save or, if that has not returned, of the one before, and never a  *)
(* mixture of two or older ones.                                           *)
StoreSpec == SS!SSSpec

(* "main collapsed, backup correct, copy data from back up to main"        *)
(* (mico_system_para_storage.c:239): the settings in RAM after the read    *)
(* are those of the whole copy.                                            *)
CopiedFromBackup ==
    stage = "check" /\ blame = {} =>
        ram.sys = Effective.sys /\ ram.user = Effective.user
=============================================================================
