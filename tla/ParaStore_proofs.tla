-------------------------- MODULE ParaStore_proofs --------------------------
(***************************************************************************)
(* Proofs about the settings store, for any number of threads, of saves,   *)
(* of power failures and of flash errors.                                  *)
(***************************************************************************)
EXTENDS ParaStore, TLAPS

(* A CRC that a save wrote names that save and, maybe, an earlier one.     *)
Known == (0 .. saves) \X Nat
Reads == {"recover", "check", "default", "up"}     (* ram holds settings     *)

NumberInv ==
    /\ \A q \in Partition : flash[q].crc \in Known \cup {Blank, Torn, Zero}
    /\ kept.crc \in Known \cup {Blank, Torn, Zero}
    /\ \A p \in Thread : Active(p) =>
          /\ job[p].crc \in Known \cup {Zero}
          /\ job[p].crc # Zero => job[p].crc[1] <= ram.sys
    /\ stage \in Reads => ram.sys \in 0 .. saves
    /\ stage \in {"default", "up"} => ram.user \in Nat

ControlInv ==
    /\ Active(Boot) <=> stage \in {"recover", "default"}
    /\ \A p \in Thread : p # Boot /\ Active(p) => stage = "up"

(* What the partition that p writes holds so far.                          *)
Tracked(p) ==
    LET c == flash[job[p].part]
    IN  /\ job[p].cell = "sys" => c = Erased
        /\ job[p].cell = "user" => c.sys = ram.sys /\ c.user = Blank /\ c.crc = Blank
        /\ job[p].cell = "crc" => c.sys = ram.sys /\ c.user = ram.user /\ c.crc = Blank

BootInv ==
    Active(Boot) => /\ job[Boot].crc # Zero => job[Boot].crc[1] = ram.sys
                    /\ Tracked(Boot)

TypeInv == TypeOK /\ NumberInv /\ ControlInv /\ BootInv

-----------------------------------------------------------------------------
(* While nothing is to blame: the one job under way either writes ram to   *)
(* both partitions, and the one it does not write is whole, or is the      *)
(* repair of main from the backup.                                         *)
JobInv ==
    \A p \in Thread : Active(p) =>
       /\ \A q \in Thread : Active(q) => q = p
       /\ Tracked(p)
       /\ job[p].crc # Zero => job[p].crc[1] >= acked
       /\ job[p].part = "main" => Whole(flash["backup"])
       /\ \/ /\ job[p].last = "backup"
             /\ job[p].crc = Crc(ram.sys, ram.user)
             /\ job[p].part = "backup" =>
                   Whole(flash["main"]) /\ flash["main"].crc = job[p].crc
             /\ stage = "recover" => job[p].part = "backup"
          \/ /\ job[p].last = "main" /\ job[p].part = "main"
             /\ job[p].crc = flash["backup"].crc
             /\ stage = "recover"

CopyInv ==
    /\ Whole(flash["main"]) \/ Whole(flash["backup"])
    /\ stage \in {"ldErase", "ldWrite", "check", "stopped"} => Whole(flash["backup"])
    /\ stage = "up" /\ (\A p \in Thread : ~Active(p)) => Whole(flash["backup"])
    /\ \A q \in Partition : Whole(flash[q]) => flash[q].sys >= acked
    /\ stage \in {"ldErase", "ldWrite"} /\ Whole(kept) => kept.sys >= acked

RamInv ==
    /\ stage \in Reads => ram.sys >= acked
    /\ stage = "check" => ram.sys = Effective.sys

WholeInv ==
    whole => /\ stage \in {"loader", "read"} => Whole(flash["main"])
             /\ stage \in {"ldErase", "ldWrite"} => Whole(kept)
             /\ stage \in {"recover", "check"} => ram.user \in Nat

SafeInv == blame = {} => JobInv /\ CopyInv /\ RamInv /\ WholeInv
Jobs   == [part : Partition, cell : Cell \cup {"idle"}, last : Partition, crc : Sum]
Ram    == [sys : Part, user : Part, boot : BOOLEAN]
Blames == {"new", "overlap", "error", "loader"}
Stages == {"loader", "ldErase", "ldWrite", "read", "recover", "check", "default", "up",
           "stopped"}

-----------------------------------------------------------------------------
(* Lemmas on CRCs, cells and jobs.                                         *)

LEMMA Constants ==
    /\ Boot \in Thread
    /\ "main" \in Partition /\ "backup" \in Partition
    /\ Blank \in Part /\ Torn \in Part /\ \A n \in Nat : n \in Part
    /\ Blank \in Sum /\ Torn \in Sum /\ Zero \in Sum
    /\ Erased \in Copy /\ TornCopy \in Copy /\ NoRam \in Ram /\ Idle \in Jobs
  BY DEF Thread, Partition, Part, Sum, Copy, Ram, Jobs, Erased, TornCopy, NoRam, Idle, Cell

LEMMA CrcType ==
    ASSUME NEW s \in Part, NEW u \in Part
    PROVE  Crc(s, u) \in Sum /\ Crc(s, u) \in {Zero, <<s, u>>}
  BY DEF Crc, Sum, Image, Part

(* The CRC of a whole copy is the one of a save, whose parts it names.     *)
LEMMA WholeCopy ==
    ASSUME NEW n \in Nat, NEW c \in Copy, Whole(c),
           c.crc \in ((0 .. n) \X Nat) \cup {Blank, Torn, Zero}
    PROVE  /\ c.crc = <<c.sys, c.user>> /\ c.crc \in (0 .. n) \X Nat /\ c.crc # Zero
           /\ c.sys \in 0 .. n /\ c.user \in Nat
           /\ c.crc = Crc(c.sys, c.user) /\ c.crc[1] = c.sys /\ c.crc[2] = c.user
  <1>1. c.sys \in Part /\ c.user \in Part
    BY DEF Copy
  <1>2. Crc(c.sys, c.user) = c.crc /\ c.crc # Zero
    BY DEF Whole, CrcMatch
  <1>3. c.crc = <<c.sys, c.user>>
    BY <1>1, <1>2, CrcType
  <1>4. c.crc \in Image
    BY <1>1, <1>3 DEF Image, Part
  <1>5. c.crc \in (0 .. n) \X Nat
    BY <1>2, <1>4, ParaStoreAssumption
  <1> QED
    BY <1>2, <1>3, <1>5

(* A copy with an erased or torn cell is not whole.                        *)
LEMMA TornNotWhole ==
    ASSUME NEW n \in Nat, NEW c \in Copy, c.crc \in ((0 .. n) \X Nat) \cup {Blank, Torn, Zero},
           c.sys \in {Blank, Torn} \/ c.user \in {Blank, Torn} \/ c.crc \in {Blank, Torn, Zero}
    PROVE  ~Whole(c)
  <1>1. ASSUME Whole(c) PROVE FALSE
    <2>1. c.crc \in (0 .. n) \X Nat /\ c.crc # Zero /\ c.sys \in 0 .. n /\ c.user \in Nat
      BY <1>1, WholeCopy
    <2>2. c.crc \in Image
      BY <2>1 DEF Image
    <2> QED
      BY <2>1, <2>2, ParaStoreAssumption
  <1> QED
    BY <1>1

LEMMA ProgramPart ==
    ASSUME NEW a \in Part, NEW b \in Part PROVE Program(a, b) \in Part
  BY DEF Program, Part

LEMMA JobPart ==
    ASSUME TypeOK, NEW p \in Thread
    PROVE  job[p] \in Jobs /\ job[p].part \in Partition /\ job[p].last \in Partition
           /\ job[p].crc \in Sum /\ flash[job[p].part] \in Copy
  BY DEF TypeOK, Jobs

-----------------------------------------------------------------------------
(* What the steps of a job do to the jobs and to the flash.                *)

LEMMA FlashStepForm ==
    ASSUME TypeInv, NEW p \in Thread, FlashStep(p)
    PROVE  /\ Active(p)
           /\ job' \in [Thread -> Jobs] /\ \A o \in Thread : o # p => job'[o] = job[o]
           /\ UNCHANGED <<ram, changed, kept, saves, counters, whole>>
           /\ flash' \in [Partition -> Copy]
           /\ \A r \in Partition : r # job[p].part => flash'[r] = flash[r]
           /\ flash'[job[p].part].crc \in {flash[job[p].part].crc, Blank, Torn, job[p].crc}
           /\ Active(p)' => job'[p].crc = job[p].crc /\ stage' = stage
           /\ ~Active(p)' => stage' \in IF p # Boot THEN {stage}
                                        ELSE IF stage = "recover" THEN {"check"}
                                        ELSE {"up", "stopped"}
  <1>1. /\ TypeOK /\ job \in [Thread -> Jobs] /\ flash \in [Partition -> Copy]
        /\ ram.sys \in Part /\ ram.user \in Part
        /\ job[p].part \in Partition /\ job[p].last \in Partition /\ job[p].crc \in Sum
        /\ job[p] \in Jobs
    BY JobPart DEF TypeInv, TypeOK, Jobs, Ram
  <1>2. ASSUME NEW j \in Jobs, job' = [job EXCEPT ![p] = j]
        PROVE  job' \in [Thread -> Jobs] /\ job'[p] = j
               /\ \A o \in Thread : o # p => job'[o] = job[o]
    BY <1>1, <1>2
  <1>3. ASSUME NEW c \in Copy, flash' = [flash EXCEPT ![job[p].part] = c]
        PROVE  flash' \in [Partition -> Copy] /\ flash'[job[p].part] = c
               /\ \A r \in Partition : r # job[p].part => flash'[r] = flash[r]
    BY <1>1, <1>3
  <1>4. ASSUME NEW cell \in Cell, Advance(p, cell)
        PROVE  /\ job' \in [Thread -> Jobs] /\ \A o \in Thread : o # p => job'[o] = job[o]
               /\ Active(p)' /\ job'[p].crc = job[p].crc
    <2>1. [job[p] EXCEPT !.cell = cell] \in Jobs
      BY <1>1 DEF Jobs
    <2>2. job' = [job EXCEPT ![p] = [job[p] EXCEPT !.cell = cell]]
      BY <1>1, <1>4 DEF Advance
    <2>3. job'[p] = [job[p] EXCEPT !.cell = cell]
      BY <1>2, <2>1, <2>2
    <2>4. Active(p)' /\ job'[p].crc = job[p].crc
      BY <1>1, <2>3 DEF Active, Cell, Jobs
    <2> QED
      BY <1>2, <2>1, <2>2, <2>4
  <1>5. CASE Erase(p)
    <2>1. flash' = [flash EXCEPT ![job[p].part] = Erased]
      BY <1>5 DEF Erase
    <2>2. Erased.crc = Blank
      BY DEF Erased
    <2> QED
      BY <1>3, <1>4, <1>5, <2>1, <2>2, Constants DEF Erase, Active, Cell
  <1>6. CASE WriteSys(p)
    <2> DEFINE c == [flash[job[p].part] EXCEPT !.sys = Program(@, ram.sys)]
    <2>1. flash' = [flash EXCEPT ![job[p].part] = c]
      BY <1>1, <1>6 DEF WriteSys
    <2>2. c \in Copy /\ c.crc = flash[job[p].part].crc
      BY <1>1, ProgramPart DEF Copy
    <2> HIDE DEF c
    <2> QED
      BY <1>3, <1>4, <1>6, <2>1, <2>2 DEF WriteSys, Active, Cell
  <1>7. CASE WriteUser(p)
    <2> DEFINE c == [flash[job[p].part] EXCEPT !.user = Program(@, ram.user)]
    <2>1. flash' = [flash EXCEPT ![job[p].part] = c]
      BY <1>1, <1>7 DEF WriteUser
    <2>2. c \in Copy /\ c.crc = flash[job[p].part].crc
      BY <1>1, ProgramPart DEF Copy
    <2> HIDE DEF c
    <2> QED
      BY <1>3, <1>4, <1>7, <2>1, <2>2 DEF WriteUser, Active, Cell
  <1>8. CASE WriteCrc(p)
    <2> DEFINE c == [flash[job[p].part] EXCEPT !.crc = Program(@, job[p].crc)]
    <2>1. flash' = [flash EXCEPT ![job[p].part] = c]
      BY <1>1, <1>8 DEF WriteCrc
    <2>2. c \in Copy /\ c.crc \in {job[p].crc, Torn}
      BY <1>1, Constants DEF Copy, Program
    <2> HIDE DEF c
    <2>3. \/ \E ok \in BOOLEAN : Return(p, ok)
          \/ /\ job' = [job EXCEPT ![p] = [job[p] EXCEPT !.part = "backup", !.cell = "erase"]]
             /\ stage' = stage
      BY <1>1, <1>8 DEF WriteCrc
    <2>4. CASE \E ok \in BOOLEAN : Return(p, ok)
      <3>1. job' = [job EXCEPT ![p] = Idle]
        BY <2>4 DEF Return
      <3>2. job'[p] = Idle /\ job' \in [Thread -> Jobs]
            /\ \A o \in Thread : o # p => job'[o] = job[o]
        BY <1>2, <3>1, Constants
      <3>3. ~Active(p)'
        BY <3>2 DEF Active, Idle
      <3>4. stage' \in IF p # Boot THEN {stage}
                       ELSE IF stage = "recover" THEN {"check"} ELSE {"up", "stopped"}
        BY <2>4 DEF Return
      <3> QED
        BY <1>3, <1>8, <2>1, <2>2, <3>2, <3>3, <3>4 DEF WriteCrc, Active
    <2>5. CASE /\ job' = [job EXCEPT ![p] = [job[p] EXCEPT !.part = "backup", !.cell = "erase"]]
               /\ stage' = stage
      <3>1. [job[p] EXCEPT !.part = "backup", !.cell = "erase"] \in Jobs
        BY <1>1, Constants DEF Jobs, Cell
      <3>2. job'[p] = [job[p] EXCEPT !.part = "backup", !.cell = "erase"]
            /\ job' \in [Thread -> Jobs] /\ \A o \in Thread : o # p => job'[o] = job[o]
        BY <1>2, <2>5, <3>1
      <3>3. Active(p)' /\ job'[p].crc = job[p].crc
        BY <1>1, <3>2 DEF Active, Jobs
      <3> QED
        BY <1>3, <1>8, <2>1, <2>2, <2>5, <3>2, <3>3 DEF WriteCrc, Active
    <2> QED
      BY <2>3, <2>4, <2>5
  <1> QED
    BY <1>5, <1>6, <1>7, <1>8 DEF FlashStep

LEMMA TrackedStep ==
    ASSUME TypeInv, NEW p \in Thread, FlashStep(p), Tracked(p), Active(p)'
    PROVE  Tracked(p)'
  <1>1. /\ job \in [Thread -> Jobs] /\ flash \in [Partition -> Copy]
        /\ job[p].part \in Partition /\ job[p] \in Jobs
        /\ flash[job[p].part] \in Copy
    BY JobPart DEF TypeInv, TypeOK, Jobs
  <1>2. ASSUME NEW cell \in Cell, Advance(p, cell)
        PROVE  job'[p].cell = cell /\ job'[p].part = job[p].part
    <2>1. job' = [job EXCEPT ![p] = [job[p] EXCEPT !.cell = cell]]
      BY <1>1, <1>2 DEF Advance
    <2>2. job'[p] = [job[p] EXCEPT !.cell = cell]
      BY <1>1, <2>1
    <2> QED
      BY <1>1, <2>2 DEF Jobs
  <1>3. CASE Erase(p)
    <2>1. flash'[job[p].part] = Erased
      BY <1>1, <1>3 DEF Erase
    <2>2. job'[p].cell = "sys" /\ job'[p].part = job[p].part
      BY <1>2, <1>3 DEF Erase, Cell
    <2> QED
      BY <2>1, <2>2 DEF Tracked
  <1>4. CASE WriteSys(p)
    <2>1. flash[job[p].part] = Erased /\ ram' = ram
      BY <1>4 DEF WriteSys, Tracked
    <2>2. flash'[job[p].part] = [Erased EXCEPT !.sys = ram.sys]
      BY <1>1, <1>4, <2>1 DEF WriteSys, Program, Erased
    <2>3. job'[p].cell = "user" /\ job'[p].part = job[p].part
      BY <1>2, <1>4 DEF WriteSys, Cell
    <2> QED
      BY <2>1, <2>2, <2>3 DEF Tracked, Erased
  <1>5. CASE WriteUser(p)
    <2>1. /\ flash[job[p].part].user = Blank /\ flash[job[p].part].sys = ram.sys
          /\ flash[job[p].part].crc = Blank /\ ram' = ram
      BY <1>5 DEF WriteUser, Tracked
    <2>2. flash'[job[p].part] = [flash[job[p].part] EXCEPT !.user = ram.user]
      BY <1>1, <1>5, <2>1 DEF WriteUser, Program
    <2>3. job'[p].cell = "crc" /\ job'[p].part = job[p].part
      BY <1>2, <1>5 DEF WriteUser, Cell
    <2> QED
      BY <1>1, <2>1, <2>2, <2>3 DEF Tracked, Copy
  <1>6. CASE WriteCrc(p)
    <2>1. job' = [job EXCEPT ![p] = Idle]
          \/ job' = [job EXCEPT ![p] = [job[p] EXCEPT !.part = "backup", !.cell = "erase"]]
      BY <1>1, <1>6 DEF WriteCrc, Return
    <2>2. job'[p].cell \in {"idle", "erase"}
      <3>1. job'[p] = Idle \/ job'[p] = [job[p] EXCEPT !.part = "backup", !.cell = "erase"]
        BY <1>1, <2>1
      <3>2. CASE job'[p] = Idle
        BY <3>2 DEF Idle
      <3>3. CASE job'[p] = [job[p] EXCEPT !.part = "backup", !.cell = "erase"]
        BY <1>1, <3>3 DEF Jobs
      <3> QED
        BY <3>1, <3>2, <3>3
    <2> QED
      BY <2>2 DEF Tracked
  <1> QED
    BY <1>3, <1>4, <1>5, <1>6 DEF FlashStep

(* What the write of a CRC leaves in the partition, and what comes next.   *)
LEMMA CrcWritten ==
    ASSUME TypeInv, NEW p \in Thread, WriteCrc(p)
    PROVE  /\ Tracked(p) => flash'[job[p].part] =
                               [sys |-> ram.sys, user |-> ram.user, crc |-> job[p].crc]
           /\ ~Active(p)' => \/ job[p].last = job[p].part
                             \/ job[p].part # job[p].last /\ flash'[job[p].part].crc = Zero
           /\ Active(p)' => /\ job[p].part # job[p].last
                            /\ flash'[job[p].part].crc # Zero
                            /\ job'[p].part = "backup" /\ job'[p].last = job[p].last
           /\ job[p].last = job[p].part /\ job[p].crc # Zero => acked' = job[p].crc[1]
           /\ job[p].last # job[p].part \/ job[p].crc = Zero => acked' = acked
           /\ blame' = blame \/ (blame' = {} /\ Settled(p) /\ job[p].last = job[p].part)
           /\ bootTable' = bootTable
  <1>1. /\ job \in [Thread -> Jobs] /\ flash \in [Partition -> Copy]
        /\ job[p].part \in Partition /\ job[p] \in Jobs
        /\ flash[job[p].part] \in Copy
    BY JobPart DEF TypeInv, TypeOK, Jobs
  <1> DEFINE c == [flash[job[p].part] EXCEPT !.crc = Program(@, job[p].crc)]
  <1>2. flash'[job[p].part] = c
    BY <1>1 DEF WriteCrc
  <1>3. Tracked(p) => flash'[job[p].part] =
                         [sys |-> ram.sys, user |-> ram.user, crc |-> job[p].crc]
    <2> SUFFICES ASSUME Tracked(p)
                 PROVE  c = [sys |-> ram.sys, user |-> ram.user, crc |-> job[p].crc]
      BY <1>2
    <2>1. flash[job[p].part].sys = ram.sys /\ flash[job[p].part].user = ram.user
          /\ flash[job[p].part].crc = Blank
      BY DEF Tracked, WriteCrc
    <2> QED
      BY <1>1, <2>1 DEF Copy, Program
  <1> HIDE DEF c
  <1>4. CASE job[p].last = job[p].part \/ flash'[job[p].part].crc = Zero
    <2>1. job' = [job EXCEPT ![p] = Idle]
      BY <1>1, <1>4 DEF WriteCrc, Return
    <2>2. ~Active(p)'
      BY <1>1, <2>1 DEF Active, Idle
    <2> QED
      BY <1>3, <1>4, <2>2 DEF WriteCrc
  <1>5. CASE ~(job[p].last = job[p].part \/ flash'[job[p].part].crc = Zero)
    <2>1. job' = [job EXCEPT ![p] = [job[p] EXCEPT !.part = "backup", !.cell = "erase"]]
      BY <1>1, <1>5 DEF WriteCrc
    <2>2. job'[p].part = "backup" /\ job'[p].last = job[p].last /\ Active(p)'
      BY <1>1, <2>1 DEF Active, Jobs
    <2> QED
      BY <1>3, <1>5, <2>2 DEF WriteCrc
  <1> QED
    BY <1>4, <1>5

LEMMA FlashStepType ==
    ASSUME TypeInv, NEW p \in Thread, FlashStep(p) PROVE TypeInv'
  <1> USE FlashStepForm
  <1>1. /\ TypeOK /\ NumberInv /\ ControlInv /\ BootInv /\ saves \in Nat
    BY DEF TypeInv, TypeOK
  <1>2. job[p].crc \in Known \cup {Zero} /\ (job[p].crc # Zero => job[p].crc[1] \in Nat)
    BY <1>1 DEF NumberInv, Known
  <1>3. acked' \in Nat /\ bootTable' \in BOOLEAN /\ blame' \subseteq Blames
    <2>1. CASE WriteCrc(p)
      BY <1>1, <1>2, <2>1, CrcWritten DEF TypeOK, Blames
    <2>2. CASE Erase(p) \/ WriteSys(p) \/ WriteUser(p)
      BY <1>1, <2>2 DEF Erase, WriteSys, WriteUser, TypeOK, Blames
    <2> QED
      BY <2>1, <2>2 DEF FlashStep
  <1>4. stage' \in Stages
    BY <1>1 DEF TypeOK, Stages
  <1>5. TypeOK'
    BY <1>1, <1>3, <1>4 DEF TypeOK, Jobs, Stages, Blames, counters
  <1>6. Known' = Known
    BY DEF Known
  <1>7. (stage = "up" /\ p # Boot) \/ (stage \in {"recover", "default"} /\ p = Boot)
    BY <1>1 DEF ControlInv
  <1>8. NumberInv'
    <2>1. \A q \in Partition : flash'[q].crc \in Known \cup {Blank, Torn, Zero}
      BY <1>1, <1>2 DEF NumberInv
    <2>2. \A o \in Thread : Active(o)' =>
              /\ job'[o].crc \in Known \cup {Zero}
              /\ job'[o].crc # Zero => job'[o].crc[1] <= ram.sys
      BY <1>1 DEF NumberInv, Active
    <2>3. ram.sys \in 0 .. saves /\ (stage' \in {"default", "up"} => ram.user \in Nat)
      BY <1>1, <1>7 DEF NumberInv, Reads
    <2> QED
      BY <1>1, <1>6, <2>1, <2>2, <2>3 DEF NumberInv
  <1>9. ControlInv'
    BY <1>1, <1>7, Constants DEF ControlInv, Active
  <1>10. BootInv'
    <2> SUFFICES ASSUME Active(Boot)'
                 PROVE  (job'[Boot].crc # Zero => job'[Boot].crc[1] = ram'.sys)
                        /\ Tracked(Boot)'
      BY DEF BootInv
    <2>1. p = Boot
      BY <1>7, <1>9 DEF ControlInv
    <2> QED
      BY <1>1, <2>1, TrackedStep DEF BootInv
  <1> QED
    BY <1>5, <1>8, <1>9, <1>10 DEF TypeInv

-----------------------------------------------------------------------------
(* Faults.                                                                 *)

LEMMA TornFlashForm ==
    ASSUME TypeOK, NEW T, flash' = TornFlash(T)
    PROVE  /\ flash' \in [Partition -> Copy]
           /\ \A q \in Partition :
                 /\ \/ flash'[q] = flash[q]
                    \/ /\ \E p \in T : job[p].part = q
                       /\ Torn \in {flash'[q].sys, flash'[q].user, flash'[q].crc}
                 /\ flash'[q].crc \in {flash[q].crc, Torn}
  <1>1. ASSUME NEW q \in Partition
        PROVE  /\ flash'[q] \in Copy
               /\ \/ flash'[q] = flash[q]
                  \/ /\ \E p \in T : job[p].part = q
                     /\ Torn \in {flash'[q].sys, flash'[q].user, flash'[q].crc}
               /\ flash'[q].crc \in {flash[q].crc, Torn}
    <2>1. flash'[q] = [sys  |-> IF Hit(T, q, "sys")  THEN Torn ELSE flash[q].sys,
                       user |-> IF Hit(T, q, "user") THEN Torn ELSE flash[q].user,
                       crc  |-> IF Hit(T, q, "crc")  THEN Torn ELSE flash[q].crc]
      BY DEF TornFlash
    <2>2. flash[q] \in Copy
      BY DEF TypeOK
    <2>3. flash'[q] \in Copy
      BY <2>1, <2>2, Constants DEF Copy
    <2>4. CASE Hit(T, q, "sys") \/ Hit(T, q, "user") \/ Hit(T, q, "crc")
      <3>1. \E p \in T : job[p].part = q
        BY <2>4 DEF Hit
      <3> QED
        BY <2>1, <2>3, <2>4, <3>1
    <2>5. CASE ~(Hit(T, q, "sys") \/ Hit(T, q, "user") \/ Hit(T, q, "crc"))
      BY <2>1, <2>2, <2>3, <2>5 DEF Copy
    <2> QED
      BY <2>4, <2>5
  <1>2. flash' = [q \in Partition |-> flash'[q]]
    BY DEF TornFlash
  <1> QED
    BY <1>1, <1>2

LEMMA TornTableType ==
    ASSUME TypeOK, NEW T PROVE \A b \in TornTable(T) : b \in BOOLEAN
  BY DEF TypeOK, TornTable

LEMMA FlashErrorType ==
    ASSUME TypeInv, NEW p \in Thread, FlashError(p) PROVE TypeInv'
  <1>1. /\ TypeOK /\ NumberInv /\ ControlInv /\ BootInv /\ job \in [Thread -> Jobs]
    BY DEF TypeInv, TypeOK, Jobs
  <1>2. PICK T \in SUBSET {p} : flash' = TornFlash(T) /\ bootTable' \in TornTable(T)
    BY DEF FlashError
  <1>3. flash' \in [Partition -> Copy]
        /\ \A q \in Partition : flash'[q].crc \in {flash[q].crc, Torn}
    BY <1>1, <1>2, TornFlashForm
  <1>4. bootTable' \in BOOLEAN
    BY <1>1, <1>2, TornTableType
  <1>5. /\ job' = [job EXCEPT ![p] = Idle]
        /\ stage' = IF p # Boot THEN stage
                    ELSE IF stage = "recover" THEN "check" ELSE "stopped"
    BY DEF FlashError, Return
  <1>6. /\ job' \in [Thread -> Jobs] /\ ~Active(p)'
        /\ \A o \in Thread : o # p => job'[o] = job[o]
    BY <1>1, <1>5, Constants DEF Active, Idle
  <1>7. (stage = "up" /\ p # Boot) \/ (stage \in {"recover", "default"} /\ p = Boot)
    BY <1>1 DEF ControlInv, FlashError
  <1>8. UNCHANGED <<ram, changed, kept, saves, restarts, acked, whole>>
        /\ errors' \in Nat /\ blame' \subseteq Blames
    BY <1>1 DEF FlashError, TypeOK, Blames
  <1>9. TypeOK'
    BY <1>1, <1>3, <1>4, <1>5, <1>6, <1>8 DEF TypeOK, Jobs, Blames
  <1>10. Known' = Known
    BY <1>8 DEF Known
  <1>11. NumberInv'
    <2>1. \A q \in Partition : flash'[q].crc \in Known \cup {Blank, Torn, Zero}
      BY <1>1, <1>3 DEF NumberInv
    <2>2. \A o \in Thread : Active(o)' =>
              /\ job'[o].crc \in Known \cup {Zero}
              /\ job'[o].crc # Zero => job'[o].crc[1] <= ram.sys
      BY <1>1, <1>6 DEF NumberInv, Active
    <2> QED
      BY <1>1, <1>5, <1>7, <1>8, <1>10, <2>1, <2>2 DEF NumberInv, Reads
  <1>12. ControlInv'
    BY <1>1, <1>5, <1>6, <1>7, Constants DEF ControlInv, Active
  <1>13. BootInv'
    BY <1>5, <1>6, <1>7, <1>12, Constants DEF BootInv, ControlInv
  <1> QED
    BY <1>9, <1>11, <1>12, <1>13 DEF TypeInv

(* Whatever starts the boot loader: all threads and ram are gone.          *)
LEMMA RestartType ==
    ASSUME TypeInv, PowerFail PROVE TypeInv'
  <1>1. /\ TypeOK /\ NumberInv
        /\ job' = [p \in Thread |-> Idle] /\ ram' = NoRam /\ stage' = "loader"
        /\ kept' = Erased /\ changed' = {} /\ UNCHANGED <<saves, errors, acked, blame>>
    BY DEF TypeInv, PowerFail
  <1>2. /\ flash' \in [Partition -> Copy] /\ bootTable' \in BOOLEAN
        /\ \A q \in Partition : flash'[q].crc \in {flash[q].crc, Torn}
    <2>1. CASE /\ flash' \in {flash, [flash EXCEPT !["main"] = TornCopy]}
               /\ bootTable' \in {bootTable, FALSE}
      <3>1. TornCopy.crc = Torn
        BY DEF TornCopy
      <3>2. flash \in [Partition -> Copy] /\ bootTable \in BOOLEAN
        BY <1>1 DEF TypeOK
      <3>3. CASE flash' = flash
        BY <2>1, <3>2, <3>3
      <3>4. CASE flash' = [flash EXCEPT !["main"] = TornCopy]
        BY <2>1, <3>1, <3>2, <3>4, Constants
      <3> QED
        BY <2>1, <3>3, <3>4
    <2>2. ASSUME NEW T \in SUBSET {p \in Thread : Active(p)},
                 flash' = TornFlash(T), bootTable' \in TornTable(T)
          PROVE  /\ flash' \in [Partition -> Copy] /\ bootTable' \in BOOLEAN
                 /\ \A q \in Partition : flash'[q].crc \in {flash[q].crc, Torn}
      BY <1>1, <2>2, TornFlashForm, TornTableType
    <2> QED
      BY <2>1, <2>2 DEF PowerFail
  <1>3. \A p \in Thread : job'[p] = Idle /\ ~Active(p)'
    BY <1>1 DEF Active, Idle
  <1>4. job' \in [Thread -> Jobs]
    BY <1>1, Constants
  <1>5. whole' \in BOOLEAN /\ restarts' \in Nat
    BY <1>1 DEF PowerFail, Whole, CrcMatch, TypeOK
  <1>6. TypeOK'
    BY <1>1, <1>2, <1>4, <1>5, Constants DEF TypeOK, Jobs, Ram
  <1>7. NumberInv'
    BY <1>1, <1>2, <1>3 DEF NumberInv, Known, Reads, Erased
  <1> QED
    BY <1>1, <1>3, <1>6, <1>7, Constants DEF TypeInv, ControlInv, BootInv

-----------------------------------------------------------------------------
(* The steps that start a job.                                             *)

LEMMA SaveForm ==
    ASSUME TypeOK, saves' \in Nat, saves <= saves', NEW p \in Thread,
           NEW s \in 0 .. saves', NEW u \in Nat, NEW b \in BOOLEAN, StartSave(p, s, u, b)
    PROVE  /\ job' \in [Thread -> Jobs] /\ ram' \in Ram
           /\ ram'.sys = s /\ ram'.user = u
           /\ \A o \in Thread : o # p => job'[o] = job[o]
           /\ job'[p] = Job("main", "backup", Crc(s, u)) /\ Active(p)' /\ Tracked(p)'
           /\ job'[p].part = "main" /\ job'[p].last = "backup" /\ job'[p].crc = Crc(s, u)
           /\ job'[p].crc \in Known' \cup {Zero}
           /\ job'[p].crc # Zero => job'[p].crc[1] = s
  <1>1. /\ job \in [Thread -> Jobs] /\ ram' = [sys |-> s, user |-> u, boot |-> b]
        /\ job' = [job EXCEPT ![p] = Job("main", "backup", Crc(s, u))]
    BY DEF TypeOK, Jobs, StartSave
  <1>2. s \in Part /\ u \in Part
    BY Constants
  <1>3. Crc(s, u) \in Known' \cup {Zero} /\ (Crc(s, u) # Zero => Crc(s, u)[1] = s)
    BY DEF Crc, Known
  <1>4. Crc(s, u) \in Sum
    BY <1>2, CrcType
  <1>5. Job("main", "backup", Crc(s, u)) \in Jobs
    BY <1>4 DEF Job, Jobs, Partition, Cell
  <1>6. job'[p] = Job("main", "backup", Crc(s, u)) /\ job' \in [Thread -> Jobs]
        /\ \A o \in Thread : o # p => job'[o] = job[o]
    BY <1>1, <1>5
  <1>7. job'[p].part = "main" /\ job'[p].cell = "erase" /\ job'[p].last = "backup"
        /\ job'[p].crc = Crc(s, u)
    BY <1>6 DEF Job
  <1>8. Active(p)' /\ Tracked(p)'
    BY <1>7 DEF Active, Tracked
  <1>9. ram' \in Ram /\ ram'.sys = s /\ ram'.user = u
    BY <1>1, <1>2 DEF Ram
  <1> QED
    BY <1>3, <1>6, <1>7, <1>8, <1>9

(* The jobs of the others keep their numbers when saves and ram grow.      *)
LEMMA OthersNumber ==
    ASSUME TypeOK, NumberInv, NEW o \in Thread, Active(o), stage \in Reads,
           job'[o] = job[o], saves <= saves', saves' \in Nat, ram'.sys \in Nat,
           ram.sys <= ram'.sys
    PROVE  /\ job'[o].crc \in Known' \cup {Zero}
           /\ job'[o].crc # Zero => job'[o].crc[1] <= ram'.sys
  <1>1. job[o].crc \in Known \cup {Zero} /\ (job[o].crc # Zero => job[o].crc[1] <= ram.sys)
        /\ ram.sys \in Nat
    BY DEF NumberInv
  <1>2. Known \subseteq Known'
    BY DEF TypeOK, Known
  <1>3. CASE job[o].crc = Zero
    BY <1>1, <1>3
  <1>4. CASE job[o].crc # Zero
    <2>1. job[o].crc[1] \in Nat
      BY <1>1, <1>4 DEF Known
    <2> QED
      BY <1>1, <1>2, <1>4, <2>1
  <1> QED
    BY <1>3, <1>4

LEMMA KnownGrows ==
    ASSUME TypeOK, NumberInv, saves <= saves', saves' \in Nat,
           UNCHANGED <<flash, kept>>
    PROVE  /\ \A q \in Partition : flash'[q].crc \in Known' \cup {Blank, Torn, Zero}
           /\ kept'.crc \in Known' \cup {Blank, Torn, Zero}
  <1>1. Known \subseteq Known'
    BY DEF TypeOK, Known
  <1> QED
    BY <1>1 DEF NumberInv

LEMMA SaveType ==
    ASSUME TypeInv, NEW p \in Thread, p # Boot,
           (p \in Locker /\ Save(p)) \/ (p \in Unlocked /\ SaveUnlocked(p))
    PROVE  TypeInv'
  <1>1. /\ TypeOK /\ NumberInv /\ ControlInv /\ BootInv /\ ram \in Ram /\ saves \in Nat
    BY DEF TypeInv, TypeOK, Ram
  <1>2. /\ stage = "up" /\ stage' = "up" /\ saves' \in Nat /\ saves <= saves'
        /\ UNCHANGED <<flash, bootTable, kept, counters, acked, whole>>
        /\ changed' \subseteq changed /\ blame' \subseteq Blames
    <2>1. /\ stage = "up" /\ stage' = stage /\ saves' \in {saves, saves + 1}
          /\ UNCHANGED <<flash, bootTable, kept, counters, acked, whole>>
          /\ changed' \subseteq changed /\ blame' \in {blame, blame \cup {"overlap"}}
      BY DEF Save, SaveUnlocked, Fresh
    <2>2. saves' \in Nat /\ saves <= saves'
      BY <1>1, <2>1
    <2>3. blame' \subseteq Blames
      BY <1>1, <2>1 DEF TypeOK, Blames
    <2> QED
      BY <2>1, <2>2, <2>3
  <1>3. ram.sys \in 0 .. saves /\ ram.user \in Nat
    BY <1>1, <1>2 DEF NumberInv, Reads
  <1>4. PICK s \in 0 .. saves', u \in Nat, b \in BOOLEAN :
               StartSave(p, s, u, b) /\ ram.sys <= s
    <2>1. CASE Save(p)
      <3>1. Fresh \in 0 .. saves' /\ Fresh \in Nat /\ ram.sys <= Fresh
        BY <1>1, <1>3, <2>1 DEF Save, Fresh
      <3>2. ram.boot \in BOOLEAN
        BY <1>1 DEF Ram
      <3> QED
        BY <1>3, <2>1, <3>1, <3>2 DEF Save
    <2>2. CASE SaveUnlocked(p)
      <3>1. ram.boot \in BOOLEAN /\ saves' = saves
        BY <1>1, <2>2 DEF Ram, SaveUnlocked
      <3> QED
        BY <1>3, <2>2, <3>1 DEF SaveUnlocked
    <2> QED
      BY <2>1, <2>2
  <1>5. /\ job' \in [Thread -> Jobs] /\ ram' \in Ram /\ ram'.sys = s /\ ram'.user = u
        /\ \A o \in Thread : o # p => job'[o] = job[o]
        /\ job'[p].crc \in Known' \cup {Zero} /\ Active(p)'
        /\ job'[p].crc # Zero => job'[p].crc[1] = s
    BY <1>1, <1>2, <1>4, SaveForm
  <1>6. TypeOK'
    BY <1>1, <1>2, <1>5 DEF TypeOK, Jobs, Ram, Blames, counters
  <1>7. NumberInv'
    <2>1. \A o \in Thread : Active(o)' =>
              /\ job'[o].crc \in Known' \cup {Zero}
              /\ job'[o].crc # Zero => job'[o].crc[1] <= ram'.sys
      <3>1. ASSUME NEW o \in Thread, Active(o)', o # p
            PROVE  /\ job'[o].crc \in Known' \cup {Zero}
                   /\ job'[o].crc # Zero => job'[o].crc[1] <= ram'.sys
        <4>1. Active(o) /\ job'[o] = job[o]
          BY <1>5, <3>1 DEF Active
        <4> QED
          BY <1>1, <1>2, <1>4, <1>5, <4>1, OthersNumber DEF Reads
      <3> QED
        BY <1>4, <1>5, <3>1
    <2>2. ram'.sys \in 0 .. saves' /\ ram'.user \in Nat
      BY <1>5
    <2>3. /\ \A q \in Partition : flash'[q].crc \in Known' \cup {Blank, Torn, Zero}
          /\ kept'.crc \in Known' \cup {Blank, Torn, Zero}
      BY <1>1, <1>2, KnownGrows
    <2> QED
      BY <2>1, <2>2, <2>3 DEF NumberInv
  <1>8. ControlInv' /\ BootInv'
    BY <1>1, <1>2, <1>5, Constants DEF ControlInv, BootInv, Active
  <1> QED
    BY <1>6, <1>7, <1>8 DEF TypeInv

LEMMA ChangeType ==
    ASSUME TypeInv, NEW p \in Unlocked, Change(p) PROVE TypeInv'
  <1>1. /\ TypeOK /\ NumberInv /\ ControlInv /\ BootInv /\ ram \in Ram /\ saves \in Nat
    BY DEF TypeInv, TypeOK, Ram
  <1>2. /\ stage = "up" /\ stage' = "up" /\ saves' = saves + 1
        /\ UNCHANGED <<flash, bootTable, job, kept, counters, acked, whole>>
        /\ changed' \subseteq Unlocked /\ blame' \subseteq Blames
    BY <1>1 DEF Change, Fresh, TypeOK, Blames
  <1>3. ram.sys \in 0 .. saves /\ ram.user \in Nat
    BY <1>1, <1>2 DEF NumberInv, Reads
  <1>4. PICK u \in {ram.user, Fresh} : ram' = [ram EXCEPT !.sys = Fresh, !.user = u]
    BY DEF Change
  <1>5. Fresh \in Nat /\ Fresh = saves' /\ u \in Nat
    BY <1>1, <1>2, <1>3, <1>4 DEF Fresh
  <1>6. ram'.sys = Fresh /\ ram'.user = u /\ ram' \in Ram
    BY <1>1, <1>4, <1>5, Constants DEF Ram
  <1>7. TypeOK'
    BY <1>1, <1>2, <1>5, <1>6 DEF TypeOK, Ram, Blames, counters
  <1>8. NumberInv'
    <2>1. \A o \in Thread : Active(o)' =>
              /\ job'[o].crc \in Known' \cup {Zero}
              /\ job'[o].crc # Zero => job'[o].crc[1] <= ram'.sys
      <3>1. saves <= saves' /\ saves' \in Nat /\ ram.sys <= ram'.sys /\ ram'.sys \in Nat
        BY <1>1, <1>2, <1>3, <1>5, <1>6
      <3> QED
        BY <1>1, <1>2, <3>1, OthersNumber DEF Active, Reads
    <2>2. ram'.sys \in 0 .. saves' /\ ram'.user \in Nat
      BY <1>5, <1>6
    <2>3. /\ \A q \in Partition : flash'[q].crc \in Known' \cup {Blank, Torn, Zero}
          /\ kept'.crc \in Known' \cup {Blank, Torn, Zero}
      BY <1>1, <1>2, KnownGrows
    <2> QED
      BY <2>1, <2>2, <2>3 DEF NumberInv
  <1>9. ControlInv' /\ BootInv'
    BY <1>1, <1>2, Constants DEF ControlInv, BootInv, Active
  <1> QED
    BY <1>7, <1>8, <1>9 DEF TypeInv

-----------------------------------------------------------------------------
(* The steps of the start, taken when no job is under way.                 *)

(* A stage without a job: its ram and numbers need not be looked at.       *)
LEMMA QuietType ==
    ASSUME TypeOK', NumberInv, \A o \in Thread : ~Active(o) /\ ~Active(o)',
           \A q \in Partition : flash'[q].crc \in {flash[q].crc, kept.crc, Blank, Torn},
           kept'.crc \in {kept.crc, flash["main"].crc}, saves' = saves,
           stage' \in {"ldErase", "ldWrite", "read"}
    PROVE  TypeInv'
  <1>1. Known' = Known
    BY DEF Known
  <1>2. NumberInv'
    BY <1>1, Constants DEF NumberInv, Reads
  <1>3. ControlInv' /\ BootInv'
    BY Constants DEF ControlInv, BootInv
  <1> QED
    BY <1>2, <1>3 DEF TypeInv

LEMMA LoaderType ==
    ASSUME TypeInv,
           LoaderSkips \/ LoaderReads \/ LoaderErases \/ LoaderWritesBack \/ LoaderError
    PROVE  TypeInv'
  <1>1. /\ TypeOK /\ NumberInv /\ ControlInv
        /\ flash \in [Partition -> Copy] /\ kept \in Copy /\ bootTable \in BOOLEAN
    BY DEF TypeInv, TypeOK
  <1>2. /\ UNCHANGED <<ram, job, changed, saves, restarts, acked, whole>>
        /\ stage \in {"loader", "ldErase", "ldWrite"}
        /\ stage' \in {"ldErase", "ldWrite", "read"}
        /\ errors' \in {errors, errors + 1}
        /\ blame' \in {blame, blame \cup {"error"}, blame \cup {"loader"}}
        /\ kept' \in {kept, flash["main"]}
        /\ bootTable' \in {bootTable, FALSE}
    BY DEF LoaderSkips, LoaderReads, LoaderErases, LoaderWritesBack, LoaderError, counters
  <1>3. \A o \in Thread : ~Active(o) /\ ~Active(o)'
    BY <1>1, <1>2 DEF ControlInv, Active
  <1>4. \/ flash' = flash
        \/ \E c \in {Erased, kept, TornCopy} : flash' = [flash EXCEPT !["main"] = c]
    BY DEF LoaderSkips, LoaderReads, LoaderErases, LoaderWritesBack, LoaderError
  <1>5. /\ flash' \in [Partition -> Copy]
        /\ \A q \in Partition : flash'[q].crc \in {flash[q].crc, kept.crc, Blank, Torn}
    <2>1. CASE flash' = flash
      BY <1>1, <2>1
    <2>2. ASSUME NEW c \in {Erased, kept, TornCopy}, flash' = [flash EXCEPT !["main"] = c]
          PROVE  /\ flash' \in [Partition -> Copy]
                 /\ \A q \in Partition : flash'[q].crc \in {flash[q].crc, kept.crc, Blank, Torn}
      <3>1. c \in Copy /\ c.crc \in {kept.crc, Blank, Torn}
        BY <1>1, <2>2, Constants DEF Erased, TornCopy
      <3> QED
        BY <1>1, <2>2, <3>1, Constants
    <2> QED
      BY <1>4, <2>1, <2>2
  <1>6. kept' \in Copy /\ kept'.crc \in {kept.crc, flash["main"].crc}
    BY <1>1, <1>2, Constants
  <1>7. blame' \subseteq Blames
    BY <1>1, <1>2 DEF TypeOK, Blames
  <1>8. errors' \in Nat
    BY <1>1, <1>2 DEF TypeOK
  <1>9. TypeOK'
    BY <1>1, <1>2, <1>5, <1>6, <1>7, <1>8 DEF TypeOK, Blames
  <1> QED
    BY <1>1, <1>2, <1>3, <1>5, <1>6, <1>9, QuietType

(* The defaults are saved.                                                 *)
LEMMA RestoreType ==
    ASSUME TypeInv, ReadNeither \/ CheckRestores PROVE TypeInv'
  <1>1. /\ TypeOK /\ NumberInv /\ ControlInv /\ saves \in Nat
        /\ UNCHANGED <<flash, bootTable, changed, kept, counters, acked, whole, blame>>
        /\ saves' = Fresh /\ StartSave(Boot, Fresh, Fresh, FALSE)
        /\ stage \in {"read", "check"} /\ stage' \in {"recover", "default"}
    BY DEF TypeInv, TypeOK, ReadNeither, CheckRestores, Restore
  <1>2. Fresh \in Nat /\ Fresh \in 0 .. saves' /\ saves <= saves' /\ saves' \in Nat
    BY <1>1 DEF Fresh
  <1>3. /\ job' \in [Thread -> Jobs] /\ ram' \in Ram /\ ram'.sys = Fresh /\ ram'.user = Fresh
        /\ \A o \in Thread : o # Boot => job'[o] = job[o]
        /\ Active(Boot)' /\ Tracked(Boot)'
        /\ job'[Boot].crc \in Known' \cup {Zero}
        /\ job'[Boot].crc # Zero => job'[Boot].crc[1] = Fresh
    BY <1>1, <1>2, SaveForm, Constants
  <1>4. \A o \in Thread : o # Boot => ~Active(o)'
    BY <1>1, <1>3 DEF ControlInv, Active
  <1>5. TypeOK'
    BY <1>1, <1>2, <1>3 DEF TypeOK, Jobs, Ram, counters
  <1>6. NumberInv'
    <2>1. /\ \A q \in Partition : flash'[q].crc \in Known' \cup {Blank, Torn, Zero}
          /\ kept'.crc \in Known' \cup {Blank, Torn, Zero}
      BY <1>1, <1>2, KnownGrows
    <2> QED
      BY <1>2, <1>3, <1>4, <2>1 DEF NumberInv
  <1>7. ControlInv' /\ BootInv'
    BY <1>1, <1>3, <1>4 DEF ControlInv, BootInv
  <1> QED
    BY <1>5, <1>6, <1>7 DEF TypeInv

(* The job that repairs a copy: its CRC is the one of the whole copy.      *)
LEMMA RepairForm ==
    ASSUME TypeInv, NEW q \in Partition, NEW src \in Partition, Whole(flash[src]),
           job' = [job EXCEPT ![Boot] = Job(q, q, flash[src].crc)]
    PROVE  /\ job' \in [Thread -> Jobs] /\ \A o \in Thread : o # Boot => job'[o] = job[o]
           /\ Active(Boot)' /\ Tracked(Boot)'
           /\ job'[Boot].part = q /\ job'[Boot].last = q
           /\ job'[Boot].crc = flash[src].crc
           /\ job'[Boot].crc = <<flash[src].sys, flash[src].user>>
           /\ flash[src].sys \in 0 .. saves /\ flash[src].user \in Nat
           /\ job'[Boot].crc \in Known /\ job'[Boot].crc[1] = flash[src].sys
           /\ job'[Boot].crc # Zero
           /\ job'[Boot].crc = Crc(flash[src].sys, flash[src].user)
  <1>1. /\ job \in [Thread -> Jobs] /\ flash[src] \in Copy /\ saves \in Nat
        /\ flash[src].crc \in Known \cup {Blank, Torn, Zero}
    BY DEF TypeInv, TypeOK, Jobs, NumberInv
  <1>2. /\ flash[src].crc = <<flash[src].sys, flash[src].user>>
        /\ flash[src].crc \in Known /\ flash[src].crc # Zero
        /\ flash[src].sys \in 0 .. saves /\ flash[src].user \in Nat
        /\ flash[src].crc = Crc(flash[src].sys, flash[src].user)
        /\ flash[src].crc[1] = flash[src].sys
    BY <1>1, WholeCopy DEF Known
  <1>3. Job(q, q, flash[src].crc) \in Jobs
    BY <1>1 DEF Job, Jobs, Cell, Copy
  <1>4. /\ job' \in [Thread -> Jobs] /\ \A o \in Thread : o # Boot => job'[o] = job[o]
        /\ job'[Boot] = Job(q, q, flash[src].crc)
    BY <1>1, <1>3, Constants
  <1>5. /\ job'[Boot].part = q /\ job'[Boot].last = q /\ job'[Boot].cell = "erase"
        /\ job'[Boot].crc = flash[src].crc
    BY <1>4 DEF Job
  <1>6. Active(Boot)' /\ Tracked(Boot)'
    BY <1>5 DEF Active, Tracked
  <1> QED
    BY <1>2, <1>4, <1>5, <1>6

LEMMA RepairType ==
    ASSUME TypeInv, ReadMainBroken \/ ReadMain PROVE TypeInv'
  <1>1. /\ TypeOK /\ NumberInv /\ ControlInv /\ saves \in Nat
        /\ UNCHANGED <<flash, bootTable, changed, kept, saves, counters, acked, whole, blame>>
        /\ stage = "read" /\ stage' \in {"recover", "check"}
        /\ flash["main"] \in Copy /\ flash["backup"] \in Copy /\ bootTable \in BOOLEAN
    BY Constants DEF TypeInv, TypeOK, ReadMainBroken, ReadMain
  <1>2. Known' = Known
    BY <1>1 DEF Known
  <1>3. \A o \in Thread : ~Active(o)
    BY <1>1 DEF ControlInv
  <1>4. PICK src \in Partition : Whole(flash[src]) /\ ram'.sys = flash[src].sys /\ ram' \in Ram
               /\ \/ /\ stage' = "recover"
                     /\ \E q \in Partition : job' = [job EXCEPT ![Boot] = Job(q, q, flash[src].crc)]
                  \/ stage' = "check" /\ job' = job
    <2>1. ASSUME NEW s \in Part, NEW u \in Part, NEW b \in BOOLEAN,
                 ram' = [sys |-> s, user |-> u, boot |-> b]
          PROVE  ram' \in Ram /\ ram'.sys = s
      BY <2>1 DEF Ram
    <2>2. /\ flash["main"].sys \in Part /\ flash["main"].user \in Part
          /\ flash["backup"].sys \in Part
      BY <1>1 DEF Copy
    <2>3. CASE ReadMainBroken
      <3>1. /\ ram' = [sys |-> flash["backup"].sys, user |-> flash["main"].user, boot |-> FALSE]
            /\ job' = [job EXCEPT ![Boot] = Job("main", "main", flash["backup"].crc)]
            /\ Whole(flash["backup"]) /\ stage' = "recover"
        BY <2>3 DEF ReadMainBroken
      <3>2. ram' \in Ram /\ ram'.sys = flash["backup"].sys
        BY <2>1, <2>2, <3>1
      <3> QED
        BY <3>1, <3>2, Constants
    <2>4. CASE ReadMain
      <3>1. /\ ram' = [sys |-> flash["main"].sys, user |-> flash["main"].user,
                       boot |-> bootTable]
            /\ \/ /\ stage' = "recover"
                  /\ job' = [job EXCEPT ![Boot] = Job("backup", "backup", flash["main"].crc)]
               \/ stage' = "check" /\ job' = job
            /\ Whole(flash["main"])
        BY <2>4 DEF ReadMain
      <3>2. ram' \in Ram /\ ram'.sys = flash["main"].sys
        BY <1>1, <2>1, <2>2, <3>1
      <3> QED
        BY <3>1, <3>2, Constants
    <2> QED
      BY <2>3, <2>4
  <1>5. flash[src].sys \in 0 .. saves
    <2>1. flash[src] \in Copy /\ flash[src].crc \in Known \cup {Blank, Torn, Zero}
      BY <1>1 DEF TypeOK, NumberInv
    <2> QED
      BY <1>1, <1>4, <2>1, WholeCopy DEF Known
  <1>6. CASE stage' = "check" /\ job' = job
    <2>1. TypeOK'
      BY <1>1, <1>4, <1>6 DEF TypeOK, Ram, counters
    <2>2. \A o \in Thread : ~Active(o)'
      BY <1>3, <1>6 DEF Active
    <2>3. NumberInv'
      BY <1>1, <1>2, <1>4, <1>5, <1>6, <2>2 DEF NumberInv
    <2>4. ControlInv' /\ BootInv'
      BY <1>6, <2>2, Constants DEF ControlInv, BootInv
    <2> QED
      BY <2>1, <2>3, <2>4 DEF TypeInv
  <1>7. ASSUME NEW q \in Partition, job' = [job EXCEPT ![Boot] = Job(q, q, flash[src].crc)],
               stage' = "recover"
        PROVE  TypeInv'
    <2>1. /\ job' \in [Thread -> Jobs] /\ \A o \in Thread : o # Boot => job'[o] = job[o]
          /\ Active(Boot)' /\ Tracked(Boot)'
          /\ job'[Boot].crc \in Known /\ job'[Boot].crc[1] = flash[src].sys
      BY <1>4, <1>7, RepairForm
    <2>2. TypeOK'
      BY <1>1, <1>4, <1>7, <2>1 DEF TypeOK, Ram, Jobs, counters
    <2>3. \A o \in Thread : o # Boot => ~Active(o)'
      BY <1>3, <2>1 DEF Active
    <2>4. NumberInv'
      BY <1>1, <1>2, <1>4, <1>5, <1>7, <2>1, <2>3 DEF NumberInv
    <2>5. ControlInv' /\ BootInv'
      BY <1>4, <1>7, <2>1, <2>3 DEF ControlInv, BootInv
    <2> QED
      BY <2>2, <2>4, <2>5 DEF TypeInv
  <1> QED
    BY <1>4, <1>6, <1>7

LEMMA AcceptType ==
    ASSUME TypeInv, CheckAccepts PROVE TypeInv'
  <1>1. /\ TypeOK /\ NumberInv /\ ControlInv /\ saves \in Nat /\ ram \in Ram
        /\ UNCHANGED <<flash, bootTable, job, changed, kept, counters, acked, whole, blame>>
        /\ stage = "check" /\ stage' = "up"
        /\ ram.sys \in 0 .. saves
    BY DEF TypeInv, TypeOK, CheckAccepts, Ram, NumberInv, Reads
  <1>2. \A o \in Thread : ~Active(o) /\ ~Active(o)'
    BY <1>1 DEF ControlInv, Active
  <1>3. saves' \in Nat /\ saves <= saves' /\ ram'.sys = ram.sys /\ ram'.user \in Nat /\ ram' \in Ram
    <2>1. CASE ram.user = Torn
      <3>1. ram' = [ram EXCEPT !.user = Fresh] /\ saves' = Fresh
        BY <2>1 DEF CheckAccepts
      <3>2. Fresh \in Nat /\ saves <= Fresh /\ Fresh \in Part
        BY <1>1, Constants DEF Fresh
      <3> QED
        BY <1>1, <3>1, <3>2 DEF Ram
    <2>2. CASE ram.user # Torn
      <3>1. ram.user \in Nat
        BY <1>1, <2>2 DEF CheckAccepts, Ram, Part
      <3> QED
        BY <1>1, <2>2, <3>1 DEF CheckAccepts
    <2> QED
      BY <2>1, <2>2
  <1>4. TypeOK'
    BY <1>1, <1>3 DEF TypeOK, Ram, counters
  <1>5. NumberInv'
    <2>1. /\ \A q \in Partition : flash'[q].crc \in Known' \cup {Blank, Torn, Zero}
          /\ kept'.crc \in Known' \cup {Blank, Torn, Zero}
      BY <1>1, <1>3, KnownGrows
    <2>2. ram'.sys \in 0 .. saves'
      BY <1>1, <1>3
    <2> QED
      BY <1>2, <1>3, <2>1, <2>2 DEF NumberInv
  <1>6. ControlInv' /\ BootInv'
    BY <1>1, <1>2, Constants DEF ControlInv, BootInv
  <1> QED
    BY <1>4, <1>5, <1>6 DEF TypeInv

LEMMA TypeInit == Init => TypeInv
  <1> SUFFICES ASSUME Init PROVE TypeInv
    OBVIOUS
  <1>1. \A p \in Thread : job[p] = Idle /\ ~Active(p)
    BY DEF Init, Active, Idle
  <1>2. TypeOK
    BY Constants DEF Init, TypeOK, Jobs, Ram
  <1>3. NumberInv
    <2>1. \A q \in Partition : flash[q].crc = Blank
      BY DEF Init, Erased
    <2>2. kept.crc = Blank /\ stage = "loader"
      BY DEF Init, Erased
    <2> QED
      BY <1>1, <2>1, <2>2 DEF NumberInv, Reads
  <1>4. ControlInv /\ BootInv
    BY <1>1, Constants DEF Init, ControlInv, BootInv
  <1> QED
    BY <1>2, <1>3, <1>4 DEF TypeInv

LEMMA TypeStep == TypeInv /\ [Next]_vars => TypeInv'
  <1> SUFFICES ASSUME TypeInv, [Next]_vars PROVE TypeInv'
    OBVIOUS
  <1>1. CASE UNCHANGED vars
    <2>1. TypeOK' /\ NumberInv'
      BY <1>1 DEF vars, TypeInv, TypeOK, NumberInv, Active, Known, counters
    <2>2. ControlInv' /\ BootInv'
      BY <1>1 DEF vars, TypeInv, ControlInv, BootInv, Active, Tracked
    <2> QED
      BY <2>1, <2>2 DEF TypeInv
  <1>2. ASSUME NEW p \in Locker \cup Unlocked PROVE p \in Thread /\ p # Boot
    BY ParaStoreAssumption DEF Thread
  <1> QED
    BY <1>1, <1>2, FlashStepType, FlashErrorType, SaveType, ChangeType, RestartType,
       LoaderType, RestoreType, RepairType, AcceptType DEF Next, Start

(* The variables keep their types: no flash operation of                   *)
(* internal_update_config or MICOReadConfiguration leaves its sequence.    *)
THEOREM TypeCorrect == Spec => []TypeOK
  <1>1. TypeInv => TypeOK
    BY DEF TypeInv
  <1> QED
    BY <1>1, TypeInit, TypeStep, PTL DEF Spec

-----------------------------------------------------------------------------
(* Nothing is to blame.                                                    *)

(* A thread that has yet to save its change is not saving.                 *)
ChangedInv == \A p \in changed : ~Active(p)

LEMMA ChangedStep == TypeInv /\ ChangedInv /\ [Next]_vars => ChangedInv'
  <1> SUFFICES ASSUME TypeInv, ChangedInv, [Next]_vars PROVE ChangedInv'
    OBVIOUS
  <1>1. /\ job \in [Thread -> Jobs] /\ changed \subseteq Unlocked /\ Unlocked \subseteq Thread
        /\ Boot \notin Unlocked
    BY ParaStoreAssumption DEF TypeInv, TypeOK, Jobs, Thread
  <1>2. ASSUME NEW p \in Thread, FlashStep(p) PROVE ChangedInv'
    BY <1>1, <1>2, FlashStepForm DEF ChangedInv, Active
  <1>3. ASSUME NEW p \in Thread, FlashError(p) PROVE ChangedInv'
    <2>1. job' = [job EXCEPT ![p] = Idle] /\ changed' = changed
      BY <1>3 DEF FlashError, Return
    <2> QED
      BY <1>1, <2>1 DEF ChangedInv, Active, Idle
  <1>4. ASSUME NEW p \in Locker, Save(p) PROVE ChangedInv'
    <2>1. changed' = changed /\ \A o \in Thread : o # p => job'[o] = job[o]
      BY <1>1, <1>4 DEF Save, StartSave
    <2>2. p \notin Unlocked
      BY ParaStoreAssumption
    <2> QED
      BY <1>1, <2>1, <2>2 DEF ChangedInv, Active
  <1>5. ASSUME NEW p \in Unlocked, SaveUnlocked(p) PROVE ChangedInv'
    <2>1. changed' = changed \ {p} /\ \A o \in Thread : o # p => job'[o] = job[o]
      BY <1>1, <1>5 DEF SaveUnlocked, StartSave
    <2> QED
      BY <1>1, <2>1 DEF ChangedInv, Active
  <1>6. ASSUME NEW p \in Unlocked, Change(p) PROVE ChangedInv'
    BY <1>6 DEF Change, ChangedInv, Active
  <1>7. CASE PowerFail
    BY <1>7 DEF PowerFail, ChangedInv
  <1>8. CASE Start
    <2>1. changed' = changed /\ \A o \in Thread : o # Boot => job'[o] = job[o]
      BY <1>1, <1>8 DEF Start, LoaderSkips, LoaderReads, LoaderErases, LoaderWritesBack,
                  LoaderError, ReadNeither, ReadMainBroken, ReadMain, CheckAccepts,
                  CheckRestores, Restore, StartSave
    <2> QED
      BY <1>1, <2>1 DEF ChangedInv, Active
  <1>9. CASE UNCHANGED vars
    BY <1>9 DEF vars, ChangedInv, Active
  <1> QED
    BY <1>2, <1>3, <1>4, <1>5, <1>6, <1>7, <1>8, <1>9 DEF Next

(* What the types say of the copies.                                       *)
LEMMA CopyFacts ==
    ASSUME TypeInv, NEW q \in Partition
    PROVE  /\ flash[q] \in Copy
           /\ Whole(flash[q]) =>
                 /\ flash[q].crc = Crc(flash[q].sys, flash[q].user) /\ flash[q].crc # Zero
                 /\ flash[q].crc[1] = flash[q].sys /\ flash[q].crc[2] = flash[q].user
                 /\ flash[q].sys \in Nat /\ flash[q].user \in Nat
           /\ (\/ flash[q].sys \in {Blank, Torn} \/ flash[q].user \in {Blank, Torn}
               \/ flash[q].crc \in {Blank, Torn, Zero}) => ~Whole(flash[q])
  <1>1. flash[q] \in Copy /\ flash[q].crc \in Known \cup {Blank, Torn, Zero} /\ saves \in Nat
    BY DEF TypeInv, TypeOK, NumberInv
  <1> QED
    BY <1>1, WholeCopy, TornNotWhole DEF Known

LEMMA CopyFactsNext ==
    ASSUME TypeInv', NEW q \in Partition
    PROVE  /\ flash'[q] \in Copy
           /\ Whole(flash'[q]) =>
                 /\ flash'[q].crc = Crc(flash'[q].sys, flash'[q].user) /\ flash'[q].crc # Zero
                 /\ flash'[q].crc[1] = flash'[q].sys /\ flash'[q].crc[2] = flash'[q].user
                 /\ flash'[q].sys \in Nat /\ flash'[q].user \in Nat
           /\ (\/ flash'[q].sys \in {Blank, Torn} \/ flash'[q].user \in {Blank, Torn}
               \/ flash'[q].crc \in {Blank, Torn, Zero}) => ~Whole(flash'[q])
  <1>1. /\ flash'[q] \in Copy /\ flash'[q].crc \in Known' \cup {Blank, Torn, Zero}
        /\ saves' \in Nat
    BY DEF TypeInv, TypeOK, NumberInv
  <1> QED
    BY <1>1, WholeCopy, TornNotWhole DEF Known

(* Steps that write no CRC: the partition they write is not whole.         *)
LEMMA CellSafe ==
    ASSUME TypeInv, TypeInv', JobInv, CopyInv, RamInv, WholeInv,
           NEW p \in Thread, Erase(p) \/ WriteSys(p) \/ WriteUser(p)
    PROVE  JobInv' /\ CopyInv' /\ RamInv' /\ WholeInv'
  <1>1. FlashStep(p)
    BY DEF FlashStep
  <1>2. /\ Active(p) /\ \A o \in Thread : o # p => job'[o] = job[o]
        /\ UNCHANGED <<ram, kept, whole, acked>>
        /\ \A r \in Partition : r # job[p].part => flash'[r] = flash[r]
    BY <1>1, FlashStepForm DEF Erase, WriteSys, WriteUser
  <1>3. job \in [Thread -> Jobs] /\ job[p] \in Jobs /\ job[p].part \in Partition
    BY JobPart DEF TypeInv, TypeOK, Jobs
  <1>4. /\ Active(p)' /\ job'[p].part = job[p].part /\ job'[p].last = job[p].last
        /\ job'[p].crc = job[p].crc /\ job'[p].cell \in {"sys", "user", "crc"}
    <2>1. PICK cell \in {"sys", "user", "crc"} : Advance(p, cell)
      BY DEF Erase, WriteSys, WriteUser
    <2>2. job'[p] = [job[p] EXCEPT !.cell = cell]
      BY <1>3, <2>1 DEF Advance
    <2>3. /\ job'[p].part = job[p].part /\ job'[p].last = job[p].last
          /\ job'[p].crc = job[p].crc /\ job'[p].cell = cell
      BY <1>3, <2>2 DEF Jobs
    <2> QED
      BY <2>3 DEF Active
  <1>5. stage' = stage
    BY DEF Erase, WriteSys, WriteUser
  <1>6. (\A o \in Thread : Active(o) => o = p) /\ (\A o \in Thread : Active(o)' => o = p)
    BY <1>2 DEF JobInv, Active
  <1>7. Tracked(p)'
    BY <1>1, <1>2, <1>4, TrackedStep DEF JobInv
  <1>8. ~Whole(flash'[job[p].part])
    <2>1. flash'[job[p].part].crc = Blank
      BY <1>4, <1>7 DEF Tracked, Erased
    <2> QED
      BY <1>3, <2>1, CopyFactsNext
  <1>9. stage \in {"up", "recover", "default"}
    BY <1>2 DEF TypeInv, ControlInv
  <1>10. JobInv'
    <2>1. /\ job'[p].part = "main" => Whole(flash'["backup"])
          /\ job'[p].part = "main" => flash'["backup"] = flash["backup"]
          /\ job'[p].part = "backup" => flash'["main"] = flash["main"]
      BY <1>2, <1>4 DEF JobInv, Partition
    <2>2. job'[p].crc # Zero => job'[p].crc[1] >= acked'
      BY <1>2, <1>4 DEF JobInv
    <2>3. \/ /\ job'[p].last = "backup"
             /\ job'[p].crc = Crc(ram'.sys, ram'.user)
             /\ job'[p].part = "backup" =>
                   Whole(flash'["main"]) /\ flash'["main"].crc = job'[p].crc
             /\ stage' = "recover" => job'[p].part = "backup"
          \/ /\ job'[p].last = "main" /\ job'[p].part = "main"
             /\ job'[p].crc = flash'["backup"].crc
             /\ stage' = "recover"
      BY <1>2, <1>4, <1>5, <2>1 DEF JobInv
    <2> QED
      BY <1>6, <1>7, <2>1, <2>2, <2>3 DEF JobInv
  <1>11. CopyInv'
    <2>1. Whole(flash'["main"]) \/ Whole(flash'["backup"])
      <3>1. CASE job[p].part = "main"
        BY <1>2, <3>1 DEF JobInv, Partition
      <3>2. CASE job[p].part = "backup"
        BY <1>2, <3>2 DEF JobInv, Partition
      <3> QED
        BY <1>3, <3>1, <3>2 DEF Partition
    <2>2. \A q \in Partition : Whole(flash'[q]) => flash'[q].sys >= acked'
      BY <1>2, <1>8 DEF CopyInv
    <2> QED
      BY <1>4, <1>5, <1>9, <2>1, <2>2 DEF CopyInv
  <1>12. RamInv' /\ WholeInv'
    BY <1>2, <1>5, <1>9 DEF RamInv, WholeInv
  <1> QED
    BY <1>10, <1>11, <1>12

(* Both copies are whole and nobody is writing: nothing is to blame.       *)
LEMMA SettledSafe ==
    ASSUME TypeInv, TypeInv', NEW p \in Thread, WriteCrc(p), job[p].last = job[p].part,
           \A o \in Thread : ~Active(o)',
           \A q \in Partition : flash'[q].crc = job[p].crc /\ Whole(flash'[q])
    PROVE  JobInv' /\ CopyInv' /\ RamInv' /\ WholeInv'
  <1>1. FlashStep(p)
    BY DEF FlashStep
  <1>2. Active(p) /\ UNCHANGED <<ram, kept, whole>>
    BY <1>1, FlashStepForm
  <1>3. /\ job[p].crc # Zero /\ job[p].crc[1] \in Nat
        /\ \A q \in Partition : flash'[q].sys = job[p].crc[1] /\ flash'[q].user \in Nat
    BY CopyFactsNext, Constants
  <1>4. acked' = job[p].crc[1]
    BY <1>3, CrcWritten
  <1>5. job[p].crc[1] <= ram.sys /\ ram.sys \in Nat
    <2>1. stage \in {"up", "recover", "default"}
      BY <1>2 DEF TypeInv, ControlInv
    <2> QED
      BY <1>2, <1>3, <2>1 DEF TypeInv, NumberInv, Reads
  <1>6. stage' \in IF p # Boot THEN {"up"}
                   ELSE IF stage = "recover" THEN {"check"} ELSE {"up", "stopped"}
    <2>1. p # Boot => stage = "up"
      BY <1>2 DEF TypeInv, ControlInv
    <2> QED
      BY <1>1, <2>1, FlashStepForm
  <1>7. CopyInv'
    BY <1>3, <1>4, <1>6, Constants DEF CopyInv
  <1>8. stage' = "check" => ram'.sys = Effective'.sys /\ (whole' => ram'.user \in Nat)
    <2> SUFFICES ASSUME stage' = "check"
                 PROVE  ram.sys = flash'["main"].sys /\ ram.user \in Nat
      BY <1>2, Constants DEF Effective
    <2>1. p = Boot
      BY <1>6
    <2>2. ram.sys = job[p].crc[1]
      BY <1>2, <1>3, <2>1 DEF TypeInv, BootInv
    <2>3. flash'[job[p].part] = [sys |-> ram.sys, user |-> ram.user, crc |-> job[p].crc]
      BY <1>2, <2>1, CrcWritten DEF TypeInv, BootInv
    <2>4. job[p].part \in Partition
      BY JobPart DEF TypeInv
    <2>5. flash'[job[p].part].user = ram.user
      BY <2>3
    <2> QED
      BY <1>3, <2>2, <2>4, <2>5, Constants
  <1>9. RamInv' /\ WholeInv'
    BY <1>2, <1>4, <1>5, <1>6, <1>8 DEF RamInv, WholeInv
  <1>10. JobInv'
    BY DEF JobInv
  <1> QED
    BY <1>7, <1>9, <1>10

(* The CRC of the one job under way.                                       *)
LEMMA CrcSafe ==
    ASSUME TypeInv, TypeInv', JobInv, CopyInv, RamInv, WholeInv,
           NEW p \in Thread, WriteCrc(p)
    PROVE  JobInv' /\ CopyInv' /\ RamInv' /\ WholeInv'
  <1>1. FlashStep(p)
    BY DEF FlashStep
  <1>2. /\ Active(p) /\ \A o \in Thread : o # p => job'[o] = job[o]
        /\ UNCHANGED <<ram, kept, whole>>
        /\ \A r \in Partition : r # job[p].part => flash'[r] = flash[r]
        /\ Active(p)' => job'[p].crc = job[p].crc /\ stage' = stage
        /\ ~Active(p)' => stage' \in IF p # Boot THEN {stage}
                                     ELSE IF stage = "recover" THEN {"check"}
                                     ELSE {"up", "stopped"}
    BY <1>1, FlashStepForm
  <1>3. job[p].part \in Partition /\ job[p].last \in Partition
    BY JobPart DEF TypeInv
  <1>4. \A o \in Thread : Active(o)' => o = p
    BY <1>2 DEF JobInv, Active
  <1>5. flash'[job[p].part] = [sys |-> ram.sys, user |-> ram.user, crc |-> job[p].crc]
    BY <1>2, CrcWritten DEF JobInv
  <1>6. /\ flash'[job[p].part].sys = ram.sys /\ flash'[job[p].part].user = ram.user
        /\ flash'[job[p].part].crc = job[p].crc
    BY <1>5
  <1>7. /\ stage \in {"up", "recover", "default"} /\ (p # Boot => stage = "up")
        /\ (stage = "recover" => p = Boot) /\ ram.sys \in Nat
    BY <1>2 DEF TypeInv, ControlInv, NumberInv, Reads
  <1>8. ram.sys >= acked /\ acked \in Nat
    BY <1>7 DEF RamInv, Reads, TypeInv, TypeOK
  <1>9. /\ job[p].crc # Zero => job[p].crc[1] >= acked
        /\ job[p].part = "main" => Whole(flash["backup"])
    BY <1>2 DEF JobInv
  (* A save or a restore, main or backup, or the repair of the backup.     *)
  <1>10. ASSUME job[p].last = "backup", job[p].crc = Crc(ram.sys, ram.user),
                job[p].part = "backup" =>
                   Whole(flash["main"]) /\ flash["main"].crc = job[p].crc,
                stage = "recover" => job[p].part = "backup"
         PROVE  JobInv' /\ CopyInv' /\ RamInv' /\ WholeInv'
    <2>1. CASE job[p].part = "backup"
      <3>1. /\ flash'["main"] = flash["main"] /\ Whole(flash'["main"])
            /\ flash'["main"].crc = job[p].crc /\ job[p].crc # Zero
        BY <1>2, <1>10, <2>1, Constants DEF Partition, Whole, CrcMatch
      <3>2. Whole(flash'["backup"]) /\ flash'["backup"].crc = job[p].crc
        BY <1>6, <1>10, <2>1, <3>1 DEF Whole, CrcMatch
      <3>3. ~Active(p)'
        BY <1>10, <2>1, CrcWritten
      <3> QED
        BY <1>4, <1>10, <2>1, <3>1, <3>2, <3>3, SettledSafe DEF Partition
    <2>2. CASE job[p].part = "main"
      <3>1. flash'["backup"] = flash["backup"] /\ Whole(flash'["backup"]) /\ acked' = acked
        BY <1>2, <1>9, <1>10, <2>2, CrcWritten, Constants
      <3>2. stage # "recover"
        BY <1>10, <2>2
      <3>3. Whole(flash'["main"]) => flash'["main"].sys >= acked
        BY <1>6, <1>8, <2>2
      <3>4. CopyInv'
        <4>1. \A q \in Partition : Whole(flash'[q]) => flash'[q].sys >= acked'
          BY <3>1, <3>3 DEF CopyInv, Partition
        <4>2. stage' \in {"up", "default", "stopped"}
          BY <1>2, <1>7, <3>2
        <4> QED
          BY <3>1, <4>1, <4>2 DEF CopyInv
      <3>5. RamInv' /\ WholeInv'
        <4>1. stage' \in {"up", "default", "stopped"}
          BY <1>2, <1>7, <3>2
        <4> QED
          BY <1>2, <1>8, <3>1, <4>1 DEF RamInv, WholeInv
      <3>6. CASE ~Active(p)'
        BY <1>4, <3>4, <3>5, <3>6 DEF JobInv
      <3>7. CASE Active(p)'
        <4>1. /\ job'[p].part = "backup" /\ job'[p].last = "backup"
              /\ job'[p].crc = job[p].crc /\ stage' = stage /\ job[p].crc # Zero
          BY <1>2, <1>6, <1>10, <2>2, <3>7, CrcWritten
        <4>2. Whole(flash'["main"]) /\ flash'["main"].crc = job[p].crc
          BY <1>6, <1>10, <2>2, <4>1 DEF Whole, CrcMatch
        <4>3. Tracked(p)'
          BY <1>1, <1>2, <3>7, TrackedStep DEF JobInv
        <4>4. JobInv'
          BY <1>2, <1>4, <1>9, <1>10, <3>1, <3>2, <4>1, <4>2, <4>3 DEF JobInv
        <4> QED
          BY <3>4, <3>5, <4>4
      <3> QED
        BY <3>6, <3>7
    <2> QED
      BY <1>3, <2>1, <2>2 DEF Partition
  (* The repair of main.                                                   *)
  <1>11. ASSUME job[p].last = "main", job[p].part = "main", stage = "recover",
                job[p].crc = flash["backup"].crc
         PROVE  JobInv' /\ CopyInv' /\ RamInv' /\ WholeInv'
    <2>1. /\ flash'["backup"] = flash["backup"] /\ Whole(flash["backup"]) /\ ~Active(p)'
          /\ stage' = "check" /\ p = Boot
      BY <1>2, <1>7, <1>9, <1>11, CrcWritten, Constants
    <2>2. job[p].crc # Zero /\ flash["backup"].sys = job[p].crc[1]
          /\ flash["backup"].sys \in Nat
      BY <1>11, <2>1, CopyFacts, Constants
    <2>3. acked' = job[p].crc[1]
      BY <1>11, <2>2, CrcWritten
    <2>4. ram.sys = job[p].crc[1]
      BY <1>2, <2>1, <2>2 DEF TypeInv, BootInv
    <2>5. flash'["main"].sys = ram.sys
      BY <1>6, <1>11
    <2>6. CopyInv'
      BY <2>1, <2>2, <2>3, <2>4, <2>5 DEF CopyInv, Partition
    <2>7. RamInv'
      <3>1. ram'.sys = Effective'.sys
        BY <1>2, <2>1, <2>2, <2>4, <2>5 DEF Effective
      <3> QED
        BY <1>2, <1>7, <2>3, <2>4, <3>1 DEF RamInv
    <2>8. WholeInv'
      BY <1>2, <1>11, <2>1 DEF WholeInv
    <2>9. JobInv'
      BY <1>4, <2>1 DEF JobInv
    <2> QED
      BY <2>6, <2>7, <2>8, <2>9
  <1> QED
    BY <1>2, <1>10, <1>11 DEF JobInv

(* A step of a job: what was to blame stays unless both copies settle.     *)
LEMMA FlashStepSafe ==
    ASSUME TypeInv, TypeInv', SafeInv, NEW p \in Thread, FlashStep(p)
    PROVE  SafeInv'
  <1> SUFFICES ASSUME blame' = {} PROVE JobInv' /\ CopyInv' /\ RamInv' /\ WholeInv'
    BY DEF SafeInv
  <1>1. CASE WriteCrc(p) /\ blame' # blame
    <2>1. Settled(p) /\ job[p].last = job[p].part
      BY <1>1, CrcWritten
    <2>2. \A o \in Thread : ~Active(o)'
      <3>1. \A o \in Thread : o # p => ~Active(o)
        BY <2>1 DEF Settled, Others
      <3>2. ~Active(p)'
        BY <1>1, <2>1, CrcWritten
      <3> QED
        BY <3>1, <3>2, FlashStepForm DEF Active
    <2>3. \A q \in Partition : flash'[q].crc = job[p].crc /\ Whole(flash'[q])
      BY <2>1 DEF Settled
    <2> QED
      BY <1>1, <2>1, <2>2, <2>3, SettledSafe
  <1>2. CASE WriteCrc(p) /\ blame' = blame
    BY <1>2, CrcSafe DEF SafeInv
  <1>3. CASE Erase(p) \/ WriteSys(p) \/ WriteUser(p)
    <2>1. blame = {}
      BY <1>3 DEF Erase, WriteSys, WriteUser
    <2> QED
      BY <1>3, <2>1, CellSafe DEF SafeInv
  <1> QED
    BY <1>1, <1>2, <1>3 DEF FlashStep

(* A new job of StartSave, when no other is under way.                     *)
LEMMA NewJobSafe ==
    ASSUME TypeInv, TypeInv', NEW p \in Thread, UNCHANGED <<flash, acked>>,
           Active(p)', Tracked(p)', \A o \in Thread : o # p => ~Active(o)',
           job'[p].part = "main", job'[p].last = "backup",
           job'[p].crc = Crc(ram'.sys, ram'.user),
           job'[p].crc # Zero => job'[p].crc[1] >= acked,
           stage' \in {"up", "default"}, CopyInv, Whole(flash["backup"]), ram'.sys >= acked
    PROVE  JobInv' /\ CopyInv' /\ RamInv' /\ WholeInv'
  <1>1. JobInv'
    BY DEF JobInv
  <1>2. CopyInv'
    BY DEF CopyInv
  <1>3. RamInv' /\ WholeInv'
    BY DEF RamInv, WholeInv
  <1> QED
    BY <1>1, <1>2, <1>3

LEMMA SaveSafe ==
    ASSUME TypeInv, TypeInv', SafeInv, ChangedInv, NEW p \in Thread,
           (p \in Locker /\ Save(p)) \/ (p \in Unlocked /\ SaveUnlocked(p))
    PROVE  SafeInv'
  <1> SUFFICES ASSUME blame' = {} PROVE JobInv' /\ CopyInv' /\ RamInv' /\ WholeInv'
    BY DEF SafeInv
  <1>1. blame = {} /\ Others(p) = {} /\ stage = "up" /\ stage' = "up"
        /\ UNCHANGED <<flash, acked>>
    BY DEF Save, SaveUnlocked
  <1>2. ~Active(p)
    BY DEF Save, SaveUnlocked, ChangedInv
  <1>3. \A o \in Thread : ~Active(o)
    BY <1>1, <1>2 DEF Others
  <1>4. /\ JobInv /\ CopyInv /\ RamInv /\ TypeOK /\ saves \in Nat /\ acked \in Nat
        /\ ram.sys \in 0 .. saves /\ ram.user \in Nat /\ ram.boot \in BOOLEAN
    BY <1>1 DEF SafeInv, TypeInv, TypeOK, NumberInv, Reads
  <1>5. Whole(flash["backup"]) /\ ram.sys >= acked
    BY <1>1, <1>3, <1>4 DEF CopyInv, RamInv, Reads
  <1>6. saves' \in Nat /\ saves <= saves'
    <2>1. saves' \in {saves, saves + 1}
      BY DEF Save, SaveUnlocked, Fresh
    <2> QED
      BY <1>4, <2>1
  <1>7. PICK s \in 0 .. saves', u \in Nat, b \in BOOLEAN : StartSave(p, s, u, b) /\ ram.sys <= s
    <2>1. CASE Save(p)
      <3>1. Fresh \in 0 .. saves' /\ Fresh \in Nat /\ ram.sys <= Fresh
        BY <1>4, <2>1 DEF Save, Fresh
      <3> QED
        BY <1>4, <2>1, <3>1 DEF Save
    <2>2. CASE SaveUnlocked(p)
      BY <1>4, <2>2 DEF SaveUnlocked
    <2> QED
      BY <2>1, <2>2
  <1>8. /\ ram'.sys = s /\ ram'.user = u
        /\ \A o \in Thread : o # p => job'[o] = job[o]
        /\ Active(p)' /\ Tracked(p)'
        /\ job'[p].part = "main" /\ job'[p].last = "backup" /\ job'[p].crc = Crc(s, u)
        /\ job'[p].crc # Zero => job'[p].crc[1] = s
    BY <1>4, <1>6, <1>7, SaveForm
  <1>9. \A o \in Thread : o # p => ~Active(o)'
    BY <1>3, <1>8 DEF Active
  <1>10. s >= acked
    BY <1>4, <1>5, <1>7
  <1> QED
    BY <1>1, <1>4, <1>5, <1>8, <1>9, <1>10, NewJobSafe

LEMMA ChangeSafe ==
    ASSUME TypeInv, TypeInv', SafeInv, NEW p \in Unlocked, Change(p)
    PROVE  SafeInv'
  <1> SUFFICES ASSUME blame' = {} PROVE JobInv' /\ CopyInv' /\ RamInv' /\ WholeInv'
    BY DEF SafeInv
  <1>1. blame = {} /\ Others(p) = {} /\ ~Active(p) /\ stage = "up"
        /\ UNCHANGED <<flash, job, stage, kept, acked, whole>>
    BY DEF Change
  <1>2. \A o \in Thread : ~Active(o) /\ ~Active(o)'
    BY <1>1 DEF Others, Active
  <1>3. JobInv /\ CopyInv /\ RamInv /\ saves \in Nat /\ acked \in Nat /\ ram.sys \in 0 .. saves
        /\ DOMAIN ram = {"sys", "user", "boot"} /\ ram \in Ram
    BY <1>1 DEF SafeInv, TypeInv, TypeOK, NumberInv, Reads, Ram
  <1>4. ram'.sys = Fresh
    BY <1>3 DEF Change, Ram
  <1>5. ram'.sys >= acked
    BY <1>1, <1>3, <1>4 DEF Fresh, RamInv, Reads
  <1>6. JobInv'
    BY <1>2 DEF JobInv
  <1>7. CopyInv'
    BY <1>1, <1>2, <1>3 DEF CopyInv
  <1>8. RamInv' /\ WholeInv'
    BY <1>1, <1>5 DEF RamInv, WholeInv
  <1> QED
    BY <1>6, <1>7, <1>8

LEMMA RestartSafe ==
    ASSUME TypeInv, TypeInv', SafeInv, PowerFail PROVE SafeInv'
  <1> SUFFICES ASSUME blame = {} PROVE JobInv' /\ CopyInv' /\ RamInv' /\ WholeInv'
    BY DEF SafeInv, PowerFail
  <1>1. /\ JobInv /\ CopyInv /\ TypeOK /\ stage' = "loader" /\ acked' = acked
        /\ whole' = Whole(flash'["main"]) /\ job' = [o \in Thread |-> Idle]
    BY DEF SafeInv, PowerFail, TypeInv
  <1>2. \A o \in Thread : ~Active(o)'
    BY <1>1 DEF Active, Idle
  <1>3. /\ Whole(flash'["main"]) \/ Whole(flash'["backup"])
        /\ \A q \in Partition : Whole(flash'[q]) => flash'[q].sys >= acked
    <2>1. CASE stage \in {"ldErase", "ldWrite"}
               /\ flash' \in {flash, [flash EXCEPT !["main"] = TornCopy]}
      <3>1. flash \in [Partition -> Copy] /\ Whole(flash["backup"])
        BY <1>1, <2>1 DEF TypeOK, CopyInv
      <3>2. flash'["backup"] = flash["backup"]
        BY <2>1, <3>1, Constants
      <3>3. flash'["main"] = flash["main"] \/ flash'["main"].sys = Torn
        BY <2>1, <3>1, Constants DEF TornCopy
      <3>4. flash'["main"] = flash["main"] \/ ~Whole(flash'["main"])
        BY <3>3, CopyFactsNext, Constants
      <3> QED
        BY <1>1, <3>1, <3>2, <3>4 DEF CopyInv, Partition
    <2>2. ASSUME NEW T \in SUBSET {p \in Thread : Active(p)}, flash' = TornFlash(T)
          PROVE  /\ Whole(flash'["main"]) \/ Whole(flash'["backup"])
                 /\ \A q \in Partition : Whole(flash'[q]) => flash'[q].sys >= acked
      <3>1. \A q \in Partition :
               flash'[q] = flash[q] \/ (~Whole(flash'[q]) /\ \E p \in T : job[p].part = q)
        BY <1>1, <2>2, TornFlashForm, CopyFactsNext
      <3>2. \A q \in Partition : Whole(flash'[q]) => flash'[q].sys >= acked
        BY <1>1, <3>1 DEF CopyInv
      <3>3. CASE T = {}
        BY <1>1, <3>1, <3>3, Constants DEF CopyInv
      <3>4. ASSUME NEW p \in T
            PROVE  Whole(flash'["main"]) \/ Whole(flash'["backup"])
        <4>1. p \in Thread /\ Active(p) /\ \A o \in T : o = p
          BY <1>1 DEF JobInv
        <4>2. \A q \in Partition : q # job[p].part => flash'[q] = flash[q]
          BY <3>1, <4>1
        <4>3. job[p].part \in Partition
          BY <1>1, <4>1, JobPart
        <4>4. CASE job[p].part = "main"
          BY <1>1, <4>1, <4>2, <4>4 DEF JobInv, Partition
        <4>5. CASE job[p].part = "backup"
          BY <1>1, <4>1, <4>2, <4>5 DEF JobInv, Partition
        <4> QED
          BY <4>3, <4>4, <4>5 DEF Partition
      <3> QED
        BY <3>2, <3>3, <3>4
    <2> QED
      BY <2>1, <2>2 DEF PowerFail
  <1>4. JobInv'
    BY <1>2 DEF JobInv
  <1>5. CopyInv'
    BY <1>1, <1>3 DEF CopyInv
  <1>6. RamInv' /\ WholeInv'
    BY <1>1 DEF RamInv, WholeInv, Reads
  <1> QED
    BY <1>4, <1>5, <1>6

LEMMA LoaderSafe ==
    ASSUME TypeInv, TypeInv', SafeInv,
           LoaderSkips \/ LoaderReads \/ LoaderErases \/ LoaderWritesBack \/ LoaderError
    PROVE  SafeInv'
  <1> SUFFICES ASSUME blame' = {} PROVE JobInv' /\ CopyInv' /\ RamInv' /\ WholeInv'
    BY DEF SafeInv
  <1>1. ~LoaderError
    BY DEF LoaderError
  <1>2. blame = {} /\ UNCHANGED <<job, acked, whole>>
        /\ stage \in {"loader", "ldErase", "ldWrite"} /\ stage' \in {"ldErase", "ldWrite", "read"}
    BY <1>1 DEF LoaderSkips, LoaderReads, LoaderErases, LoaderWritesBack, counters
  <1>3. CopyInv /\ WholeInv /\ flash \in [Partition -> Copy]
    BY <1>2 DEF SafeInv, TypeInv, TypeOK
  <1>4. JobInv'
    <2>1. \A o \in Thread : ~Active(o)'
      BY <1>2 DEF TypeInv, ControlInv, Active
    <2> QED
      BY <2>1 DEF JobInv
  <1>5. RamInv'
    BY <1>2 DEF RamInv, Reads
  <1>6. CASE LoaderSkips
    <2>1. stage = "loader" /\ stage' = "read" /\ flash' = flash
      BY <1>6 DEF LoaderSkips
    <2> QED
      BY <1>2, <1>3, <1>4, <1>5, <2>1 DEF CopyInv, WholeInv
  <1>7. CASE LoaderReads
    <2>1. stage = "loader" /\ stage' = "ldErase" /\ flash' = flash /\ kept' = flash["main"]
      BY <1>7 DEF LoaderReads
    <2>2. Whole(flash["backup"])
      BY <1>7 DEF LoaderReads
    <2> QED
      BY <1>2, <1>3, <1>4, <1>5, <2>1, <2>2, Constants DEF CopyInv, WholeInv
  <1>8. CASE LoaderErases
    <2>1. /\ stage = "ldErase" /\ stage' = "ldWrite" /\ kept' = kept
          /\ flash' = [flash EXCEPT !["main"] = Erased]
      BY <1>8 DEF LoaderErases
    <2>2. flash'["main"].crc = Blank /\ flash'["backup"] = flash["backup"]
      BY <1>3, <2>1, Constants DEF Erased
    <2>3. ~Whole(flash'["main"])
      BY <2>2, CopyFactsNext, Constants
    <2>4. CopyInv'
      BY <1>2, <1>3, <2>1, <2>2, <2>3 DEF CopyInv, Partition
    <2>5. WholeInv'
      BY <1>2, <1>3, <2>1 DEF WholeInv
    <2> QED
      BY <1>4, <1>5, <2>4, <2>5
  <1>9. CASE LoaderWritesBack
    <2>1. /\ stage = "ldWrite" /\ stage' = "read"
          /\ flash' = [flash EXCEPT !["main"] = kept]
      BY <1>9 DEF LoaderWritesBack
    <2>2. flash'["main"] = kept /\ flash'["backup"] = flash["backup"]
      BY <1>3, <2>1, Constants
    <2>3. CopyInv'
      BY <1>2, <1>3, <2>1, <2>2 DEF CopyInv, Partition
    <2>4. WholeInv'
      BY <1>2, <1>3, <2>1, <2>2 DEF WholeInv
    <2> QED
      BY <1>4, <1>5, <2>3, <2>4
  <1> QED
    BY <1>1, <1>6, <1>7, <1>8, <1>9

LEMMA ReadSafe ==
    ASSUME TypeInv, TypeInv', SafeInv, ReadNeither \/ ReadMainBroken \/ ReadMain
    PROVE  SafeInv'
  <1> SUFFICES ASSUME blame' = {} PROVE JobInv' /\ CopyInv' /\ RamInv' /\ WholeInv'
    BY DEF SafeInv
  <1>1. blame = {} /\ UNCHANGED <<flash, acked, whole>>
        /\ stage = "read" /\ stage' \in {"recover", "check"}
    BY DEF ReadNeither, ReadMainBroken, ReadMain, Restore
  <1>2. CopyInv /\ WholeInv /\ \A o \in Thread : ~Active(o)
    BY <1>1 DEF SafeInv, TypeInv, ControlInv
  <1>3. \A q \in Partition : Whole(flash[q]) => flash[q].sys >= acked
    BY <1>2 DEF CopyInv
  <1>4. ~ReadNeither
    BY <1>2 DEF ReadNeither, CopyInv
  <1>5. CASE ReadMainBroken
    <2>1. /\ ram' = [sys |-> flash["backup"].sys, user |-> flash["main"].user, boot |-> FALSE]
          /\ job' = [job EXCEPT ![Boot] = Job("main", "main", flash["backup"].crc)]
          /\ Whole(flash["backup"]) /\ ~Whole(flash["main"]) /\ stage' = "recover"
      BY <1>5 DEF ReadMainBroken
    <2>2. /\ \A o \in Thread : o # Boot => job'[o] = job[o]
          /\ Active(Boot)' /\ Tracked(Boot)'
          /\ job'[Boot].part = "main" /\ job'[Boot].last = "main"
          /\ job'[Boot].crc = flash["backup"].crc
          /\ job'[Boot].crc[1] = flash["backup"].sys
      BY <2>1, RepairForm, Constants
    <2>3. \A o \in Thread : o # Boot => ~Active(o)'
      BY <1>2, <2>2 DEF Active
    <2>4. job'[Boot].crc[1] >= acked /\ ram'.sys >= acked
      BY <1>3, <2>1, <2>2, Constants
    <2>5. JobInv'
      BY <1>1, <2>1, <2>2, <2>3, <2>4 DEF JobInv
    <2>6. CopyInv' /\ RamInv' /\ WholeInv'
      BY <1>1, <1>2, <2>1, <2>4 DEF CopyInv, RamInv, WholeInv
    <2> QED
      BY <2>5, <2>6
  <1>6. CASE ReadMain
    <2>1. /\ ram' = [sys |-> flash["main"].sys, user |-> flash["main"].user,
                     boot |-> bootTable]
          /\ \/ /\ stage' = "recover"
                /\ job' = [job EXCEPT ![Boot] = Job("backup", "backup", flash["main"].crc)]
             \/ stage' = "check" /\ job' = job /\ Whole(flash["backup"])
          /\ Whole(flash["main"])
      BY <1>6 DEF ReadMain
    <2>2. ram'.sys = flash["main"].sys /\ ram'.user = flash["main"].user
      BY <2>1
    <2>3. ram'.sys >= acked /\ ram'.user \in Nat
      BY <1>3, <2>1, <2>2, CopyFacts, Constants
    <2>4. CopyInv'
      BY <1>1, <1>2, <2>1 DEF CopyInv
    <2>5. RamInv' /\ WholeInv'
      BY <1>1, <2>1, <2>2, <2>3 DEF RamInv, WholeInv, Effective
    <2>6. CASE stage' = "check" /\ job' = job
      <3>1. JobInv'
        BY <1>2, <2>6 DEF JobInv, Active
      <3> QED
        BY <2>4, <2>5, <3>1
    <2>7. CASE job' = [job EXCEPT ![Boot] = Job("backup", "backup", flash["main"].crc)]
      <3>1. /\ \A o \in Thread : o # Boot => job'[o] = job[o]
            /\ Active(Boot)' /\ Tracked(Boot)'
            /\ job'[Boot].part = "backup" /\ job'[Boot].last = "backup"
            /\ job'[Boot].crc = flash["main"].crc
            /\ job'[Boot].crc[1] = flash["main"].sys
            /\ job'[Boot].crc = Crc(flash["main"].sys, flash["main"].user)
        BY <2>1, <2>7, RepairForm, Constants
      <3>2. \A o \in Thread : o # Boot => ~Active(o)'
        BY <1>2, <3>1 DEF Active
      <3>3. JobInv'
        BY <1>1, <2>1, <2>2, <2>3, <3>1, <3>2 DEF JobInv
      <3> QED
        BY <2>4, <2>5, <3>3
    <2> QED
      BY <2>1, <2>6, <2>7
  <1> QED
    BY <1>4, <1>5, <1>6

LEMMA CheckSafe ==
    ASSUME TypeInv, TypeInv', SafeInv, CheckAccepts \/ CheckRestores PROVE SafeInv'
  <1> SUFFICES ASSUME blame' = {} PROVE JobInv' /\ CopyInv' /\ RamInv' /\ WholeInv'
    BY DEF SafeInv
  <1>1. blame = {} /\ UNCHANGED <<flash, acked, whole>>
        /\ stage = "check" /\ stage' \in {"up", "default"}
    BY DEF CheckAccepts, CheckRestores, Restore
  <1>2. CopyInv /\ RamInv /\ TypeOK /\ (\A o \in Thread : ~Active(o)) /\ saves \in Nat
        /\ acked \in Nat /\ ram.sys \in 0 .. saves
    BY <1>1 DEF SafeInv, TypeInv, TypeOK, ControlInv, NumberInv, Reads
  <1>3. Whole(flash["backup"]) /\ ram.sys >= acked
    BY <1>1, <1>2 DEF CopyInv, RamInv, Reads
  <1>4. CASE CheckAccepts
    <2>1. stage' = "up" /\ job' = job /\ kept' = kept /\ ram'.sys = ram.sys
      <3>1. ram \in Ram
        BY <1>2 DEF TypeOK, Ram
      <3> QED
        BY <1>4, <3>1 DEF CheckAccepts, Ram
    <2>2. JobInv'
      BY <1>2, <2>1 DEF JobInv, Active
    <2>3. CopyInv' /\ RamInv' /\ WholeInv'
      BY <1>1, <1>2, <1>3, <2>1 DEF CopyInv, RamInv, WholeInv
    <2> QED
      BY <2>2, <2>3
  <1>5. CASE CheckRestores
    <2>1. stage' = "default" /\ saves' = Fresh /\ StartSave(Boot, Fresh, Fresh, FALSE)
      BY <1>5 DEF CheckRestores, Restore
    <2>2. Fresh \in Nat /\ Fresh \in 0 .. saves' /\ saves <= saves' /\ saves' \in Nat
          /\ Fresh >= acked
      BY <1>2, <1>3, <2>1 DEF Fresh
    <2>3. /\ ram'.sys = Fresh /\ ram'.user = Fresh
          /\ \A o \in Thread : o # Boot => job'[o] = job[o]
          /\ Active(Boot)' /\ Tracked(Boot)'
          /\ job'[Boot].part = "main" /\ job'[Boot].last = "backup"
          /\ job'[Boot].crc = Crc(Fresh, Fresh)
          /\ job'[Boot].crc # Zero => job'[Boot].crc[1] = Fresh
      <3>1. PICK s \in 0 .. saves', u \in Nat, b \in BOOLEAN :
                   s = Fresh /\ u = Fresh /\ StartSave(Boot, s, u, b)
        BY <2>1, <2>2
      <3>2. /\ ram'.sys = s /\ ram'.user = u
            /\ \A o \in Thread : o # Boot => job'[o] = job[o]
            /\ Active(Boot)' /\ Tracked(Boot)'
            /\ job'[Boot].part = "main" /\ job'[Boot].last = "backup"
            /\ job'[Boot].crc = Crc(s, u)
            /\ job'[Boot].crc # Zero => job'[Boot].crc[1] = s
        BY <1>2, <2>2, <3>1, SaveForm, Constants
      <3> QED
        BY <3>1, <3>2
    <2>4. \A o \in Thread : o # Boot => ~Active(o)'
      BY <1>2, <2>3 DEF Active
    <2> QED
      BY <1>1, <1>2, <1>3, <2>1, <2>2, <2>3, <2>4, NewJobSafe, Constants
  <1> QED
    BY <1>4, <1>5

SafeAll == TypeInv /\ ChangedInv /\ SafeInv

LEMMA SafeStart == Init => SafeAll
  <1> SUFFICES ASSUME Init PROVE SafeAll
    OBVIOUS
  <1>1. TypeInv
    BY TypeInit
  <1> QED
    BY <1>1 DEF Init, SafeAll, ChangedInv, SafeInv

LEMMA SafeStep == SafeAll /\ [Next]_vars => SafeAll'
  <1> SUFFICES ASSUME SafeAll, [Next]_vars PROVE SafeAll'
    OBVIOUS
  <1>1. TypeInv /\ TypeInv' /\ ChangedInv /\ ChangedInv' /\ SafeInv
    BY TypeStep, ChangedStep DEF SafeAll
  <1>2. CASE UNCHANGED vars
    <2>1. UNCHANGED <<flash, ram, job, stage, kept, acked, whole, blame>>
      BY <1>2 DEF vars
    <2>2. JobInv => JobInv'
      BY <2>1 DEF JobInv, Active, Tracked
    <2>3. CopyInv => CopyInv'
      BY <2>1 DEF CopyInv, Active
    <2>4. (RamInv => RamInv') /\ (WholeInv => WholeInv')
      BY <2>1 DEF RamInv, WholeInv, Effective
    <2> QED
      BY <1>1, <2>1, <2>2, <2>3, <2>4 DEF SafeInv, SafeAll
  <1>3. ASSUME NEW p \in Thread, FlashError(p) PROVE SafeInv'
    BY <1>3 DEF FlashError, SafeInv
  <1>4. \A p \in Locker \cup Unlocked : p \in Thread
    BY DEF Thread
  <1> QED
    BY <1>1, <1>2, <1>3, <1>4, FlashStepSafe, SaveSafe, ChangeSafe, RestartSafe, LoaderSafe,
       ReadSafe, CheckSafe DEF Next, Start, SafeAll

-----------------------------------------------------------------------------
(* OneWholeCopy: whenever the power fails in a save, a repair or the boot  *)
(* loader, main or the backup is whole, unless saves met, an operation     *)
(* failed or the boot loader erased main without a whole backup            *)
(* (mico_system_para_storage.c:85-122).                                    *)
THEOREM OneWholeCopyHolds == Spec => []OneWholeCopy
  <1>1. SafeAll => OneWholeCopy
    BY DEF SafeAll, SafeInv, CopyInv, OneWholeCopy
  <1> QED
    BY <1>1, SafeStart, SafeStep, PTL DEF Spec

(* Durable: a start finds the last save that returned without an error, or *)
(* a later one (mico_system_para_storage.c:68-126).                        *)
THEOREM DurableHolds == Spec => []Durable
  <1>1. SafeAll => Durable
    <2> SUFFICES ASSUME SafeAll, blame = {}
                 PROVE  Effective.sys \in Nat /\ Effective.sys >= acked
      BY DEF Durable
    <2>1. TypeInv /\ CopyInv
      BY DEF SafeAll, SafeInv
    <2> QED
      BY <2>1, CopyFacts, Constants DEF CopyInv, Effective
  <1> QED
    BY <1>1, SafeStart, SafeStep, PTL DEF Spec

(* StartLoadsSaved: after MICOReadConfiguration the system part in RAM is  *)
(* that of the copy that counts, whatever was repaired                     *)
(* (mico_system_para_storage.c:231-292).                                   *)
THEOREM StartLoadsSavedHolds == Spec => []StartLoadsSaved
  <1>1. SafeAll => StartLoadsSaved
    BY DEF SafeAll, SafeInv, RamInv, StartLoadsSaved
  <1> QED
    BY <1>1, SafeStart, SafeStep, PTL DEF Spec

(* DefaultsOnlyIfMainBroken: a start that found main whole when the power  *)
(* came on never restores the defaults (mico_system_para_storage.c:232,    *)
(* MICOAppEntrance.c:120-124, Update_for_OTA.c:228-238).                   *)
THEOREM DefaultsOnlyIfMainBrokenHolds == Spec => DefaultsOnlyIfMainBroken
  <1>1. SafeAll /\ [Next]_vars => [ReadNeither \/ CheckRestores => ~whole \/ blame # {}]_vars
    <2> SUFFICES ASSUME SafeAll, ReadNeither \/ CheckRestores, whole, blame = {} PROVE FALSE
      OBVIOUS
    <2>1. CopyInv /\ WholeInv
      BY DEF SafeAll, SafeInv
    <2>2. ~ReadNeither
      BY <2>1 DEF CopyInv, ReadNeither
    <2>3. ~CheckRestores
      BY <2>1, ParaStoreAssumption DEF WholeInv, CheckRestores
    <2> QED
      BY <2>2, <2>3
  <1> QED
    BY <1>1, SafeStart, SafeStep, PTL DEF Spec, DefaultsOnlyIfMainBroken

-----------------------------------------------------------------------------
(* The settings in ram are the newest there are, and their number has      *)
(* never had two contents when a save writes them.                         *)

(* The CRC of a save is the one of ram, unless ram went on meanwhile.      *)
JobRamInv ==
    stage \in {"default", "up"} =>
        \A p \in Thread : Active(p) /\ job[p].crc # Zero /\ job[p].crc[1] = ram.sys
                             => job[p].crc[2] = ram.user

(* There may be settings in ram that flash does not hold.                  *)
Unsaved == \/ stage = "default"
           \/ stage = "up" /\ (changed # {} \/ \E p \in Thread : Active(p))

Newest ==
    /\ stage \in {"check", "default", "up"} =>
          \A q \in Partition : Whole(flash[q]) => flash[q].sys <= ram.sys
    /\ Unsaved =>
          \A q \in Partition : Whole(flash[q]) /\ flash[q].sys = ram.sys
                                  => flash[q].user = ram.user

NewestInv ==
    /\ changed # {} => stage = "up"
    /\ JobRamInv
    /\ blame = {} => Newest

(* A new job of StartSave: its CRC is the one of the ram it set.           *)
LEMMA NewJobRam ==
    ASSUME TypeInv, JobRamInv, NEW p \in Thread, saves' \in Nat, saves <= saves',
           NEW s \in 0 .. saves', NEW u \in Nat, NEW b \in BOOLEAN, StartSave(p, s, u, b),
           \/ \A o \in Thread : o # p => ~Active(o)
           \/ stage = "up" /\ (ram.sys < s \/ (s = ram.sys /\ u = ram.user))
    PROVE  JobRamInv'
  <1>1. /\ ram'.sys = s /\ ram'.user = u
        /\ \A o \in Thread : o # p => job'[o] = job[o]
        /\ job'[p].crc = Crc(s, u)
    BY SaveForm DEF TypeInv
  <1>2. job'[p].crc # Zero => job'[p].crc[1] = ram'.sys /\ job'[p].crc[2] = ram'.user
    BY <1>1 DEF Crc
  <1>3. ASSUME NEW o \in Thread, o # p, Active(o)', job'[o].crc # Zero,
               job'[o].crc[1] = ram'.sys
        PROVE  job'[o].crc[2] = ram'.user
    <2>1. Active(o) /\ job[o].crc # Zero /\ job[o].crc[1] = s
      BY <1>1, <1>3 DEF Active
    <2>2. stage = "up" /\ (ram.sys < s \/ (s = ram.sys /\ u = ram.user))
      BY <1>3, <2>1
    <2>3. ram.sys \in Nat /\ job[o].crc[1] <= ram.sys
      BY <2>1, <2>2 DEF TypeInv, NumberInv, Reads
    <2>4. s = ram.sys /\ u = ram.user
      BY <2>1, <2>2, <2>3
    <2> QED
      BY <1>1, <2>1, <2>2, <2>4, <1>3 DEF JobRamInv
  <1> QED
    BY <1>2, <1>3 DEF JobRamInv

(* The two unconditional parts, step by step.                              *)
LEMMA JobRamStep ==
    ASSUME TypeInv, TypeInv', ChangedInv, changed # {} => stage = "up", JobRamInv, [Next]_vars
    PROVE  (changed # {} => stage = "up")' /\ JobRamInv'
  <1>1. /\ job \in [Thread -> Jobs] /\ changed \subseteq Unlocked /\ ControlInv /\ TypeOK
        /\ saves \in Nat /\ ram \in Ram
        /\ \A p \in Locker \cup Unlocked : p \in Thread /\ p # Boot
    BY ParaStoreAssumption DEF TypeInv, TypeOK, Jobs, Ram, Thread
  <1>2. stage = "up" => ram.sys \in 0 .. saves /\ ram.user \in Nat /\ ram.boot \in BOOLEAN
    BY <1>1 DEF TypeInv, NumberInv, Reads, Ram
  <1>3. Fresh \in Nat /\ Fresh = saves + 1
    BY <1>1 DEF Fresh
  <1>4. ASSUME NEW p \in Thread, FlashStep(p)
        PROVE  (changed # {} => stage = "up")' /\ JobRamInv'
    <2>1. /\ Active(p) /\ UNCHANGED <<ram, changed>>
          /\ \A o \in Thread : o # p => job'[o] = job[o]
          /\ Active(p)' => job'[p].crc = job[p].crc /\ stage' = stage
          /\ ~Active(p)' => stage' \in IF p # Boot THEN {stage}
                                       ELSE IF stage = "recover" THEN {"check"}
                                       ELSE {"up", "stopped"}
      BY <1>4, FlashStepForm
    <2>2. (p = Boot /\ stage \in {"recover", "default"}) \/ (p # Boot /\ stage = "up")
      BY <1>1, <2>1 DEF ControlInv
    <2>3. (changed # {} => stage = "up")'
      BY <2>1, <2>2
    <2>4. stage' \in {"default", "up"} => stage \in {"default", "up"}
      BY <2>1, <2>2
    <2> QED
      BY <2>1, <2>3, <2>4 DEF JobRamInv, Active
  <1>5. ASSUME NEW p \in Thread, FlashError(p)
        PROVE  (changed # {} => stage = "up")' /\ JobRamInv'
    <2>1. /\ Active(p) /\ UNCHANGED <<ram, changed>>
          /\ job' = [job EXCEPT ![p] = Idle]
          /\ stage' = IF p # Boot THEN stage
                      ELSE IF stage = "recover" THEN "check" ELSE "stopped"
      BY <1>5 DEF FlashError, Return
    <2>2. /\ ~Active(p)' /\ \A o \in Thread : o # p => job'[o] = job[o]
      BY <1>1, <2>1 DEF Active, Idle
    <2>3. (p = Boot /\ stage \in {"recover", "default"}) \/ (p # Boot /\ stage = "up")
      BY <1>1, <2>1 DEF ControlInv
    <2> QED
      BY <2>1, <2>2, <2>3 DEF JobRamInv, Active
  <1>6. ASSUME NEW p \in Locker, Save(p)
        PROVE  (changed # {} => stage = "up")' /\ JobRamInv'
    <2>1. stage = "up" /\ UNCHANGED <<stage, changed>> /\ saves' = Fresh
      BY <1>6 DEF Save
    <2>2. /\ Fresh \in 0 .. saves' /\ saves <= saves' /\ saves' \in Nat /\ ram.sys < Fresh
          /\ ram.user \in Nat /\ ram.boot \in BOOLEAN
      BY <1>1, <1>2, <1>3, <2>1
    <2>3. PICK s \in 0 .. saves', u \in Nat, b \in BOOLEAN : StartSave(p, s, u, b) /\ ram.sys < s
      <3>1. PICK u \in {ram.user, Fresh}, b \in {ram.boot, TRUE} : StartSave(p, Fresh, u, b)
        BY <1>6 DEF Save
      <3>2. u \in Nat /\ b \in BOOLEAN
        BY <1>3, <2>2
      <3> HIDE DEF Fresh
      <3> QED
        BY <2>2, <3>1, <3>2
    <2>4. p \in Thread
      BY <1>1
    <2>5. JobRamInv'
      BY <2>1, <2>2, <2>3, <2>4, NewJobRam
    <2> QED
      BY <2>1, <2>5
  <1>7. ASSUME NEW p \in Unlocked, SaveUnlocked(p)
        PROVE  (changed # {} => stage = "up")' /\ JobRamInv'
    <2>1. stage = "up" /\ UNCHANGED <<stage, saves>>
          /\ StartSave(p, ram.sys, ram.user, ram.boot)
      BY <1>7 DEF SaveUnlocked
    <2>2. JobRamInv'
      BY <1>1, <1>2, <2>1, NewJobRam
    <2> QED
      BY <2>1, <2>2
  <1>8. ASSUME NEW p \in Unlocked, Change(p)
        PROVE  (changed # {} => stage = "up")' /\ JobRamInv'
    <2>1. stage = "up" /\ UNCHANGED <<stage, job>>
      BY <1>8 DEF Change
    <2>2. ram'.sys = Fresh
      BY <1>1, <1>8 DEF Change, Ram
    <2>3. \A o \in Thread : Active(o) /\ job[o].crc # Zero => job[o].crc[1] # Fresh
      <3>1. ASSUME NEW o \in Thread, Active(o), job[o].crc # Zero
            PROVE  job[o].crc[1] # Fresh
        <4>1. job[o].crc[1] <= ram.sys /\ job[o].crc \in Known
          BY <3>1 DEF TypeInv, NumberInv
        <4>2. job[o].crc[1] \in Nat
          BY <1>1, <4>1 DEF Known
        <4>3. ram.sys \in Nat /\ ram.sys < Fresh
          BY <1>1, <1>2, <1>3, <2>1
        <4> QED
          BY <1>3, <4>1, <4>2, <4>3
      <3> QED
        BY <3>1
    <2> QED
      BY <2>1, <2>2, <2>3 DEF JobRamInv, Active
  <1>9. CASE PowerFail
    BY <1>9 DEF PowerFail, JobRamInv
  <1>10. CASE Start
    <2>1. changed' = changed /\ stage # "up"
      BY <1>10 DEF Start, LoaderSkips, LoaderReads, LoaderErases, LoaderWritesBack,
                  LoaderError, ReadNeither, ReadMainBroken, ReadMain, CheckAccepts,
                  CheckRestores, Restore
    <2>2. CASE stage' \notin {"default", "up"}
      BY <2>1, <2>2 DEF JobRamInv
    <2>3. CASE stage' \in {"default", "up"}
      <3>1. CheckAccepts \/ CheckRestores
        BY <1>10, <2>3 DEF Start, LoaderSkips, LoaderReads, LoaderErases,
                    LoaderWritesBack, LoaderError, ReadNeither, ReadMainBroken, ReadMain
      <3>2. \A o \in Thread : ~Active(o)
        BY <1>1, <3>1 DEF CheckAccepts, CheckRestores, ControlInv
      <3>3. CASE CheckAccepts
        BY <2>1, <3>2, <3>3 DEF CheckAccepts, JobRamInv, Active
      <3>4. CASE CheckRestores
        <4>1. StartSave(Boot, Fresh, Fresh, FALSE) /\ saves' = Fresh
          BY <3>4 DEF CheckRestores, Restore
        <4>2. Fresh \in 0 .. saves' /\ Fresh \in Nat /\ saves' \in Nat /\ saves <= saves'
          BY <1>1, <1>3, <4>1
        <4>3. PICK s \in 0 .. saves', u \in Nat, b \in BOOLEAN : StartSave(Boot, s, u, b)
          <5> HIDE DEF Fresh
          <5> QED
            BY <4>1, <4>2
        <4>4. JobRamInv'
          BY <3>2, <4>2, <4>3, Constants, NewJobRam
        <4> QED
          BY <2>1, <4>4
      <3> QED
        BY <3>1, <3>3, <3>4
    <2> QED
      BY <2>2, <2>3
  <1>11. CASE UNCHANGED vars
    BY <1>11 DEF vars, JobRamInv, Active
  <1> QED
    BY <1>4, <1>5, <1>6, <1>7, <1>8, <1>9, <1>10, <1>11 DEF Next

(* No copy in flash is newer than the last save.                           *)
LEMMA CopyNumber ==
    ASSUME TypeInv, NEW q \in Partition, Whole(flash[q])
    PROVE  flash[q].sys \in 0 .. saves /\ saves \in Nat
  <1>1. flash[q] \in Copy /\ flash[q].crc \in Known \cup {Blank, Torn, Zero} /\ saves \in Nat
    BY DEF TypeInv, TypeOK, NumberInv
  <1> QED
    BY <1>1, WholeCopy DEF Known

(* A step that writes no CRC leaves a partition that is not whole.         *)
LEMMA CellNotWhole ==
    ASSUME TypeInv, TypeInv', NEW p \in Thread, Erase(p) \/ WriteSys(p) \/ WriteUser(p),
           Tracked(p)
    PROVE  Active(p)' /\ ~Whole(flash'[job[p].part])
  <1>1. job \in [Thread -> Jobs] /\ job[p] \in Jobs /\ job[p].part \in Partition
    BY JobPart DEF TypeInv, TypeOK, Jobs
  <1>2. PICK cell \in {"sys", "user", "crc"} : Advance(p, cell)
    BY DEF Erase, WriteSys, WriteUser
  <1>3. job'[p] = [job[p] EXCEPT !.cell = cell]
    BY <1>1, <1>2 DEF Advance
  <1>4. job'[p].cell = cell /\ job'[p].part = job[p].part
    BY <1>1, <1>3 DEF Jobs
  <1>5. Active(p)'
    BY <1>4 DEF Active
  <1>6. Tracked(p)'
    BY <1>5, TrackedStep DEF FlashStep
  <1>7. flash'[job[p].part].crc = Blank
    BY <1>4, <1>6 DEF Tracked, Erased
  <1> QED
    BY <1>1, <1>5, <1>7, CopyFactsNext

(* The steps of a job.                                                     *)
LEMMA FlashNewest ==
    ASSUME SafeAll, TypeInv', NewestInv, blame' = {}, NEW p \in Thread, FlashStep(p)
    PROVE  Newest'
  <1>1. TypeInv /\ SafeInv /\ JobRamInv
    BY DEF SafeAll, NewestInv
  <1>2. /\ Active(p) /\ UNCHANGED <<ram, changed>>
        /\ \A r \in Partition : r # job[p].part => flash'[r] = flash[r]
        /\ Active(p)' => job'[p].crc = job[p].crc /\ stage' = stage
        /\ ~Active(p)' => stage' \in IF p # Boot THEN {stage}
                                     ELSE IF stage = "recover" THEN {"check"}
                                     ELSE {"up", "stopped"}
    BY <1>1, FlashStepForm
  <1>3. \/ p = Boot /\ stage \in {"recover", "default"}
        \/ p # Boot /\ stage = "up"
    BY <1>1, <1>2 DEF TypeInv, ControlInv
  <1>4. ram.sys \in Nat /\ job[p].part \in Partition
    BY <1>1, <1>3, JobPart DEF TypeInv, NumberInv, Reads
  <1>5. CASE Erase(p) \/ WriteSys(p) \/ WriteUser(p)
    <2>1. blame = {} /\ stage' = stage
      BY <1>5 DEF Erase, WriteSys, WriteUser
    <2>2. Newest /\ Tracked(p)
      BY <1>1, <1>2, <2>1 DEF NewestInv, SafeInv, JobInv
    <2>3. ~Whole(flash'[job[p].part])
      BY <1>1, <1>5, <2>2, CellNotWhole
    <2>4. \A q \in Partition : Whole(flash'[q]) => flash'[q] = flash[q]
      BY <1>2, <2>3
    <2>5. stage \in {"default", "up"} => Unsaved
      BY <1>2 DEF Unsaved
    <2>6. stage' # "check" /\ (Unsaved' => stage \in {"default", "up"})
      BY <1>3, <2>1 DEF Unsaved
    <2> QED
      BY <1>2, <2>1, <2>2, <2>4, <2>5, <2>6 DEF Newest
  <1>6. CASE WriteCrc(p) /\ blame = {}
    <2>1. JobInv /\ Newest /\ BootInv
      BY <1>1, <1>6 DEF SafeInv, NewestInv, TypeInv
    <2>2. flash'[job[p].part] = [sys |-> ram.sys, user |-> ram.user, crc |-> job[p].crc]
      BY <1>1, <1>2, <1>6, <2>1, CrcWritten DEF JobInv
    <2>3. flash'[job[p].part].sys = ram.sys /\ flash'[job[p].part].user = ram.user
      BY <2>2
    <2>4. CASE stage \in {"default", "up"}
      <3>1. \A q \in Partition : Whole(flash'[q]) =>
               /\ flash'[q].sys <= ram.sys
               /\ flash'[q].sys = ram.sys => flash'[q].user = ram.user
        <4>1. Unsaved
          BY <1>2, <2>4 DEF Unsaved
        <4> QED
          BY <1>2, <1>4, <2>1, <2>3, <2>4, <4>1 DEF Newest
      <3> QED
        BY <1>2, <3>1 DEF Newest
    <2>5. CASE stage = "recover"
      <3>1. p = Boot /\ stage' \in {"recover", "check"} /\ ~Unsaved'
        BY <1>2, <1>3, <2>5 DEF Unsaved
      <3>2. \A q \in Partition : Whole(flash'[q]) => flash'[q].sys <= ram.sys
        <4> SUFFICES ASSUME NEW q \in Partition, q # job[p].part, Whole(flash[q])
                     PROVE  flash[q].sys <= ram.sys
          BY <1>2, <1>4, <2>3
        <4>1. flash[q].crc # Zero /\ flash[q].crc[1] = flash[q].sys
          BY <1>1, CopyFacts
        <4>2. flash[q].crc = job[p].crc
          BY <1>2, <1>4, <2>1, <2>5 DEF JobInv, Partition
        <4>3. job[p].crc[1] = ram.sys
          BY <1>2, <2>1, <3>1, <4>1, <4>2 DEF BootInv
        <4> QED
          BY <1>4, <4>1, <4>2, <4>3
      <3> QED
        BY <1>2, <3>1, <3>2 DEF Newest
    <2> QED
      BY <1>3, <2>4, <2>5
  <1>7. CASE WriteCrc(p) /\ blame # {}
    <2>1. Settled(p)
      BY <1>1, <1>7, CrcWritten
    <2>2. \A q \in Partition :
             /\ job[p].crc # Zero
             /\ flash'[q].sys = job[p].crc[1] /\ flash'[q].user = job[p].crc[2]
      BY <2>1, CopyFactsNext DEF Settled
    <2>3. /\ job[p].crc # Zero /\ job[p].crc[1] <= ram.sys
      BY <1>1, <1>2, <2>2, Constants DEF TypeInv, NumberInv
    <2>4. stage' \in {"check", "default", "up"} =>
             \A q \in Partition : Whole(flash'[q]) => flash'[q].sys <= ram'.sys
      BY <1>2, <2>2, <2>3
    <2>5. stage \in {"default", "up"} /\ job[p].crc[1] = ram.sys => job[p].crc[2] = ram.user
      BY <1>1, <1>2, <2>3 DEF JobRamInv
    <2>6. Unsaved' => stage \in {"default", "up"}
      BY <1>2, <1>3 DEF Unsaved
    <2> QED
      BY <1>2, <2>2, <2>4, <2>5, <2>6 DEF Newest
  <1> QED
    BY <1>5, <1>6, <1>7 DEF FlashStep

(* New settings carry a number that no copy in flash has.                  *)
LEMMA FreshNewest ==
    ASSUME TypeInv, flash' = flash, ram'.sys = Fresh
    PROVE  Newest'
  <1>1. \A q \in Partition : Whole(flash[q]) => flash[q].sys < Fresh
    BY CopyNumber DEF Fresh
  <1>2. \A q \in Partition : Whole(flash[q]) => flash[q].sys \in Nat
    BY CopyFacts
  <1>3. Fresh \in Nat
    BY DEF TypeInv, TypeOK, Fresh
  <1> QED
    BY <1>1, <1>2, <1>3 DEF Newest

LEMMA NewestStep ==
    ASSUME SafeAll, TypeInv', NewestInv, [Next]_vars, blame' = {}
    PROVE  Newest'
  <1>1. /\ TypeInv /\ JobRamInv /\ (changed # {} => stage = "up") /\ TypeOK /\ ram \in Ram
        /\ job \in [Thread -> Jobs]
    BY DEF SafeAll, NewestInv, TypeInv, TypeOK, Ram, Jobs
  <1>2. ASSUME NEW p \in Thread, FlashStep(p) PROVE Newest'
    BY <1>2, FlashNewest
  <1>3. ASSUME NEW p \in Thread, FlashError(p) PROVE FALSE
    BY <1>3 DEF FlashError
  <1>4. ASSUME NEW p \in Locker, Save(p) PROVE Newest'
    <2>1. flash' = flash /\ ram'.sys = Fresh
      BY <1>4 DEF Save, StartSave
    <2> QED
      BY <1>1, <2>1, FreshNewest
  <1>5. ASSUME NEW p \in Unlocked, Change(p) PROVE Newest'
    <2>1. flash' = flash /\ ram'.sys = Fresh
      BY <1>1, <1>5 DEF Change, Ram
    <2> QED
      BY <1>1, <2>1, FreshNewest
  <1>6. ASSUME NEW p \in Unlocked, SaveUnlocked(p) PROVE Newest'
    <2>1. /\ UNCHANGED <<flash, stage>> /\ ram'.sys = ram.sys /\ ram'.user = ram.user
          /\ stage = "up" /\ changed # {} /\ blame = {}
      BY <1>6 DEF SaveUnlocked, StartSave
    <2>2. Newest /\ Unsaved
      BY <2>1 DEF NewestInv, Unsaved
    <2> QED
      BY <2>1, <2>2 DEF Newest
  <1>7. CASE PowerFail
    <2>1. stage' = "loader"
      BY <1>7 DEF PowerFail
    <2> QED
      BY <2>1 DEF Newest, Unsaved
  <1>8. CASE Start
    <2>1. CASE stage' \in {"ldErase", "ldWrite", "read", "recover"}
      BY <2>1 DEF Newest, Unsaved
    <2>2. CASE ReadMain /\ stage' = "check"
      <3>1. /\ flash' = flash /\ Whole(flash["main"]) /\ Whole(flash["backup"])
            /\ flash["main"].crc = Crc(flash["backup"].sys, flash["backup"].user)
            /\ ram'.sys = flash["main"].sys
        BY <2>2 DEF ReadMain, CrcMatch
      <3>2. flash["main"].sys \in Nat /\ flash["main"].sys = flash["backup"].sys
        BY <1>1, <3>1, CopyFacts, Constants
      <3> QED
        BY <2>2, <3>1, <3>2 DEF Newest, Unsaved, Partition
    <2>3. CASE CheckAccepts
      <3>1. /\ UNCHANGED <<flash, job, changed>> /\ stage = "check" /\ stage' = "up"
            /\ ram'.sys = ram.sys /\ blame = {}
        BY <1>1, <2>3 DEF CheckAccepts, Ram
      <3>2. \A o \in Thread : ~Active(o)
        BY <1>1, <3>1 DEF TypeInv, ControlInv
      <3>3. ~Unsaved' /\ Newest
        BY <1>1, <3>1, <3>2 DEF Unsaved, Active, NewestInv
      <3> QED
        BY <3>1, <3>3 DEF Newest
    <2>4. CASE CheckRestores
      <3>1. flash' = flash /\ ram'.sys = Fresh
        BY <2>4 DEF CheckRestores, Restore, StartSave
      <3> QED
        BY <1>1, <3>1, FreshNewest
    <2> QED
      <3>1. LoaderSkips \/ LoaderReads \/ LoaderErases \/ LoaderWritesBack \/ LoaderError
               \/ ReadNeither \/ ReadMainBroken =>
                  stage' \in {"ldErase", "ldWrite", "read", "recover"}
        BY DEF LoaderSkips, LoaderReads, LoaderErases, LoaderWritesBack, LoaderError,
               ReadNeither, ReadMainBroken
      <3>2. ReadMain => stage' \in {"check", "recover"}
        BY DEF ReadMain
      <3> QED
        BY <1>8, <2>1, <2>2, <2>3, <2>4, <3>1, <3>2 DEF Start
  <1>9. CASE UNCHANGED vars
    <2>1. UNCHANGED <<flash, ram, job, changed, stage>> /\ Newest
      BY <1>9 DEF vars, NewestInv
    <2> QED
      BY <2>1 DEF Newest, Unsaved, Active
  <1> QED
    BY <1>2, <1>3, <1>4, <1>5, <1>6, <1>7, <1>8, <1>9 DEF Next

(* SafeInv, and what the two saves and the start leave in ram.             *)
StoreInv == SafeAll /\ NewestInv

LEMMA StoreStart == Init => StoreInv
  <1> SUFFICES ASSUME Init PROVE StoreInv
    OBVIOUS
  <1>1. SafeAll
    BY SafeStart
  <1> QED
    BY <1>1 DEF Init, StoreInv, NewestInv, JobRamInv

LEMMA StoreStep == StoreInv /\ [Next]_vars => StoreInv'
  <1> SUFFICES ASSUME StoreInv, [Next]_vars PROVE StoreInv'
    OBVIOUS
  <1>1. SafeAll /\ NewestInv /\ SafeAll'
    BY SafeStep DEF StoreInv
  <1>2. (changed # {} => stage = "up")' /\ JobRamInv'
    BY <1>1, JobRamStep DEF SafeAll, NewestInv
  <1>3. blame' = {} => Newest'
    BY <1>1, NewestStep DEF SafeAll
  <1> QED
    BY <1>1, <1>2, <1>3 DEF StoreInv, NewestInv

-----------------------------------------------------------------------------
(* The store that two copies implement.                                    *)

Loader == {"ldErase", "ldWrite"}                      (* main is in its RAM *)

(* A step after which every whole copy is one there was before.            *)
LEMMA DropStep ==
    ASSUME TypeInv', CopyInv', acked' = acked,
           \A q \in Partition : Whole(flash'[q]) => \E d \in Sources : d = flash'[q],
           stage' \in Loader => kept' \in Sources
    PROVE  SS!Drop
  <1>1. \A d \in Sources' : Whole(d) => d \in Sources
    BY Constants DEF Sources, Loader
  <1>2. Candidates' \subseteq Candidates
    BY <1>1 DEF Candidates
  <1>3. PICK q \in Partition : Whole(flash'[q])
    BY Constants DEF CopyInv
  <1>4. flash'[q] \in Sources'
    BY <1>3 DEF Sources, Partition
  <1>5. Settings(flash'[q]) \in Candidates'
    BY <1>3, <1>4 DEF Candidates
  <1> QED
    BY <1>2, <1>5 DEF SS!Drop

(* The candidates are the settings of the whole copies in flash.           *)
LEMMA CandidatesForm ==
    ASSUME NEW x, stage \notin Loader
    PROVE  x \in Candidates <=> \E q \in Partition : Whole(flash[q]) /\ x = Settings(flash[q])
  <1>1. Sources = {flash["main"], flash["backup"]}
    BY DEF Sources, Loader
  <1> QED
    BY <1>1 DEF Candidates, Partition

LEMMA CandidatesFormNext ==
    ASSUME NEW x, stage' \notin Loader
    PROVE  x \in Candidates' <=> \E q \in Partition : Whole(flash'[q]) /\ x = Settings(flash'[q])
  <1>1. Sources' = {flash'["main"], flash'["backup"]}
    BY DEF Sources, Loader
  <1> QED
    BY <1>1 DEF Candidates, Partition, Settings

(* The last CRC settles what was disturbed.                                *)
LEMMA SettleStep ==
    ASSUME TypeInv, TypeInv', blame # {}, NEW p \in Thread, WriteCrc(p), blame' = {}
    PROVE  SS!Settle
  <1>1. Settled(p) /\ job[p].last = job[p].part
    BY CrcWritten
  <1>2. \A q \in Partition :
           /\ Whole(flash'[q]) /\ job[p].crc # Zero
           /\ flash'[q].sys = job[p].crc[1] /\ flash'[q].user = job[p].crc[2]
    BY <1>1, CopyFactsNext DEF Settled
  <1>3. acked' = job[p].crc[1]
    BY <1>1, <1>2, CrcWritten, Constants
  <1>4. stage' \notin Loader
    <2>1. /\ Active(p) /\ (Active(p)' => stage' = stage)
          /\ ~Active(p)' => stage' \in IF p # Boot THEN {stage}
                                       ELSE IF stage = "recover" THEN {"check"}
                                       ELSE {"up", "stopped"}
      BY FlashStepForm DEF FlashStep
    <2> QED
      BY <2>1 DEF TypeInv, ControlInv, Loader
  <1> DEFINE s == [sys |-> job[p].crc[1], user |-> job[p].crc[2]]
  <1>5. \A q \in Partition : Settings(flash'[q]) = s
    BY <1>2 DEF Settings
  <1>6. Candidates' = {s}
    BY <1>2, <1>4, <1>5, CandidatesFormNext, Constants
  <1> QED
    BY <1>3, <1>6 DEF SS!Settle

(* The steps of the one job under way.                                     *)
LEMMA JobImplements ==
    ASSUME StoreInv, StoreInv', blame = {}, NEW p \in Thread, FlashStep(p), blame' = {}
    PROVE  SS!Put \/ SS!Drop \/ SS!Acknowledge
  <1>1. /\ TypeInv /\ TypeInv' /\ JobInv /\ CopyInv /\ CopyInv' /\ Newest
        /\ flash \in [Partition -> Copy] /\ flash' \in [Partition -> Copy]
    BY DEF StoreInv, SafeAll, SafeInv, NewestInv, TypeInv, TypeOK
  <1>2. /\ Active(p) /\ UNCHANGED <<ram, kept>>
        /\ \A r \in Partition : r # job[p].part => flash'[r] = flash[r]
        /\ Active(p)' => job'[p].crc = job[p].crc /\ stage' = stage
        /\ ~Active(p)' => stage' \in IF p # Boot THEN {stage}
                                     ELSE IF stage = "recover" THEN {"check"}
                                     ELSE {"up", "stopped"}
    BY <1>1, FlashStepForm
  <1>3. /\ stage \in {"recover", "default", "up"} /\ stage \notin Loader /\ stage' \notin Loader
        /\ ram.sys \in Nat /\ job[p].part \in Partition
    <2>1. (p = Boot /\ stage \in {"recover", "default"}) \/ (p # Boot /\ stage = "up")
      BY <1>1, <1>2 DEF TypeInv, ControlInv
    <2> QED
      BY <1>1, <1>2, <2>1, JobPart DEF TypeInv, NumberInv, Reads, Loader
  <1>4. Tracked(p)
    BY <1>1, <1>2 DEF JobInv
  <1>5. \A q \in Partition : flash[q] \in Sources
    BY DEF Sources, Partition
  <1>6. CASE Erase(p) \/ WriteSys(p) \/ WriteUser(p)
    <2>1. ~Whole(flash'[job[p].part]) /\ acked' = acked
      BY <1>1, <1>4, <1>6, CellNotWhole DEF Erase, WriteSys, WriteUser
    <2>2. \A q \in Partition : Whole(flash'[q]) => \E d \in Sources : d = flash'[q]
      BY <1>2, <1>5, <2>1
    <2> QED
      BY <1>1, <1>3, <2>1, <2>2, DropStep
  <1>7. CASE WriteCrc(p)
    <2>1. flash'[job[p].part] = [sys |-> ram.sys, user |-> ram.user, crc |-> job[p].crc]
      BY <1>1, <1>4, <1>7, CrcWritten
    <2>2. /\ flash'[job[p].part].sys = ram.sys /\ flash'[job[p].part].user = ram.user
          /\ flash'[job[p].part].crc = job[p].crc
      BY <2>1
    <2>3. ~Whole(flash[job[p].part])
      <3>1. flash[job[p].part].crc = Blank
        BY <1>4, <1>7 DEF Tracked, WriteCrc
      <3> QED
        BY <1>1, <1>3, <3>1, CopyFacts
    (* The first copy of a save.                                           *)
    <2>4. CASE job[p].part = "main" /\ job[p].last = "backup"
      <3>1. /\ Whole(flash["backup"]) /\ flash'["backup"] = flash["backup"] /\ acked' = acked
            /\ stage # "recover"
        BY <1>1, <1>2, <1>7, <2>4, CrcWritten, Constants DEF JobInv
      <3>2. \A x : x \in Candidates <=> x = Settings(flash["backup"])
        BY <1>3, <2>3, <2>4, <3>1, CandidatesForm DEF Partition
      <3>3. /\ flash["backup"].sys \in Nat /\ flash["backup"].sys <= ram.sys
            /\ flash["backup"].sys = ram.sys => flash["backup"].user = ram.user
        BY <1>1, <1>2, <1>3, <3>1, CopyFacts, Constants DEF Newest, Unsaved
      <3>4. CASE Whole(flash'["main"])
        <4>1. Settings(flash'["main"]) = Settings(ram)
          BY <2>2, <2>4 DEF Settings
        <4>2. \A x : x \in Candidates' <=> x = Settings(ram) \/ x = Settings(flash["backup"])
          BY <1>3, <3>1, <3>4, <4>1, CandidatesFormNext DEF Partition
        <4>3. CASE flash["backup"].sys = ram.sys
          <5>1. Settings(flash["backup"]) = Settings(ram)
            BY <3>3, <4>3 DEF Settings
          <5> QED
            BY <3>1, <3>2, <4>2, <5>1 DEF SS!Drop
        <4>4. CASE flash["backup"].sys # ram.sys
          <5>1. flash["backup"].sys < ram.sys
            BY <1>3, <3>3, <4>4
          <5>2. Settings(flash["backup"]).sys < Settings(ram).sys
            BY <5>1 DEF Settings
          <5>3. /\ Candidates = {Settings(flash["backup"])}
                /\ Candidates' = Candidates \cup {Settings(ram)}
            BY <3>2, <4>2
          <5>4. UNCHANGED Settings(ram)
            BY <1>2
          <5> QED
            BY <3>1, <5>2, <5>3, <5>4 DEF SS!Put
        <4> QED
          BY <4>3, <4>4
      <3>5. CASE ~Whole(flash'["main"])
        <4>1. \A q \in Partition : Whole(flash'[q]) => \E d \in Sources : d = flash'[q]
          BY <1>5, <3>1, <3>5 DEF Partition
        <4> QED
          BY <1>1, <1>3, <3>1, <4>1, DropStep
      <3> QED
        BY <3>4, <3>5
    (* The second one, or a repair: both copies carry the same CRC.        *)
    <2>5. ASSUME NEW q \in Partition, q # job[p].part, job[p].last = job[p].part,
                 Whole(flash[q]), flash[q].crc = job[p].crc
          PROVE  SS!Acknowledge
      <3>1. /\ flash'[q] = flash[q] /\ job[p].crc # Zero /\ job[p].crc[1] = flash[q].sys
            /\ job[p].crc[2] = flash[q].user
            /\ \A r \in Partition : r = q \/ r = job[p].part
        BY <1>1, <1>2, <1>3, <2>5, CopyFacts DEF Partition
      <3>2. acked' = flash[q].sys
        BY <1>1, <1>7, <2>5, <3>1, CrcWritten
      <3>3. Whole(flash'[job[p].part]) => Settings(flash'[job[p].part]) = Settings(flash[q])
        BY <1>1, <1>3, <2>2, <3>1, CopyFactsNext DEF Settings
      <3>4. \A x : x \in Candidates <=> x = Settings(flash[q])
        BY <1>3, <2>3, <2>5, <3>1, CandidatesForm
      <3>5. \A x : x \in Candidates' <=> x = Settings(flash[q])
        BY <1>3, <2>5, <3>1, <3>3, CandidatesFormNext
      <3>6. Candidates = {Settings(flash[q])} /\ Candidates' = Candidates
        BY <3>4, <3>5
      <3>7. acked' = Settings(flash[q]).sys /\ UNCHANGED Settings(ram)
        BY <1>2, <3>2 DEF Settings
      <3> QED
        BY <3>6, <3>7 DEF SS!Acknowledge
    <2>6. CASE job[p].part = "backup"
      <3>1. /\ job[p].last = job[p].part /\ Whole(flash["main"])
            /\ flash["main"].crc = job[p].crc
        BY <1>1, <1>2, <2>6 DEF JobInv
      <3> QED
        BY <2>5, <2>6, <3>1, Constants
    <2>7. CASE job[p].part = "main" /\ job[p].last # "backup"
      <3>1. /\ job[p].last = job[p].part /\ Whole(flash["backup"])
            /\ flash["backup"].crc = job[p].crc
        BY <1>1, <1>2, <2>7 DEF JobInv
      <3> QED
        BY <2>5, <2>7, <3>1, Constants
    <2> QED
      BY <1>3, <2>4, <2>6, <2>7 DEF Partition
  <1> QED
    BY <1>6, <1>7 DEF FlashStep

(* The other steps only drop copies.                                       *)
LEMMA OtherImplements ==
    ASSUME StoreInv, StoreInv', blame = {}, blame' = {},
           \/ PowerFail \/ Start \/ UNCHANGED vars
           \/ \E p \in Locker : Save(p)
           \/ \E p \in Unlocked : Change(p) \/ SaveUnlocked(p)
    PROVE  SS!Drop
  <1>1. /\ TypeInv /\ TypeInv' /\ CopyInv' /\ flash \in [Partition -> Copy]
    BY DEF StoreInv, SafeAll, SafeInv, TypeInv, TypeOK
  <1>2. \A q \in Partition : flash[q] \in Sources
    BY DEF Sources, Partition
  <1>3. stage \in Loader => kept \in Sources
    BY DEF Sources, Loader
  <1>4. CASE UNCHANGED <<flash, acked>> /\ stage' \notin Loader
    BY <1>1, <1>2, <1>4, DropStep
  <1>5. CASE PowerFail
    <2>1. /\ acked' = acked /\ stage' \notin Loader
          /\ \/ flash' \in {flash, [flash EXCEPT !["main"] = TornCopy]}
             \/ \E T \in SUBSET {p \in Thread : Active(p)} : flash' = TornFlash(T)
      BY <1>5 DEF PowerFail, Loader
    <2>2. \A q \in Partition : flash'[q] = flash[q] \/ ~Whole(flash'[q])
      <3>1. CASE flash' \in {flash, [flash EXCEPT !["main"] = TornCopy]}
        <4>1. /\ flash'["backup"] = flash["backup"]
              /\ flash'["main"] = flash["main"] \/ flash'["main"].sys = Torn
          BY <1>1, <3>1, Constants DEF TornCopy
        <4> QED
          BY <1>1, <4>1, CopyFactsNext, Constants DEF Partition
      <3>2. ASSUME NEW T \in SUBSET {p \in Thread : Active(p)}, flash' = TornFlash(T)
            PROVE  \A q \in Partition : flash'[q] = flash[q] \/ ~Whole(flash'[q])
        BY <1>1, <3>2, TornFlashForm, CopyFactsNext DEF TypeInv
      <3> QED
        BY <2>1, <3>1, <3>2
    <2>3. \A q \in Partition : Whole(flash'[q]) => \E d \in Sources : d = flash'[q]
      BY <1>2, <2>2
    <2> QED
      BY <1>1, <2>1, <2>3, DropStep
  <1>6. CASE LoaderReads
    <2>1. UNCHANGED <<flash, acked>> /\ kept' = flash["main"]
      BY <1>6 DEF LoaderReads
    <2>2. \A q \in Partition : Whole(flash'[q]) => \E d \in Sources : d = flash'[q]
      BY <1>2, <2>1
    <2> QED
      BY <1>1, <1>2, <2>1, <2>2, Constants, DropStep
  <1>7. CASE LoaderErases
    <2>1. /\ UNCHANGED <<kept, acked>> /\ stage \in Loader
          /\ flash' = [flash EXCEPT !["main"] = Erased]
      BY <1>7 DEF LoaderErases, Loader
    <2>2. flash'["main"].crc = Blank /\ flash'["backup"] = flash["backup"]
      BY <1>1, <2>1, Constants DEF Erased
    <2>3. ~Whole(flash'["main"])
      BY <1>1, <2>2, CopyFactsNext, Constants
    <2>4. \A q \in Partition : Whole(flash'[q]) => \E d \in Sources : d = flash'[q]
      BY <1>2, <2>2, <2>3 DEF Partition
    <2> QED
      BY <1>1, <1>3, <2>1, <2>4, DropStep
  <1>8. CASE LoaderWritesBack
    <2>1. /\ acked' = acked /\ stage \in Loader /\ stage' \notin Loader
          /\ flash' = [flash EXCEPT !["main"] = kept]
      BY <1>8 DEF LoaderWritesBack, Loader
    <2>2. flash'["main"] = kept /\ flash'["backup"] = flash["backup"]
      BY <1>1, <2>1, Constants
    <2>3. \A q \in Partition : Whole(flash'[q]) => \E d \in Sources : d = flash'[q]
      BY <1>2, <1>3, <2>1, <2>2 DEF Partition
    <2> QED
      BY <1>1, <2>1, <2>3, DropStep
  <1>9. CASE UNCHANGED vars
    <2>1. UNCHANGED <<flash, acked, stage, kept>>
      BY <1>9 DEF vars
    <2>2. \A q \in Partition : Whole(flash'[q]) => \E d \in Sources : d = flash'[q]
      BY <1>2, <2>1
    <2> QED
      BY <1>1, <1>3, <2>1, <2>2, DropStep
  <1>10. \/ LoaderSkips \/ ReadNeither \/ ReadMainBroken \/ ReadMain
         \/ CheckAccepts \/ CheckRestores
         \/ \E p \in Locker : Save(p)
         \/ \E p \in Unlocked : Change(p) \/ SaveUnlocked(p)
         => UNCHANGED <<flash, acked>> /\ stage' \notin Loader
    BY DEF LoaderSkips, ReadNeither, ReadMainBroken, ReadMain, CheckAccepts, CheckRestores,
           Restore, Save, Change, SaveUnlocked, Loader
  <1>11. ~LoaderError
    BY DEF LoaderError
  <1> QED
    BY <1>4, <1>5, <1>6, <1>7, <1>8, <1>9, <1>10, <1>11 DEF Start

(* A step that ends a disturbance is the last CRC of a save or repair.     *)
LEMMA StoreImplements ==
    ASSUME StoreInv, StoreInv', [Next]_vars
    PROVE  [SS!SSNext]_(SS!ssvars)
  <1> SUFFICES ASSUME blame' = {} PROVE SS!SSNext
    BY DEF SS!SSNext
  <1>1. TypeInv /\ TypeInv'
    BY DEF StoreInv, SafeAll
  <1>2. CASE blame = {}
    <2>1. ASSUME NEW p \in Thread, FlashError(p) PROVE FALSE
      BY <2>1 DEF FlashError
    <2>2. SS!Put \/ SS!Drop \/ SS!Acknowledge
      BY <1>2, <2>1, JobImplements, OtherImplements DEF Next
    <2> QED
      BY <1>2, <2>2 DEF SS!SSNext
  <1>3. CASE blame # {}
    <2>1. PICK p \in Thread : WriteCrc(p)
      BY <1>3 DEF Next, vars, FlashStep, Erase, WriteSys, WriteUser, FlashError, Save, Change,
                  SaveUnlocked, PowerFail, Start, LoaderSkips, LoaderReads, LoaderErases,
                  LoaderWritesBack, LoaderError, ReadNeither, ReadMainBroken, ReadMain,
                  CheckAccepts, CheckRestores, Restore
    <2>2. SS!Settle
      BY <1>1, <1>3, <2>1, SettleStep
    <2> QED
      BY <2>2 DEF SS!SSNext
  <1> QED
    BY <1>2, <1>3

(* A new device has no whole copy.                                         *)
LEMMA StoreImplementsInit == Init => SS!SSInit
  <1> SUFFICES ASSUME Init PROVE SS!SSInit
    OBVIOUS
  <1>1. TypeInv
    BY TypeInit
  <1>2. stage \notin Loader /\ \A q \in Partition : flash[q].crc = Blank
    BY DEF Init, Erased, Loader
  <1>3. \A q \in Partition : ~Whole(flash[q])
    BY <1>1, <1>2, CopyFacts
  <1>4. Candidates = {}
    BY <1>2, <1>3, CandidatesForm
  <1> QED
    BY <1>4 DEF Init, SS!SSInit

(* StoreSpec: the two copies implement the store that holds one value, in  *)
(* which a save takes effect as a whole, in whatever order saves, repairs, *)
(* installations and power failures come                                   *)
(* (mico_system_para_storage.c:68-126, 231-292).                           *)
THEOREM ImplementsSettingsStore == Spec => StoreSpec
  <1>1. StoreInv /\ [Next]_vars => StoreInv'
    BY StoreStep
  <1>2. StoreInv /\ StoreInv' /\ [Next]_vars => [SS!SSNext]_(SS!ssvars)
    BY StoreImplements
  <1> QED
    BY <1>1, <1>2, StoreStart, StoreImplementsInit, PTL DEF Spec, StoreSpec, SS!SSSpec
=============================================================================
