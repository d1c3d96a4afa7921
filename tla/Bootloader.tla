----------------------------- MODULE Bootloader -----------------------------
(***************************************************************************)
(* Firmware update over the serial line: iap_run of the NUC131 bootloader   *)
(* against the flashing tool of the repository, over a line that loses and  *)
(* damages bytes and a flash that may lose its power at any moment.         *)
(*                                                                         *)
(* One record of 128 bytes is one slot of the flash; PageRecs slots are     *)
(* erased together. The image that was there before is "old", the one sent  *)
(* is "new"; "head" is a slot with only its first words programmed.  Slot 1 *)
(* begins with the vectors.  What a cut erase, a worn cell or a wrong key   *)
(* leaves is "bogus" if it happens to pass the vector check and "junk" if   *)
(* not; the checks of iap_run and of jump_to_app, which leaves out the      *)
(* range of the reset vector, are taken as one.                             *)
(***************************************************************************)
EXTENDS Naturals, Sequences

CONSTANTS
  Slots,      \* records the application partition holds
  PageRecs,   \* records of one flash page (4 in the code)
  OldSize,    \* records of the image in the flash
  NewSize,    \* records of the image to be sent
  IdleLimit,  \* prompts without an answer before the box gives up (300)
  MaxReply,   \* bound: bytes the tool's input buffer holds
  MaxFaults   \* bound: faults of line, power and flash

ASSUME SizesFit == /\ PageRecs \in Nat \ {0}
                   /\ Slots \in Nat \ {0}
                   /\ OldSize \in 1..Slots
                   /\ NewSize \in 1..Slots
ASSUME LimitsPositive == IdleLimit \in Nat \ {0} /\ MaxReply \in Nat \ {0} /\ MaxFaults \in Nat

VARIABLES
  flash,     \* contents of the slots
  token,     \* the boot token in SRAM is set
  pc,        \* where the box is
  appValid,  \* app_valid, as last computed
  idle,      \* idle_prompts
  acc,       \* the ACC line that keeps the head unit awake
  key,       \* the key of the last header record
  work,      \* the record being written
  line,      \* what is on its way to the box
  reply,     \* bytes the tool has not read
  phase,     \* where the tool is
  next,      \* the record the tool sent last, 0 the header
  faults     \* faults so far

memory == <<flash, token>>
box  == <<pc, appValid, idle, acc, key, work>>
host == <<phase, next>>
updateVars == <<memory, box, line, reply, host, faults>>

Content == {"old", "new", "head", "blank", "junk", "bogus"}
Undefined == {"junk", "bogus"}
Item == [kind : {"none", "trigger", "password", "header", "data", "scraps"},
         seq : 0..NewSize, sound : BOOLEAN]
Bytes(k) == [kind |-> k, seq |-> 0, sound |-> TRUE]
Nothing == Bytes("none")
Record(k) == [kind |-> IF k = 0 THEN "header" ELSE "data", seq |-> k, sound |-> TRUE]

\* app_valid: initial stack pointer and reset vector look right
Valid(f) == f[1] \in {"old", "new", "head", "bogus"}
Installed == \A k \in 1..NewSize : flash[k] = "new"
Whole == Installed \/ \A k \in 1..OldSize : flash[k] = "old"

\* Mutant: every record erases its page.
PageStartAlways(k) == k > 0
PageStart(k) == (k - 1) % PageRecs = 0
Page(k) == {j \in 1..Slots : (j - 1) \div PageRecs = (k - 1) \div PageRecs}

\* idle_prompts stops at its limit
Counted(n) == IF n < IdleLimit THEN n + 1 ELSE n

Listening == phase \notin {"idle", "done"}
Say(b) == reply' = IF Listening /\ Len(reply) < MaxReply THEN Append(reply, b) ELSE reply

Unheard(b) == \A i \in DOMAIN reply : reply[i] # b

UpdateInit ==
  /\ flash = [k \in 1..Slots |-> IF k <= OldSize THEN "old" ELSE "blank"]
  /\ token = FALSE /\ pc = "reset" /\ appValid = FALSE /\ idle = 0 /\ acc = FALSE
  /\ key = "none" /\ work = 1
  /\ line = Nothing /\ reply = <<>> /\ phase = "idle" /\ next = 0 /\ faults = 0

-----------------------------------------------------------------------------
(* The box.  Every start clears the receive FIFO and drives ACC.            *)

Boot ==
  /\ pc = "reset"
  /\ acc' = TRUE /\ line' = Nothing /\ appValid' = Valid(flash)
  /\ IF ~token /\ Valid(flash)
       THEN pc' = "listen" /\ UNCHANGED <<token, idle>>
       ELSE pc' = "prompt" /\ token' = FALSE /\ idle' = 0
  /\ UNCHANGED <<flash, key, work, reply, host, faults>>

\* Mutant: there is no rescue window.
RescueNever ==
  /\ pc = "listen" /\ line.kind = "trigger"
  /\ pc' = "app" /\ line' = Nothing
  /\ UNCHANGED <<memory, appValid, idle, acc, key, work, reply, host, faults>>

\* an upgrade command within 50 ms of a cold start keeps the box here
Rescue ==
  /\ pc = "listen" /\ line.kind = "trigger"
  /\ pc' = "prompt" /\ token' = FALSE /\ idle' = 0 /\ line' = Nothing
  /\ UNCHANGED <<flash, appValid, acc, key, work, reply, host, faults>>

LeaveWindow ==
  /\ pc = "listen" /\ line.kind # "trigger"
  /\ pc' = "app" /\ line' = Nothing
  /\ UNCHANGED <<memory, appValid, idle, acc, key, work, reply, host, faults>>

\* every round begins with a prompt; the tool ignores what follows the first
Prompt == IF reply = <<>> THEN Say("U") ELSE UNCHANGED reply

\* no answer within 100 ms; a tool that hears a prompt answers in 50
PromptUnanswered ==
  /\ pc = "prompt" /\ line = Nothing /\ (phase = "trigger" => Unheard("U"))
  /\ Prompt
  /\ idle' = Counted(idle)
  /\ LET givesUp == idle + 1 >= IdleLimit IN
       /\ pc' = IF givesUp /\ appValid THEN "app" ELSE pc
       /\ acc' = (acc /\ ~(givesUp /\ ~appValid))
  /\ UNCHANGED <<memory, appValid, key, work, line, host, faults>>

PromptPassword ==
  /\ pc = "prompt" /\ line.kind = "password"
  /\ pc' = "session" /\ acc' = TRUE /\ key' = "none" /\ line' = Nothing
  /\ Say("BS")
  /\ UNCHANGED <<memory, appValid, idle, work, host, faults>>

\* a repeated trigger is drained; other bytes may contain its first one
PromptOther ==
  /\ pc = "prompt" /\ line.kind \notin {"none", "password"}
  /\ idle' \in IF line.kind = "trigger" THEN {0} ELSE {0, idle}
  /\ line' = Nothing /\ Prompt
  /\ UNCHANGED <<memory, pc, appValid, acc, key, work, host, faults>>

\* Mutant: the result of the first look decides.
EndSessionStale(f) ==
  /\ UNCHANGED appValid
  /\ pc' = IF appValid THEN "app" ELSE "prompt"
  /\ idle' = IF appValid THEN idle ELSE 0

\* the flash is locked and the vectors are looked at again
EndSession(f) ==
  /\ appValid' = Valid(f)
  /\ pc' = IF Valid(f) THEN "app" ELSE "prompt"
  /\ idle' = IF Valid(f) THEN idle ELSE 0

ReadHeader ==
  /\ pc = "session" /\ line.kind = "header"
  /\ key' = IF line.sound THEN "right" ELSE "wrong"
  /\ line' = Nothing /\ Say("S")
  /\ UNCHANGED <<memory, pc, appValid, idle, acc, work, host, faults>>

\* nothing for five seconds, or less than a whole record
Timeout ==
  /\ pc = "session"
  /\ \/ line.kind \in {"trigger", "password", "scraps"}
     \/ line = Nothing /\ reply = <<>> /\ phase # "stream"
  /\ line' = Nothing /\ Say("T") /\ EndSession(flash)
  /\ UNCHANGED <<memory, acc, key, work, host, faults>>

Sound(r) == r.sound
InFlash(r) == r.seq \in 1..Slots

\* 'C', 'Z' or 'F'
Refuse ==
  /\ pc = "session" /\ line.kind = "data" /\ ~(Sound(line) /\ InFlash(line))
  /\ line' = Nothing /\ Say("C") /\ EndSession(flash)
  /\ UNCHANGED <<memory, acc, key, work, host, faults>>

Accept ==
  /\ pc = "session" /\ line.kind = "data" /\ Sound(line) /\ InFlash(line)
  /\ work' = line.seq
  /\ pc' = IF PageStart(line.seq) THEN "erase" ELSE "program"
  /\ line' = Nothing
  /\ UNCHANGED <<memory, appValid, idle, acc, key, reply, host, faults>>

Erase ==
  /\ pc = "erase"
  /\ flash' = [k \in 1..Slots |-> IF k \in Page(work) THEN "blank" ELSE flash[k]]
  /\ pc' = "program"
  /\ UNCHANGED <<token, appValid, idle, acc, key, work, line, reply, host, faults>>

\* words are programmed in ascending order, each one read back
ProgramHead ==
  /\ pc = "program" /\ flash[work] = "blank"
  /\ \E c \in IF key = "right" THEN {"head"} ELSE Undefined :
       flash' = [flash EXCEPT ![work] = c]
  /\ pc' = "write"
  /\ UNCHANGED <<token, appValid, idle, acc, key, work, line, reply, host, faults>>

\* the record that carries the end flag starts the application; should its
\* vectors be wrong, main returns into Default_Handler, a reset
ProgramRest ==
  /\ pc = "write"
  /\ flash' = [flash EXCEPT ![work] = IF key = "right" THEN "new" ELSE @]
  /\ IF work = NewSize
       THEN /\ Say("E")
            /\ pc' = IF Valid(flash') THEN "app" ELSE "reset"
            /\ acc' = (acc /\ Valid(flash'))
       ELSE Say("S") /\ pc' = "session" /\ UNCHANGED acc
  /\ UNCHANGED <<token, appValid, idle, key, work, line, host, faults>>

\* Mutant: what does not read back is acknowledged all the same.
ProgramFailsUnseen ==
  /\ pc \in {"program", "write"} /\ faults < MaxFaults /\ faults' = faults + 1
  /\ flash' = [flash EXCEPT ![work] = IF pc = "program" THEN "junk" ELSE @]
  /\ Say("S") /\ pc' = "session"
  /\ UNCHANGED <<token, appValid, idle, acc, key, work, line, host>>

\* a cell that was not blank, or is worn, does not read back
ProgramFails ==
  /\ pc \in {"program", "write"}
  /\ IF pc = "program" /\ flash[work] # "blank"
       THEN UNCHANGED faults
       ELSE faults < MaxFaults /\ faults' = faults + 1
  /\ flash' = [flash EXCEPT ![work] = IF pc = "program" THEN "junk" ELSE @]
  /\ Say("P") /\ EndSession(flash')
  /\ UNCHANGED <<token, acc, key, work, line, host>>

\* the application: command 0xE0 sets the token and resets; what is not a
\* whole image may serve the command, ignore it, crash or hang
AppTrigger ==
  /\ pc = "app" /\ line.kind = "trigger"
  /\ token' = TRUE /\ acc' = TRUE /\ pc' = "reset" /\ line' = Nothing
  /\ UNCHANGED <<flash, appValid, idle, key, work, reply, host, faults>>

AppIgnores ==
  /\ pc = "app" /\ line.kind # "none" /\ (line.kind # "trigger" \/ ~Whole)
  /\ line' = Nothing
  /\ UNCHANGED <<memory, box, reply, host, faults>>

AppCrash ==
  /\ pc = "app" /\ ~Whole
  /\ pc' = "reset" /\ acc' = FALSE
  /\ UNCHANGED <<memory, appValid, idle, key, work, line, reply, host, faults>>

Step == \/ Boot \/ Rescue \/ LeaveWindow
        \/ PromptUnanswered \/ PromptPassword \/ PromptOther
        \/ ReadHeader \/ Timeout \/ Refuse \/ Accept
        \/ Erase \/ ProgramHead \/ ProgramRest \/ ProgramFails
        \/ AppTrigger \/ AppIgnores

-----------------------------------------------------------------------------
(* The flashing tool, started again by its user after a failure.            *)

Send(item) == line = Nothing /\ line' = item
Hear(b) == reply # <<>> /\ Head(reply) = b

StartTool ==
  /\ ~Listening
  /\ phase' = "trigger" /\ next' = 0 /\ reply' = <<>> /\ Send(Bytes("trigger"))
  /\ UNCHANGED <<memory, box, faults>>

RepeatTrigger ==
  /\ phase = "trigger" /\ reply = <<>> /\ Send(Bytes("trigger"))
  /\ UNCHANGED <<memory, box, reply, host, faults>>

SendPassword ==
  /\ phase = "trigger" /\ Hear("U")
  /\ phase' = "unlock" /\ reply' = <<>> /\ Send(Bytes("password"))
  /\ UNCHANGED <<memory, box, next, faults>>

SkipByte ==
  /\ \/ phase = "trigger" /\ reply # <<>> /\ ~Hear("U")
     \/ phase = "unlock" /\ reply # <<>> /\ ~Hear("BS")
  /\ reply' = Tail(reply)
  /\ UNCHANGED <<memory, box, line, host, faults>>

SendHeader ==
  /\ phase = "unlock" /\ Hear("BS")
  /\ phase' = "stream" /\ next' = 0 /\ reply' = Tail(reply) /\ Send(Record(0))
  /\ UNCHANGED <<memory, box, faults>>

SendRecord ==
  /\ phase = "stream" /\ Hear("S") /\ next < NewSize
  /\ next' = next + 1 /\ reply' = Tail(reply) /\ Send(Record(next + 1))
  /\ UNCHANGED <<memory, box, phase, faults>>

Succeed ==
  /\ phase = "stream" /\ Hear("E") /\ next = NewSize
  /\ phase' = "done" /\ reply' = <<>>
  /\ UNCHANGED <<memory, box, line, next, faults>>

\* the tool waits longer than a record takes to write, or a reset box to prompt
Patient == pc \in IF phase = "stream" THEN {"erase", "program", "write"} ELSE {"reset", "prompt"}

\* another byte than the one expected, or not in time
Fail ==
  /\ \/ phase = "stream" /\ reply # <<>> /\ ~Hear(IF next = NewSize THEN "E" ELSE "S")
     \/ phase = "stream" /\ reply = <<>> /\ line = Nothing /\ ~Patient
     \/ phase = "trigger" /\ Unheard("U") /\ line = Nothing /\ ~Patient
     \/ phase = "unlock" /\ Unheard("BS") /\ line = Nothing
  /\ phase' = "idle" /\ reply' = <<>>
  /\ UNCHANGED <<memory, box, line, next, faults>>

Tool == \/ SendPassword \/ SkipByte \/ SendHeader \/ SendRecord \/ Succeed

-----------------------------------------------------------------------------
(* What goes wrong, and the user who pulls the plug of a box that hangs.    *)

LoseBytes ==
  /\ line # Nothing /\ \E k \in {"none", "scraps"} : line' = Bytes(k)
  /\ UNCHANGED <<memory, box, reply, host>>

\* the key of the header is not under a checksum
Damage ==
  /\ line.kind \in {"header", "data"}
  /\ \E k \in {line.kind, "data"} : line' = [line EXCEPT !.kind = k, !.sound = FALSE]
  /\ UNCHANGED <<memory, box, reply, host>>

LoseReply ==
  /\ reply # <<>> /\ reply' = Tail(reply)
  /\ UNCHANGED <<memory, box, line, host>>

\* an erase that is cut leaves the page undefined; SRAM may keep the token
PowerLoss ==
  /\ \/ UNCHANGED flash
     \/ /\ pc = "erase"
        /\ \E c \in Undefined :
             flash' = [k \in 1..Slots |-> IF k \in Page(work) THEN c ELSE flash[k]]
  /\ token' \in {token, FALSE}
  /\ pc' = "reset" /\ acc' = FALSE
  /\ UNCHANGED <<appValid, idle, key, work, line, reply, host>>

Fault ==
  /\ faults < MaxFaults /\ faults' = faults + 1
  /\ LoseBytes \/ Damage \/ LoseReply \/ PowerLoss

Replug ==
  /\ pc = "app" /\ ~Whole /\ phase \in {"idle", "trigger"}
  /\ pc' = "reset" /\ acc' = FALSE
  /\ UNCHANGED <<memory, appValid, idle, key, work, line, reply, host, faults>>

UpdateNext == Step \/ AppCrash \/ StartTool \/ RepeatTrigger \/ Tool \/ Fail \/ Fault \/ Replug

UpdateSpec == UpdateInit /\ [][UpdateNext]_updateVars
\* the loop of the bootloader and a tool once started go on
FairUpdateSpec == UpdateSpec /\ WF_updateVars(Step) /\ WF_updateVars(Tool) /\ WF_updateVars(Fail)

-----------------------------------------------------------------------------
UpdateTypeOK ==
  /\ flash \in [1..Slots -> Content] /\ token \in BOOLEAN
  /\ pc \in {"reset", "listen", "prompt", "session", "erase", "program", "write", "app"}
  /\ appValid \in BOOLEAN /\ idle \in 0..IdleLimit /\ acc \in BOOLEAN
  /\ key \in {"none", "right", "wrong"} /\ work \in 1..Slots
  /\ line \in Item
  /\ reply \in Seq({"U", "BS", "S", "T", "C", "P", "E"}) /\ Len(reply) <= MaxReply
  /\ phase \in {"idle", "trigger", "unlock", "stream", "done"}
  /\ next \in 0..NewSize /\ faults \in 0..MaxFaults

\* A record the tool has seen acknowledged is in the flash, and a later one
\* does not take it away again.
AckedIsWritten ==
  phase = "stream" /\ pc = "session" /\ key = "right" =>
    \A k \in 1..(next - 1) : flash[k] = "new"

\* When the tool reports success the flash holds the whole image, provided the
\* key came through: whatever was lost, damaged or cut short before.
SuccessMeansImage == phase = "done" /\ key = "right" => Installed

\* Left alone the box runs the image it takes for valid, and without one it
\* lets go of the ACC line that drains the battery.
LeftAlone == <>[](phase = "idle") => []<>(IF Valid(flash) THEN pc = "app" ELSE ~acc)

\* A user who keeps trying, and pulls the plug of a box that hangs.
Persistent ==
  /\ WF_updateVars(StartTool)
  /\ SF_updateVars(StartTool /\ pc = "listen") /\ SF_updateVars(RepeatTrigger /\ pc = "listen")
  /\ SF_updateVars(Rescue) /\ SF_updateVars(Replug) /\ SF_updateVars(SendPassword)

\* No sequence of accidents makes the box unreachable for such a user.
EventuallyUpdated == Persistent => []<>(pc = "app" /\ Installed)
=============================================================================
