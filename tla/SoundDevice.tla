----------------------------- MODULE SoundDevice ----------------------------
(***************************************************************************)
(* The sound device: ViceSound and ViceSoundBaseDevice on core 1, which is *)
(* where VICE opens, writes and reopens its sound, and the VCHIQ callback  *)
(* on core 0, one step per access to a variable that both cores use.       *)
(*                                                                         *)
(* A message that core 1 sends either reaches the GPU or fails to queue;   *)
(* how many fail is bounded by MaxFailures.  The GPU itself is external:   *)
(* it answers a CONFIG or a CONTROL message with a RESULT and sends one    *)
(* COMPLETE for every chunk it was given whole after a START.  Nothing is  *)
(* assumed of the order in which the two arrive.  Sizes are in chunks.     *)
(* An assert that fails halts the machine: `asserted' names it.            *)
(***************************************************************************)
EXTENDS Integers

CONSTANTS
  MaxPieces,    \* how many CHUNK_SIZE pieces VICE writes at once
  MaxWrites,    \* bound of the model: writes in a behaviour
  MaxOpens,     \* bound of the model: how often VICE reopens the sound
  MaxControls,  \* bound of the model: how often the volume is set
  MaxFailures   \* bound of the model: messages that fail in a behaviour

ASSUME BoundsAssumption ==
  /\ MaxPieces \in Nat \ {0}
  /\ MaxWrites \in Nat
  /\ MaxOpens \in Nat
  /\ MaxControls \in Nat
  /\ MaxFailures \in Nat

VARIABLES
  state,        \* m_State, without the prefix VCHIQSound
  writePos,     \* m_nWritePos, written by core 1
  completePos,  \* m_nCompletePos, written by core 0, and by Start
  buffered,     \* bytes_buffered, as core 0 last reported it
  pc,           \* where core 1 is
  caller,       \* whose WriteChunk calls core 1 is in: Start's or AddChunk's
  left,         \* pieces that are still to be written
  service,      \* m_hService
  result,       \* m_Event and m_nResult; "asked" while the GPU owes a RESULT
  outstanding,  \* whole chunks sent whose COMPLETE core 0 has not taken
  audio,        \* whether the GPU has had a START since the last STOP
  lost,         \* history: chunks announced that no COMPLETE will come for
  cb,           \* where the callback on core 0 is
  asserted,     \* the assert that failed
  writes, opens, controls, failures   \* what the bounds count

device == << state, writePos, completePos, buffered >>
core1 == << pc, caller, left, service >>
gpu == << result, outstanding, audio, lost >>
counts == << writes, opens, controls >>
soundVars == << device, core1, gpu, cb, asserted, counts, failures >>

States == {"created", "idle", "running", "cancelled", "terminating", "error"}

TypeOK ==
  /\ state \in States
  /\ writePos \in Nat
  /\ completePos \in Nat
  /\ buffered \in Nat
  /\ pc \in {"idle", "check", "wait", "terminate", "stop", "stopped", "playback",
             "start", "connect", "config", "configWait", "control", "controlWait",
             "open", "send", "sent", "reset", "write", "count", "data", "volumeWait"}
  /\ caller \in {"Start", "AddChunk"}
  /\ left \in Nat
  /\ service \in {"none", "open"}
  /\ result \in {"none", "asked", "ok", "failed"}
  /\ outstanding \in Nat
  /\ audio \in {"stopped", "started"}
  /\ lost \in Nat
  /\ cb \in {"idle", "report", "test", "terminate"}
  /\ asserted \in {"none", "Cancel", "Playback", "Start", "Callback"}
  /\ writes \in Nat
  /\ opens \in Nat
  /\ controls \in Nat
  /\ failures \in Nat

\* The device has been allocated and Playback is about to be called.
InitDevice ==
  /\ state = "created"
  /\ writePos = 0
  /\ completePos = 0
  /\ buffered = 0
  /\ pc = "playback"
  /\ caller = "AddChunk"
  /\ left = 0
  /\ service = "none"
  /\ result = "none"
  /\ outstanding = 0
  /\ audio = "stopped"
  /\ lost = 0
  /\ cb = "idle"
  /\ asserted = "none"
  /\ writes = 0
  /\ opens = 0
  /\ controls = 0
  /\ failures = 0

\* An assert that failed has halted every core.
At(point) == asserted = "none" /\ pc = point
CallbackAt(point) == asserted = "none" /\ cb = point

Goto(from, to) == At(from) /\ pc' = to

\* Core 1 goes on, having changed nothing that another core can see.
Step(from, to) ==
  /\ Goto(from, to)
  /\ UNCHANGED << device, caller, left, service, gpu, cb,
                  asserted, counts, failures >>

\* Core 1 writes m_State.
SetState(from, to, new) ==
  /\ Goto(from, to)
  /\ state' = new
  /\ UNCHANGED << writePos, completePos, buffered, caller, left,
                  service, gpu, cb, asserted, counts, failures >>

\* A message is accepted, or fails: for want of a service, or for the GPU.
Queued == service = "open" /\ UNCHANGED failures
QueueFails ==
  \/ service = "none" /\ UNCHANGED failures
  \/ service = "open" /\ failures < MaxFailures /\ failures' = failures + 1

IsActive == state \in {"running", "cancelled", "terminating", "error"}

-----------------------------------------------------------------------------
(* ViceSoundBaseDevice::Cancel and CKernel::circle_sound_init, on core 1.  *)

\* Cancel returns at once unless the device is running.
SoundInit ==
  /\ At("idle")
  /\ opens < MaxOpens
  /\ opens' = opens + 1
  /\ IF state = "running" THEN state' = "cancelled" /\ pc' = "check"
                          ELSE pc' = "playback" /\ UNCHANGED state
  /\ UNCHANGED << writePos, completePos, buffered, caller, left,
                  service, gpu, cb, asserted, writes, controls, failures >>

\* Mutant of CheckDrained: Cancel does not wait for the chunks in flight.
CheckNothing == Step("check", "terminate")

\* if (m_nWritePos - m_nCompletePos > 0).
CheckDrained ==
  \/ writePos - completePos > 0 /\ Step("check", "wait")
  \/ writePos - completePos = 0 /\ Step("check", "terminate")

\* The yielding loop ends when core 0 has changed the state.
WaitDrained == state # "cancelled" /\ Step("wait", "stop")

SetTerminating == SetState("terminate", "stop", "terminating")

\* assert(m_State == VCHIQSoundTerminating), and the STOP message, whose
\* failure is only logged.
SendStop ==
  /\ Goto("stop", "stopped")
  /\ IF state = "terminating"
       THEN /\ \/ Queued /\ audio' = "stopped"
               \/ QueueFails /\ UNCHANGED audio
            /\ UNCHANGED asserted
       ELSE asserted' = "Cancel" /\ UNCHANGED << audio, failures >>
  /\ UNCHANGED << device, caller, left, service, result,
                  outstanding, lost, cb, counts >>

SetIdle == SetState("stopped", "playback", "idle")

-----------------------------------------------------------------------------
(* ViceSound::Playback and ViceSoundBaseDevice::Start, on core 1.          *)

\* Start gives up: m_State = VCHIQSoundError; return FALSE.
GiveUp ==
  /\ pc' = "idle"
  /\ state' = "error"
  /\ UNCHANGED << writePos, completePos, buffered, left >>

\* assert(!IsActive()).
Playback ==
  /\ Goto("playback", "start")
  /\ asserted' = IF IsActive THEN "Playback" ELSE "none"
  /\ UNCHANGED << device, caller, left, service, gpu, cb, counts,
                  failures >>

\* Start sets up a device that is new and configures one that it has set up.
\* The callback may have made it active since Playback looked.
StartCheck ==
  \/ state = "created" /\ Step("start", "connect")
  \/ state = "idle" /\ Step("start", "config")
  \/ IsActive /\ Step("start", "idle")

\* vchi_initialise, vchi_connect and vchi_service_open.
Connect ==
  /\ At("connect")
  /\ \/ /\ pc' = "config"
        /\ service' = "open"
        /\ UNCHANGED << device, left, failures >>
     \/ /\ failures < MaxFailures
        /\ failures' = failures + 1
        /\ GiveUp
        /\ UNCHANGED service
  /\ UNCHANGED << caller, gpu, cb, asserted, counts >>

\* CallMessage up to m_Event.Wait().
Call(from, to) ==
  /\ Queued
  /\ Goto(from, to)
  /\ result' = "asked"
  /\ UNCHANGED << device, left >>

\* The CONFIG message of both branches of Start, and the CONTROL message.
CallInStart(from, to) ==
  /\ At(from)
  /\ \/ Call(from, to)
     \/ QueueFails /\ GiveUp /\ UNCHANGED result
  /\ UNCHANGED << caller, service, outstanding, audio, lost, cb, asserted, counts >>

\* m_Event.Wait() returns and the result is tested.
ReturnInStart(from, to) ==
  /\ At(from)
  /\ \/ result = "ok" /\ pc' = to /\ UNCHANGED << device, left >>
     \/ result = "failed" /\ GiveUp
  /\ UNCHANGED << caller, service, gpu, cb, asserted, counts, failures >>

Config == CallInStart("config", "configWait")
ConfigDone == ReturnInStart("configWait", IF state = "created" THEN "control" ELSE "send")
Control == CallInStart("control", "controlWait")
ControlDone == ReturnInStart("controlWait", "open")

OpenAudio ==
  /\ At("open")
  /\ \/ /\ Queued
        /\ pc' = "send"
        /\ state' = "idle"
        /\ UNCHANGED << writePos, completePos, buffered, left >>
     \/ QueueFails /\ GiveUp
  /\ UNCHANGED << caller, service, gpu, cb, asserted, counts >>

\* assert(m_State == VCHIQSoundIdle), and the START message.
SendStart ==
  /\ At("send")
  /\ \/ /\ state # "idle"
        /\ asserted' = "Start"
        /\ UNCHANGED << pc, device, left, audio, failures >>
     \/ /\ state = "idle" /\ Queued
        /\ pc' = "sent"
        /\ audio' = "started"
        /\ UNCHANGED << device, left, asserted >>
     \/ state = "idle" /\ QueueFails /\ GiveUp /\ UNCHANGED << audio, asserted >>
  /\ UNCHANGED << caller, service, result, outstanding, lost, cb, counts >>

SetRunning == SetState("sent", "reset", "running")

\* vchi_get_peer_version, and m_nWritePos = m_nCompletePos = 0 if it is right.
ResetPositions ==
  /\ At("reset")
  /\ \/ /\ pc' = "write"
        /\ writePos' = 0
        /\ completePos' = 0
        /\ caller' = "Start"
        /\ left' = 2
        /\ UNCHANGED << state, buffered, failures >>
     \/ failures < MaxFailures /\ failures' = failures + 1 /\ GiveUp /\ UNCHANGED caller
  /\ UNCHANGED << service, gpu, cb, asserted, counts >>

-----------------------------------------------------------------------------
(* ViceSound::AddChunk and ViceSoundBaseDevice::WriteChunk, on core 1.     *)

\* AddChunk, when the rate limiter lets it write.
AddChunk(n) ==
  /\ Goto("idle", "write")
  /\ writes < MaxWrites
  /\ writes' = writes + 1
  /\ left' = n
  /\ UNCHANGED << device, caller, service, gpu, cb, asserted, opens,
                  controls, failures >>

\* A WriteChunk call of AddChunk returns: its result is ignored.
NextPiece == pc' = "write" /\ left' = left - 1 /\ UNCHANGED << state, caller >>

\* A WriteChunk call fails: the first to fail ends Start.
WriteFails ==
  IF caller = "Start"
    THEN pc' = "idle" /\ caller' = "AddChunk" /\ left' = 0 /\ state' = "error"
    ELSE NextPiece

\* WriteChunk up to the header; it does nothing in the states Idle and
\* Cancelled.
WriteHeader ==
  /\ At("write")
  /\ left > 0
  /\ \/ state \in {"idle", "cancelled"} /\ NextPiece /\ UNCHANGED failures
     \/ /\ state \notin {"idle", "cancelled"} /\ Queued
        /\ pc' = "count"
        /\ UNCHANGED << state, left, caller >>
     \/ state \notin {"idle", "cancelled"} /\ QueueFails /\ WriteFails
  /\ UNCHANGED << writePos, completePos, buffered, service, gpu,
                  cb, asserted, counts >>

\* Mutant of CountWritten: a write is counted once, not once for each chunk.
CountOnce ==
  /\ Goto("count", "data")
  /\ writePos' = IF left > 1 THEN writePos ELSE writePos + 1
  /\ UNCHANGED << state, completePos, buffered, caller, left,
                  service, gpu, cb, asserted, counts, failures >>

\* m_nWritePos += nBytes, before the data is sent.
CountWritten ==
  /\ Goto("count", "data")
  /\ writePos' = writePos + 1
  /\ UNCHANGED << state, completePos, buffered, caller, left,
                  service, gpu, cb, asserted, counts, failures >>

\* The data packets of a chunk; one that fails leaves the chunk incomplete.
WriteData ==
  /\ At("data")
  /\ \/ /\ Queued /\ audio = "started"
        /\ outstanding' = outstanding + 1
        /\ NextPiece
        /\ UNCHANGED lost
     \/ /\ Queued /\ audio = "stopped"
        /\ lost' = lost + 1
        /\ NextPiece
        /\ UNCHANGED outstanding
     \/ /\ QueueFails
        /\ lost' = lost + 1
        /\ WriteFails
        /\ UNCHANGED outstanding
  /\ UNCHANGED << writePos, completePos, buffered, service,
                  result, audio, cb, asserted, counts >>

WriteDone ==
  /\ left = 0
  /\ Goto("write", "idle")
  /\ caller' = "AddChunk"
  /\ UNCHANGED << device, left, service, gpu, cb, asserted,
                  counts, failures >>

-----------------------------------------------------------------------------
(* ViceSoundBaseDevice::SetControl, on core 1: its result is only logged.  *)

SetControl ==
  /\ controls < MaxControls
  /\ controls' = controls + 1
  /\ \/ Call("idle", "volumeWait")
     \/ At("idle") /\ QueueFails /\ UNCHANGED << pc, device, left, result >>
  /\ UNCHANGED << caller, service, outstanding, audio, lost, cb, asserted, writes, opens >>

SetControlDone == result \in {"ok", "failed"} /\ Step("volumeWait", "idle")

-----------------------------------------------------------------------------
(* ViceSoundBaseDevice::Callback, on core 0.                               *)

\* A RESULT message.
Result ==
  /\ CallbackAt("idle")
  /\ result = "asked"
  /\ \/ result' = "ok" /\ UNCHANGED failures
     \/ result' = "failed" /\ failures < MaxFailures /\ failures' = failures + 1
  /\ UNCHANGED << device, core1, outstanding, audio, lost, cb, asserted, counts >>

\* A COMPLETE message, up to m_nCompletePos += count.
Complete ==
  /\ CallbackAt("idle")
  /\ outstanding > 0
  /\ outstanding' = outstanding - 1
  /\ \/ state = "idle" /\ UNCHANGED << completePos, cb, asserted >>
     \/ state = "error" /\ asserted' = "Callback" /\ UNCHANGED << completePos, cb >>
     \/ /\ IsActive /\ state # "error"
        /\ completePos' = completePos + 1
        /\ cb' = "report"
        /\ UNCHANGED asserted
  /\ UNCHANGED << state, writePos, buffered, core1, result, audio, lost, counts, failures >>

\* AmountBufferedBytes.
ReportBuffered ==
  /\ CallbackAt("report")
  /\ cb' = "test"
  /\ buffered' = writePos - completePos
  /\ UNCHANGED << state, writePos, completePos, core1, gpu, asserted, counts, failures >>

\* Mutant of TestDrained: the last COMPLETE does not end a Cancel.
TestNothing ==
  /\ CallbackAt("test")
  /\ cb' = "idle"
  /\ UNCHANGED << device, core1, gpu, asserted, counts, failures >>

\* No more data left, and cancelled: the state is written in the next step.
TestDrained ==
  /\ CallbackAt("test")
  /\ cb' = IF writePos - completePos = 0 /\ state = "cancelled" THEN "terminate" ELSE "idle"
  /\ UNCHANGED << device, core1, gpu, asserted, counts, failures >>

Terminate ==
  /\ CallbackAt("terminate")
  /\ cb' = "idle"
  /\ state' = "terminating"
  /\ UNCHANGED << writePos, completePos, buffered, core1, gpu, asserted, counts, failures >>

-----------------------------------------------------------------------------

Cancelling == CheckDrained \/ WaitDrained \/ SetTerminating \/ SendStop \/ SetIdle

Starting ==
  \/ Playback \/ StartCheck \/ Connect \/ Config \/ ConfigDone \/ Control
  \/ ControlDone \/ OpenAudio \/ SendStart \/ SetRunning \/ ResetPositions

Writing == WriteHeader \/ CountWritten \/ WriteData \/ WriteDone

Vice == SoundInit \/ SetControl \/ \E n \in 1 .. MaxPieces : AddChunk(n)

Callback == Result \/ Complete \/ ReportBuffered \/ TestDrained \/ Terminate

SoundNext == Vice \/ Cancelling \/ Starting \/ Writing \/ SetControlDone \/ Callback

SoundSpec == InitDevice /\ [][SoundNext]_soundVars

\* A call that core 1 is in runs on, the GPU plays what it has and answers
\* what it is asked, and the callback on core 0 runs.
FairSpec ==
  /\ SoundSpec
  /\ WF_soundVars(Cancelling \/ Starting \/ Writing \/ SetControlDone)
  /\ WF_soundVars(Callback)

-----------------------------------------------------------------------------
(* Properties.                                                             *)

\* The difference of the two positions, which Cancel and the callback test
\* from different cores, is at every step the number of chunks that were
\* announced and have not come back (m_nWritePos, m_nCompletePos).
PositionsMatch ==
  asserted # "Callback" =>
    writePos - completePos = outstanding + lost + (IF pc = "data" THEN 1 ELSE 0)

\* The callback drops a COMPLETE in state Idle and asserts none in state
\* Created; there is never one to drop, so no chunk of the playback before is
\* counted for the one that Start begins (Callback, Cancel).
IdleIsQuiet ==
  /\ state \in {"created", "idle"} => outstanding = 0 /\ lost = 0
  /\ pc = "reset" => outstanding = 0 /\ cb = "idle"

\* VICE is never told that more is buffered than there is, a restart included:
\* bytes_buffered is not reset, so the report of the last COMPLETE must come
\* before the positions are reset (AmountBufferedBytes, Start).
ReportNeverHigh == cb # "report" => buffered <= writePos - completePos

\* The inductive strengthening, by parts: what Cancel has established by each
\* of its points, what Start relies on at each of its own, and which states
\* core 1 and the callback can be in together.
Establishing == {"connect", "control", "controlWait", "open", "send", "sent", "reset"}

CancelKnows ==
  /\ state = "cancelled" => pc \in {"check", "wait", "terminate"}
  /\ pc \in {"check", "wait"} => state \in {"cancelled", "terminating"}
  /\ pc \in {"check", "wait"} /\ (state = "terminating" \/ cb = "terminate")
       => writePos = completePos
  /\ pc \in {"terminate", "stop", "stopped"} => writePos = completePos
  /\ pc \in {"terminate", "stop", "stopped"} => outstanding = 0 /\ asserted # "Callback"

StartKnows ==
  /\ pc \in Establishing \union {"start", "config", "configWait"} /\ asserted = "none"
       => outstanding = 0 /\ lost = 0
  /\ pc \in Establishing => cb = "idle"
  /\ pc = "configWait" /\ result # "asked" => cb = "idle"
  /\ pc \in {"count", "data"} => left > 0
  /\ pc \in {"count", "data"} => state \in {"running", "terminating", "error"}

StatesAgree ==
  /\ state = "created" =>
       /\ pc \in {"playback", "start", "connect", "config", "configWait",
                  "control", "controlWait", "open"}
       /\ cb = "idle"
  /\ state = "running" => cb # "terminate"
  /\ pc \in {"connect", "control", "controlWait", "open"} => state = "created"

SoundInvariant ==
  PositionsMatch /\ IdleIsQuiet /\ ReportNeverHigh /\ CancelKnows /\ StartKnows /\ StatesAgree

\* As long as no message has failed, every call of VICE into the sound device
\* returns: Cancel's wait for the last COMPLETE ends, and so does Start's for
\* the answers of the GPU.
CallsReturn == (pc # "idle") ~> (pc = "idle" \/ asserted # "none" \/ failures > 0)

\* vicesound.cpp:42: Playback finds the device not active, after the Cancel
\* that circle_sound_init does first.
PlaybackAssert == asserted # "Playback"
=============================================================================
