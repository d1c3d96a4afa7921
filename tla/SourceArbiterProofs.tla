------------------------ MODULE SourceArbiterProofs ------------------------
(***************************************************************************)
(* SourceArbiter for every set of installed sources and every value of its *)
(* limits: a switch keeps its bookkeeping, a deferred request is never     *)
(* forgotten, and the head unit is told the truth and nothing else.        *)
(***************************************************************************)
EXTENDS SourceArbiter, TLAPS

(* The arbiter alone: in a switch it still has a target, tries left, and   *)
(* the source it pulsed from; in sync it has nothing deferred.             *)
Sound(a) ==
  /\ a \in Arbiter
  /\ a.pendingList => a.sync # "IDLE"
  /\ a.sync = "WAIT_CONFIRM" =>
       a.lastPulse = a.actual /\ a.target # None /\ a.retry + 1 <= MaxRetries

(* A handler's result: sound, and pushed only when back in sync.           *)
SoundResult(r) ==
  /\ Sound(r.arb)
  /\ r.push => r.arb.sync = "IDLE"

(* A handler other than that of 0x165 hears no source, and lifts the       *)
(* filter only with a push.                                                *)
NoQuietLift(a, r) ==
  /\ r.arb.actual = a.actual
  /\ ~r.push => r.arb.sync # "IDLE" \/ (r.arb.sync = a.sync /\ r.arb.reported = a.reported)

-----------------------------------------------------------------------------
LEMMA Results ==
  ASSUME NEW a, Sound(a)
  PROVE  /\ SoundResult(Quietly(a)) /\ Quietly(a).arb = a /\ ~Quietly(a).push
         /\ SoundResult(Pulsing(a)) /\ Pulsing(a).arb = a /\ ~Pulsing(a).push
         /\ a.sync = "IDLE" => SoundResult(Pushing(a))
         /\ Pushing(a).arb = a /\ Pushing(a).push
  BY DEF SoundResult, Quietly, Pulsing, Pushing

LEMMA PushedResult ==
  ASSUME NEW a, NEW b, Sound(b), b.sync = "IDLE", b.actual = a.actual
  PROVE  SoundResult(Pushing(b)) /\ NoQuietLift(a, Pushing(b))
  BY DEF SoundResult, NoQuietLift, Pushing

LEMMA Zeros == 0 \in 0 .. MaxRetries /\ 0 \in 0 .. MaxTicks /\ 0 \in 0 .. SettleTicks
               /\ SettleTicks \in 0 .. SettleTicks /\ MaxTicks \in Nat
  BY ArbiterAssumption DEF MaxTicks

(* A further pulse, or the end of the retries.                             *)
LEMMA RetrySound ==
  ASSUME NEW a \in Arbiter, a.sync = "WAIT_CONFIRM", a.target # None,
         a.retry + 1 <= MaxRetries
  PROVE  SoundResult(Retry(a)) /\ NoQuietLift(a, Retry(a))
<1>1. a.retry + 1 \in 0 .. MaxRetries
  BY ArbiterAssumption DEF Arbiter
<1>2. CASE a.retry + 1 >= MaxRetries
  <2> DEFINE b == [Idle(a, a.actual) EXCEPT !.retry = a.retry + 1]
  <2>1. a.actual \in Sources \cup {None}
    BY DEF Arbiter
  <2>2. Sound(b) /\ b.sync = "IDLE" /\ b.actual = a.actual
    BY <1>1, <2>1 DEF Idle, Arbiter, Sound
  <2>3. Retry(a) = Pushing(b)
    BY <1>2 DEF Retry
  <2>. QED BY <2>2, <2>3, PushedResult
<1>3. CASE ~(a.retry + 1 >= MaxRetries)
  <2>1. PICK b : b = [a EXCEPT !.retry = a.retry + 1, !.lastPulse = a.actual, !.age = 0]
    OBVIOUS
  <2>2. b \in Arbiter
    BY <1>1, <2>1, Zeros DEF Arbiter
  <2>3. /\ b.lastPulse = b.actual /\ b.target # None /\ b.sync = "WAIT_CONFIRM"
        /\ b.actual = a.actual /\ b.retry = a.retry + 1
    BY <2>1 DEF Arbiter
  <2>4. b.retry + 1 <= MaxRetries
    BY <1>1, <1>3, <2>3, ArbiterAssumption
  <2>5. Sound(b)
    BY <2>2, <2>3, <2>4 DEF Sound
  <2>6. Retry(a) = Pulsing(b)
    BY <1>3, <2>1 DEF Retry
  <2>. QED BY <2>3, <2>5, <2>6, Results DEF NoQuietLift
<1>. QED BY <1>2, <1>3

-----------------------------------------------------------------------------
(* The handler of 0x165, state by state.                                   *)
LEMMA HearOffSound ==
  ASSUME NEW a, Sound(a)
  PROVE  SoundResult(HearOff(a)) /\ HearOff(a).arb.actual = None
<1> DEFINE b == [a EXCEPT !.actual = None, !.pendingList = FALSE, !.override = FALSE,
                          !.settle = 0]
<1>1. CASE a.sync = "WAIT_CONFIRM"
  <2>1. PICK c : c = [b EXCEPT !.lastPulse = None, !.age = 0]
    OBVIOUS
  <2>2. Sound(c) /\ c.actual = None
    BY <1>1, <2>1, Zeros DEF Sound, Arbiter
  <2>3. HearOff(a) = Quietly(c)
    BY <1>1, <2>1 DEF HearOff
  <2>. QED BY <2>2, <2>3, Results
<1>2. CASE a.sync # "WAIT_CONFIRM"
  <2>1. PICK c : c = [b EXCEPT !.sync = "IDLE", !.target = None, !.retry = 0, !.reported = None]
    OBVIOUS
  <2>2. Sound(c) /\ c.actual = None
    BY <2>1, Zeros DEF Sound, Arbiter
  <2>3. HearOff(a) = Quietly(c)
    BY <1>2, <2>1 DEF HearOff
  <2>. QED BY <2>2, <2>3, Results
<1>. QED BY <1>1, <1>2
LEMMA HearIdleSound ==
  ASSUME NEW a, Sound(a), a.sync = "IDLE", NEW s \in Sources
  PROVE  SoundResult(HearIdle(a, s)) /\ HearIdle(a, s).arb.actual = s
<1>1. CASE s = a.reported \/ a.settle > 0
  <2>1. PICK c : c = [a EXCEPT !.actual = s]
    OBVIOUS
  <2>2. Sound(c) /\ c.actual = s
    BY <2>1 DEF Sound, Arbiter
  <2>3. HearIdle(a, s) = Quietly(c)
    BY <1>1, <2>1 DEF HearIdle
  <2>. QED BY <2>2, <2>3, Results
<1>2. CASE ~(s = a.reported \/ a.settle > 0)
  <2>1. PICK c : c = [a EXCEPT !.actual = s, !.sync = "DEBOUNCE", !.age = 0,
                               !.override = (s # "AUX")]
    OBVIOUS
  <2>2. Sound(c) /\ c.actual = s
    BY <2>1, Zeros DEF Sound, Arbiter
  <2>3. HearIdle(a, s) = Quietly(c)
    BY <1>2, <2>1 DEF HearIdle
  <2>. QED BY <2>2, <2>3, Results
<1>. QED BY <1>1, <1>2

LEMMA HearDebounceSound ==
  ASSUME NEW a, Sound(a), a.sync = "DEBOUNCE", NEW s \in Sources
  PROVE  SoundResult(HearDebounce(a, s)) /\ HearDebounce(a, s).arb.actual = s
<1>1. PICK c : c = [a EXCEPT !.actual = s, !.age = IF s # a.actual THEN 0 ELSE @,
                             !.override = (s # "AUX")]
  OBVIOUS
<1>2. Sound(c) /\ c.actual = s
  BY <1>1, Zeros DEF Sound, Arbiter
<1>3. HearDebounce(a, s) = Quietly(c)
  BY <1>1 DEF HearDebounce
<1>. QED BY <1>2, <1>3, Results

LEMMA HearWaitSound ==
  ASSUME NEW a, Sound(a), a.sync = "WAIT_CONFIRM", NEW s \in Sources
  PROVE  SoundResult(HearWait(a, s)) /\ HearWait(a, s).arb.actual = s
<1> DEFINE b == [a EXCEPT !.actual = s]
<1>1. /\ b \in Arbiter /\ b.actual = s /\ b.sync = "WAIT_CONFIRM" /\ b.target # None
      /\ b.retry = a.retry /\ b.retry + 1 <= MaxRetries /\ b.lastPulse = a.lastPulse
      /\ b.pendingList = a.pendingList
  BY DEF Sound, Arbiter
<1> HIDE DEF b
<1>2. CASE s = a.lastPulse
  <2>1. Sound(b)
    BY <1>1, <1>2 DEF Sound
  <2>2. HearWait(a, s) = Quietly(b)
    BY <1>2 DEF HearWait, b
  <2>. QED BY <1>1, <2>1, <2>2, Results
<1>3. CASE s # a.lastPulse /\ s = a.target
  <2> DEFINE c == [Idle(b, s) EXCEPT !.retry = 0, !.settle = SettleTicks]
  <2>1. Sound(c) /\ c.sync = "IDLE" /\ c.actual = s
    BY <1>1, Zeros DEF Idle, Arbiter, Sound
  <2>2. HearWait(a, s) = Pushing(c)
    BY <1>3 DEF HearWait, b
  <2> HIDE DEF c
  <2>. QED BY <2>1, <2>2, Results
<1>4. CASE s # a.lastPulse /\ s # a.target /\ a.retry + 1 >= MaxRetries
  <2> DEFINE n == a.retry + 1
             c == [Idle(b, s) EXCEPT !.retry = n, !.settle = 0]
  <2>1. n \in 0 .. MaxRetries
    BY <1>1, ArbiterAssumption DEF Arbiter
  <2>2. Sound(c) /\ c.sync = "IDLE" /\ c.actual = s
    BY <1>1, <2>1, Zeros DEF Idle, Arbiter, Sound
  <2>3. [Retry(b).arb EXCEPT !.settle = 0] = c
    BY <1>1, <1>4 DEF Retry, Pushing, Idle, Arbiter
  <2>4. HearWait(a, s) = Pushing(c)
    BY <1>4, <2>3 DEF HearWait, b
  <2> HIDE DEF c
  <2>. QED BY <2>2, <2>4, Results
<1>5. CASE s # a.lastPulse /\ s # a.target /\ ~(a.retry + 1 >= MaxRetries)
  <2>1. HearWait(a, s) = Retry(b)
    BY <1>5 DEF HearWait, b
  <2>2. SoundResult(Retry(b)) /\ NoQuietLift(b, Retry(b))
    BY <1>1, RetrySound
  <2>. QED BY <1>1, <2>1, <2>2 DEF NoQuietLift
<1>. QED BY <1>2, <1>3, <1>4, <1>5

LEMMA HearSound ==
  ASSUME NEW a, Sound(a), NEW s \in Sources \cup {None}
  PROVE  SoundResult(Hear(a, s)) /\ Hear(a, s).arb.actual = s
<1>1. CASE s = None
  BY <1>1, HearOffSound DEF Hear
<1>2. CASE s # None /\ a.reported = None /\ a.sync = "IDLE"
  <2>1. PICK c : c = [a EXCEPT !.actual = s, !.reported = s, !.settle = 0,
                               !.pendingList = FALSE]
    OBVIOUS
  <2>2. Sound(c) /\ c.actual = s
    BY <1>2, <2>1, Zeros DEF Sound, Arbiter
  <2>3. Hear(a, s) = Quietly(c)
    BY <1>2, <2>1 DEF Hear
  <2>. QED BY <2>2, <2>3, Results
<1>3. CASE s # None /\ ~(a.reported = None /\ a.sync = "IDLE")
  <2>1. s \in Sources
    BY <1>3
  <2>2. CASE a.sync = "IDLE"
    BY <1>3, <2>1, <2>2, HearIdleSound DEF Hear
  <2>3. CASE a.sync = "DEBOUNCE"
    BY <1>3, <2>1, <2>3, HearDebounceSound DEF Hear
  <2>4. CASE a.sync = "WAIT_CONFIRM"
    BY <1>3, <2>1, <2>4, HearWaitSound DEF Hear
  <2>. QED BY <2>2, <2>3, <2>4 DEF Sound, Arbiter
<1>. QED BY <1>1, <1>2, <1>3
(* A repeated source lifts the filter only with a push.                    *)
LEMMA HearSame ==
  ASSUME NEW a, Sound(a), NEW s \in Sources, s = a.actual,
         ~Hear(a, s).push, ~Filtered(Hear(a, s).arb)
  PROVE  ~Filtered(a)
<1>1. s # None
  BY DEF Sources, None
<1>2. CASE a.sync = "IDLE" /\ a.reported = None
  BY <1>2 DEF Filtered
<1>3. CASE a.sync = "IDLE" /\ a.reported # None
  <2>1. Hear(a, s) = HearIdle(a, s)
    BY <1>1, <1>3 DEF Hear
  <2>2. CASE s = a.reported \/ a.settle > 0
    <3>1. PICK c : c = [a EXCEPT !.actual = s]
      OBVIOUS
    <3>2. c.sync = a.sync /\ c.reported = a.reported /\ c.actual = a.actual
      BY <3>1 DEF Sound, Arbiter
    <3>3. Hear(a, s).arb = c
      BY <2>1, <2>2, <3>1 DEF HearIdle, Quietly
    <3>. QED BY <3>2, <3>3 DEF Filtered
  <2>3. CASE ~(s = a.reported \/ a.settle > 0)
    <3>1. PICK c : c = [a EXCEPT !.actual = s, !.sync = "DEBOUNCE", !.age = 0,
                                 !.override = (s # "AUX")]
      OBVIOUS
    <3>2. c.sync = "DEBOUNCE"
      BY <3>1 DEF Sound, Arbiter
    <3>3. Hear(a, s).arb = c
      BY <2>1, <2>3, <3>1 DEF HearIdle, Quietly
    <3>. QED BY <3>2, <3>3 DEF Filtered
  <2>. QED BY <2>2, <2>3
<1>4. CASE a.sync = "DEBOUNCE"
  <2>1. Hear(a, s).arb.sync = "DEBOUNCE"
    BY <1>1, <1>4 DEF Hear, HearDebounce, Quietly, Sound, Arbiter
  <2>. QED BY <2>1 DEF Filtered
<1>5. CASE a.sync = "WAIT_CONFIRM"
  <2>1. s = a.lastPulse
    BY <1>5 DEF Sound
  <2>2. Hear(a, s).arb.sync = "WAIT_CONFIRM"
    BY <1>1, <1>5, <2>1 DEF Hear, HearWait, Quietly, Sound, Arbiter
  <2>. QED BY <2>2 DEF Filtered
<1>. QED BY <1>2, <1>3, <1>4, <1>5 DEF Sound, Arbiter

-----------------------------------------------------------------------------
(* The head unit's requests and the timers.                                *)
LEMMA StartSwitchSound ==
  ASSUME NEW a, Sound(a), NEW t \in Wishes
  PROVE  SoundResult(StartSwitch(a, t)) /\ NoQuietLift(a, StartSwitch(a, t))
<1> DEFINE b == [a EXCEPT !.target = t, !.retry = 0, !.lastPulse = a.actual, !.age = 0]
           c == [b EXCEPT !.sync = "WAIT_CONFIRM"]
           d == [b EXCEPT !.sync = "IDLE", !.reported = t, !.pendingList = FALSE]
<1>1. t \in Sources /\ t # None /\ 1 <= MaxRetries
  BY ArbiterAssumption DEF Wishes, Sources, None
<1>2. b \in Arbiter /\ b.lastPulse = b.actual /\ b.actual = a.actual /\ b.target # None
      /\ b.retry = 0
  BY <1>1, Zeros DEF Sound, Arbiter
<1> HIDE DEF b
<1>3. Sound(c) /\ c.sync = "WAIT_CONFIRM" /\ c.actual = a.actual
  BY <1>1, <1>2 DEF Sound, Arbiter
<1>4. Sound(d) /\ d.sync = "IDLE" /\ d.actual = a.actual
  BY <1>1, <1>2 DEF Sound, Arbiter
<1>5. StartSwitch(a, t) = IF radio.present THEN Pulsing(c)
                          ELSE [arb |-> d, pulse |-> TRUE, push |-> TRUE]
  BY DEF StartSwitch, b
<1> HIDE DEF c, d
<1>6. CASE radio.present
  BY <1>3, <1>5, <1>6, Results DEF NoQuietLift
<1>7. CASE ~radio.present
  BY <1>4, <1>5, <1>7 DEF SoundResult, NoQuietLift
<1>. QED BY <1>6, <1>7

LEMMA SwitchSound ==
  ASSUME NEW a, Sound(a), NEW t \in Wishes
  PROVE  SoundResult(SwitchSource(a, t)) /\ NoQuietLift(a, SwitchSource(a, t))
<1>0. t \in Sources \cup {None} /\ t # None /\ a \in Arbiter
  BY DEF Wishes, Sources, None, Sound
<1>1. CASE a.actual = t /\ a.reported = t
  <2>1. SwitchSource(a, t) = Pushing(Idle(a, t))
    BY <1>1 DEF SwitchSource
  <2>2. Sound(Idle(a, t)) /\ Idle(a, t).sync = "IDLE" /\ Idle(a, t).actual = a.actual
    BY <1>0 DEF Idle, Arbiter, Sound
  <2>. QED BY <2>1, <2>2, PushedResult
<1>2. CASE ~(a.actual = t /\ a.reported = t) /\ a.sync # "IDLE" /\ a.actual = t
  <2> DEFINE c == [Idle(a, t) EXCEPT !.retry = 0]
  <2>1. SwitchSource(a, t) = Pushing(c)
    BY <1>2 DEF SwitchSource
  <2>2. Sound(c) /\ c.sync = "IDLE" /\ c.actual = a.actual
    BY <1>0, Zeros DEF Idle, Arbiter, Sound
  <2>. QED BY <2>1, <2>2, PushedResult
<1>3. CASE a.actual # t /\ a.sync = "WAIT_CONFIRM"
  <2> DEFINE c == [a EXCEPT !.target = t]
  <2>1. SwitchSource(a, t) = Quietly(c)
    BY <1>3 DEF SwitchSource
  <2>2. Sound(c) /\ c.sync = "WAIT_CONFIRM" /\ c.actual = a.actual
    BY <1>0, <1>3 DEF Sound, Arbiter
  <2>. QED BY <2>1, <2>2, Results DEF NoQuietLift
<1>4. CASE /\ ~(a.actual = t /\ a.reported = t) /\ ~(a.sync # "IDLE" /\ a.actual = t)
           /\ a.sync # "WAIT_CONFIRM"
  BY <1>4, StartSwitchSound DEF SwitchSource
<1>. QED BY <1>1, <1>2, <1>3, <1>4

LEMMA TimersSound ==
  ASSUME NEW a, Sound(a)
  PROVE  SoundResult(CheckTimers(a)) /\ NoQuietLift(a, CheckTimers(a))
<1>1. CASE a.sync = "DEBOUNCE" /\ a.age >= DebounceTicks
  <2> DEFINE c == [Idle(a, a.actual) EXCEPT !.target = a.target]
  <2>1. CheckTimers(a) = Pushing(c)
    BY <1>1 DEF CheckTimers
  <2>2. Sound(c) /\ c.sync = "IDLE" /\ c.actual = a.actual
    BY DEF Idle, Arbiter, Sound
  <2>. QED BY <2>1, <2>2, PushedResult
<1>2. CASE a.sync = "WAIT_CONFIRM" /\ a.age >= ConfirmTicks /\ radio.present /\ a.actual = None
  <2> DEFINE c == [a EXCEPT !.age = 0]
  <2>1. CheckTimers(a) = Quietly(c)
    BY <1>2 DEF CheckTimers
  <2>2. Sound(c) /\ c.sync = a.sync /\ c.actual = a.actual
    BY Zeros DEF Arbiter, Sound
  <2>. QED BY <1>2, <2>1, <2>2, Results DEF NoQuietLift
<1>3. CASE a.sync = "WAIT_CONFIRM" /\ a.age >= ConfirmTicks /\ ~(radio.present /\ a.actual = None)
  <2>1. CheckTimers(a) = Retry(a)
    BY <1>3 DEF CheckTimers
  <2>. QED BY <1>3, <2>1, RetrySound DEF Sound
<1>4. CASE ~(a.sync = "DEBOUNCE" /\ a.age >= DebounceTicks)
           /\ ~(a.sync = "WAIT_CONFIRM" /\ a.age >= ConfirmTicks)
  <2>1. CheckTimers(a) = Quietly(a)
    BY <1>4 DEF CheckTimers
  <2>. QED BY <2>1, Results DEF NoQuietLift
<1>. QED BY <1>1, <1>2, <1>3, <1>4
-----------------------------------------------------------------------------
(* The radio's cycle never leaves its installed sources.                   *)
LEMMA NextSourceInstalled ==
  ASSUME NEW s \in Installed
  PROVE  NextSource(s) \in Installed
<1> DEFINE p == Position(s)
           step(k) == Order[((p - 1 + k) % 4) + 1]
           First(n) == step(n) \in Installed /\ \A m \in 1 .. n - 1 : step(m) \notin Installed
<1>1. p \in 1 .. 4 /\ Order[p] = s
  <2>1. \E i \in 1 .. 4 : Order[i] = s
    BY ArbiterAssumption DEF Order, Sources
  <2>. QED BY <2>1 DEF Position
<1>2. step(4) = s
  <2>1. ((p - 1 + 4) % 4) + 1 = p
    BY <1>1
  <2>. QED BY <1>1, <2>1
<1> HIDE DEF p, step
<1>3. \E n \in 1 .. 4 : First(n)
  <2>1. CASE step(1) \in Installed
    BY <2>1
  <2>2. CASE step(1) \notin Installed /\ step(2) \in Installed
    BY <2>2
  <2>3. CASE step(1) \notin Installed /\ step(2) \notin Installed /\ step(3) \in Installed
    BY <2>3
  <2>4. CASE step(1) \notin Installed /\ step(2) \notin Installed /\ step(3) \notin Installed
    BY <1>2, <2>4
  <2>. QED BY <2>1, <2>2, <2>3, <2>4
<1>4. PICK k : k = (CHOOSE n \in 1 .. 4 : First(n)) /\ First(k)
  BY <1>3
<1>5. NextSource(s) = step(k)
  BY <1>4 DEF NextSource, p, step
<1>. QED BY <1>4, <1>5

-----------------------------------------------------------------------------
(* What the box knows and has told: a source decoded is the one the        *)
(* arbiter last heard, the head unit shows what the change detection       *)
(* remembers or was blanked by a repetition, and with the filter lifted    *)
(* the change detection has nothing left to tell.                          *)
TruthInv ==
  /\ arb.actual # None => radio.present
  /\ radio.source # None => radio.source = arb.actual
  /\ sent.present => radio.present /\ shown \in {sent.source, None}
  /\ (~Filtered(arb) /\ radio.source # None) => sent = radio

IInv == TypeOK /\ Sound(arb) /\ TruthInv

LEMMA PulseType ==
  ASSUME TypeOK, NEW pulse \in BOOLEAN, SendPulse(pulse)
  PROVE  wire' \in 0 .. MaxWire
  BY ArbiterAssumption DEF TypeOK, SendPulse

(* After a push the head unit shows the radio's source, or AUX while no    *)
(* radio has been heard.                                                   *)
PushedInv(a, r) ==
  /\ shown' \in Sources \cup {None}
  /\ sent' \in [present : BOOLEAN, source : Sources \cup {None}]
  /\ sent'.present => r.present /\ shown' = sent'.source
  /\ r.present => shown' = r.source /\ sent' = r

LEMMA PushInv ==
  ASSUME NEW a, NEW r \in [present : BOOLEAN, source : Sources \cup {None}],
         sent \in [present : BOOLEAN, source : Sources \cup {None}],
         sent.present => r.present, PushRadio(a, r)
  PROVE  PushedInv(a, r)
<1>1. CASE ~r.present /\ a.reported = "AUX"
  BY <1>1 DEF PushRadio, PushedInv, Sources
<1>2. CASE ~(~r.present /\ a.reported = "AUX")
  BY <1>2 DEF PushRadio, PushedInv
<1>. QED BY <1>1, <1>2

(* Hearing a source pulses the key or does not.                            *)
LEMMA HearPulses ==
  ASSUME NEW a, Sound(a), NEW s \in Sources \cup {None}
  PROVE  Hear(a, s).pulse \in BOOLEAN
<1>1. a.sync \in {"IDLE", "DEBOUNCE", "WAIT_CONFIRM"}
  BY DEF Sound, Arbiter
<1>2. \A b : Retry(b).pulse \in BOOLEAN
  BY DEF Retry, Pushing, Pulsing
<1>3. HearWait(a, s).pulse \in BOOLEAN
  BY <1>2 DEF HearWait, Quietly, Pushing
<1>. QED BY <1>1, <1>3 DEF Hear, HearOff, HearIdle, HearDebounce, Quietly

(* A command, a tick: the result of a handler is stored, pulsed, pushed.   *)
LEMMA HandleInv ==
  ASSUME IInv, NEW r, r.pulse \in BOOLEAN, SoundResult(r), NoQuietLift(arb, r), Handle(r),
         UNCHANGED <<radio, asleep, rd4>>, acts' \in 0 .. MaxActs
  PROVE  IInv' /\ (shown' # shown => arb'.sync = "IDLE")
<1>1. arb' = r.arb /\ arb'.actual = arb.actual /\ Sound(arb')
  BY DEF Handle, SoundResult, NoQuietLift
<1>2. wire' \in 0 .. MaxWire
  BY PulseType DEF Handle, IInv
<1>3. CASE r.push
  <2>1. PushRadio(arb', radio) /\ arb'.sync = "IDLE"
    BY <1>1, <1>3 DEF Handle, SoundResult
  <2>2. PushedInv(arb', radio)
    BY <1>1, <2>1, PushInv DEF IInv, TypeOK, TruthInv, Sound, Arbiter
  <2>3. TypeOK'
    BY <1>1, <1>2, <2>2 DEF IInv, TypeOK, Sound, PushedInv
  <2>4. TruthInv'
    BY <1>1, <2>2 DEF IInv, TruthInv, PushedInv
  <2>. QED BY <1>1, <2>1, <2>3, <2>4 DEF IInv
<1>4. CASE ~r.push
  <2>1. shown' = shown /\ sent' = sent
    BY <1>4 DEF Handle, NoPush
  <2>2. TypeOK'
    BY <1>1, <1>2, <2>1 DEF IInv, TypeOK, Sound
  <2>3. ~Filtered(arb') => ~Filtered(arb)
    BY <1>1, <1>4 DEF NoQuietLift, Filtered
  <2>4. Filtered(arb)' = Filtered(arb')
    BY DEF Filtered
  <2>5. TruthInv'
    BY <1>1, <2>1, <2>3, <2>4 DEF IInv, TruthInv
  <2>. QED BY <1>1, <2>1, <2>2, <2>5 DEF IInv
<1>. QED BY <1>3, <1>4

(* A repetition: nothing is told that the change detection has not told,   *)
(* or the screen is blanked.                                               *)
LEMMA RepeatInv ==
  ASSUME IInv, Sound(arb'), arb'.actual = arb.actual, ~Filtered(arb') => ~Filtered(arb),
         Repeat(arb') \/ NoPush, UNCHANGED <<radio, asleep, rd4>>,
         wire' \in 0 .. MaxWire, acts' \in 0 .. MaxActs
  PROVE  IInv' /\ (shown' # shown => arb'.sync = "IDLE")
<1>1. sent' = sent
  BY DEF Repeat, NoPush
<1>2. shown' = shown \/ (~Filtered(arb') /\ shown' = radio.source)
  BY DEF Repeat, NoPush
<1>3. TypeOK'
  BY <1>1, <1>2 DEF IInv, TypeOK, Sound
<1>4. Filtered(arb)' = Filtered(arb')
  BY DEF Filtered
<1>5. TruthInv'
  BY <1>1, <1>2, <1>4 DEF IInv, TruthInv
<1>6. ~Filtered(arb') => arb'.sync = "IDLE"
  BY DEF Filtered
<1>. QED BY <1>2, <1>3, <1>5, <1>6 DEF IInv

(* 0x165, in every state of the arbiter, muted or not.                     *)
LEMMA HearsInv ==
  ASSUME IInv, NEW s \in Sources \cup {None}, NEW mute \in BOOLEAN,
         mute => s = radio.source, Hears(s, mute)
  PROVE  IInv' /\ (shown' # shown => arb'.sync = "IDLE")
<1> DEFINE r == [present |-> TRUE, source |-> s]
           h == Hear(arb, s)
<1>1. SoundResult(h) /\ h.arb.actual = s
  BY HearSound DEF IInv
<1>2. h.pulse \in BOOLEAN
  BY HearPulses DEF IInv
<1>3. /\ radio' = r /\ asleep' = FALSE /\ arb' = h.arb /\ SendPulse(h.pulse)
      /\ UNCHANGED <<rd4, acts>>
      /\ IF h.push \/ (r # sent /\ ~mute /\ ~Filtered(h.arb)) THEN PushRadio(h.arb, r)
         ELSE NoPush
  BY DEF Hears
<1>4. r \in [present : BOOLEAN, source : Sources \cup {None}] /\ r.present /\ r.source = s
  OBVIOUS
<1>5. wire' \in 0 .. MaxWire
  BY <1>2, <1>3, PulseType DEF IInv
<1>6. (~Filtered(h.arb) => h.arb.sync = "IDLE")
  BY DEF Filtered
<1>7. CASE h.push \/ (r # sent /\ ~mute /\ ~Filtered(h.arb))
  <2>1. shown' = s /\ sent' = r /\ arb'.sync = "IDLE"
    BY <1>1, <1>3, <1>4, <1>6, <1>7 DEF PushRadio, SoundResult
  <2>2. TypeOK'
    BY <1>1, <1>3, <1>4, <1>5, <2>1 DEF IInv, TypeOK, Sound, SoundResult
  <2>3. TruthInv'
    BY <1>1, <1>3, <1>4, <2>1 DEF TruthInv
  <2>. QED BY <1>1, <1>3, <2>1, <2>2, <2>3 DEF IInv, SoundResult
<1>8. CASE ~(h.push \/ (r # sent /\ ~mute /\ ~Filtered(h.arb)))
  <2>1. shown' = shown /\ sent' = sent
    BY <1>3, <1>8 DEF NoPush
  <2>2. TypeOK'
    BY <1>1, <1>3, <1>4, <1>5, <2>1 DEF IInv, TypeOK, Sound, SoundResult
  <2>3. ASSUME ~Filtered(h.arb), s # None
        PROVE  sent = r
    <3>1. CASE mute
      <4>1. s = arb.actual /\ s \in Sources /\ s = radio.source
        BY <2>3, <3>1 DEF IInv, TruthInv
      <4>2. ~Filtered(arb)
        BY <1>8, <2>3, <4>1, HearSame DEF IInv
      <4>3. sent = radio /\ radio.present
        BY <2>3, <4>1, <4>2 DEF IInv, TruthInv
      <4>. QED BY <4>1, <4>3 DEF IInv, TypeOK
    <3>. QED BY <1>8, <2>3, <3>1
  <2>4. Filtered(arb)' = Filtered(h.arb)
    BY <1>3 DEF Filtered
  <2> HIDE DEF r, h
  <2>5. TruthInv'
    BY <1>1, <1>3, <1>4, <2>1, <2>3, <2>4 DEF IInv, TruthInv
  <2>. QED BY <1>1, <1>3, <2>1, <2>2, <2>5 DEF IInv, SoundResult
<1>. QED BY <1>7, <1>8
LEMMA CommandPulses ==
  ASSUME NEW a, NEW t
  PROVE  SwitchSource(a, t).pulse \in BOOLEAN /\ CheckTimers(a).pulse \in BOOLEAN
<1>1. \A b : Retry(b).pulse \in BOOLEAN
  BY DEF Retry, Pushing, Pulsing
<1>2. StartSwitch(a, t).pulse \in BOOLEAN
  BY DEF StartSwitch, Pulsing
<1>3. SwitchSource(a, t).pulse \in BOOLEAN
  BY <1>2 DEF SwitchSource, Pushing, Quietly
<1>4. CheckTimers(a).pulse \in BOOLEAN
  BY <1>1 DEF CheckTimers, Pushing, Quietly
<1>. QED BY <1>3, <1>4

LEMMA CommandInv ==
  ASSUME IInv, NEW r, r.pulse \in BOOLEAN, SoundResult(r), NoQuietLift(arb, r), HuCommand(r)
  PROVE  IInv' /\ (shown' # shown => arb'.sync = "IDLE")
<1>1. acts' \in 0 .. MaxActs
  BY ArbiterAssumption DEF IInv, TypeOK, HuCommand, Act
<1>. QED BY <1>1, HandleInv DEF HuCommand

(* A choice the head unit announces ends the driver's override.            *)
LEMMA OverrideSound ==
  ASSUME Sound(arb), NEW t \in Wishes
  PROVE  /\ SoundResult(Quietly([arb EXCEPT !.override = FALSE]))
         /\ NoQuietLift(arb, Quietly([arb EXCEPT !.override = FALSE]))
         /\ SoundResult(SwitchSource([arb EXCEPT !.override = FALSE], t))
         /\ NoQuietLift(arb, SwitchSource([arb EXCEPT !.override = FALSE], t))
<1> DEFINE b == [arb EXCEPT !.override = FALSE]
<1>1. Sound(b) /\ b.actual = arb.actual /\ b.sync = arb.sync /\ b.reported = arb.reported
  BY DEF Sound, Arbiter
<1> HIDE DEF b
<1>2. SoundResult(Quietly(b)) /\ NoQuietLift(arb, Quietly(b))
  BY <1>1, Results DEF NoQuietLift
<1>3. SoundResult(SwitchSource(b, t)) /\ NoQuietLift(b, SwitchSource(b, t))
  BY <1>1, SwitchSound
<1>4. NoQuietLift(arb, SwitchSource(b, t))
  BY <1>1, <1>3 DEF NoQuietLift
<1>. QED BY <1>2, <1>3, <1>4 DEF b

(* A tick moves the timers before it looks at them, and now and then       *)
(* repeats what was told.                                                  *)
LEMMA TickInv ==
  ASSUME IInv, NEW due \in BOOLEAN, Tick(due)
  PROVE  IInv' /\ (shown' # shown => arb'.sync = "IDLE")
<1> DEFINE b == Aged(arb)
           r == CheckTimers(b)
<1>1. Sound(b) /\ b.actual = arb.actual /\ b.sync = arb.sync /\ b.reported = arb.reported
  <2>1. (IF arb.age < MaxTicks THEN arb.age + 1 ELSE arb.age) \in 0 .. MaxTicks
    BY Zeros DEF IInv, Sound, Arbiter
  <2>2. (IF arb.settle > 0 THEN arb.settle - 1 ELSE 0) \in 0 .. SettleTicks
    BY ArbiterAssumption DEF IInv, Sound, Arbiter
  <2>. QED BY <2>1, <2>2 DEF IInv, Sound, Arbiter, Aged
<1>2. /\ IF due /\ ~r.push THEN arb' = r.arb /\ SendPulse(r.pulse) /\ Resync(r.arb)
         ELSE Handle(r)
      /\ UNCHANGED <<radio, asleep, rd4, acts>>
  BY DEF Tick
<1> HIDE DEF b
<1>3. SoundResult(r) /\ NoQuietLift(b, r)
  BY <1>1, TimersSound
<1>4. NoQuietLift(arb, r)
  BY <1>1, <1>3 DEF NoQuietLift
<1>5. r.pulse \in BOOLEAN
  BY CommandPulses
<1> HIDE DEF r
<1>6. acts' \in 0 .. MaxActs /\ UNCHANGED <<radio, asleep, rd4>>
  BY <1>2 DEF IInv, TypeOK
<1>7. CASE due /\ ~r.push
  <2>1. arb' = r.arb /\ SendPulse(r.pulse) /\ (Repeat(arb') \/ NoPush)
    BY <1>2, <1>7 DEF Resync
  <2>2. Sound(arb') /\ arb'.actual = arb.actual /\ (~Filtered(arb') => ~Filtered(arb))
    BY <1>3, <1>4, <1>7, <2>1 DEF SoundResult, NoQuietLift, Filtered
  <2>3. wire' \in 0 .. MaxWire
    BY <1>5, <2>1, PulseType DEF IInv
  <2>. QED BY <1>6, <2>1, <2>2, <2>3, RepeatInv
<1>8. CASE ~(due /\ ~r.push)
  BY <1>2, <1>3, <1>4, <1>5, <1>6, <1>8, HandleInv
<1>. QED BY <1>7, <1>8

(* The world around the box: its pulses, its keys, its knob.               *)
LEMMA WorldInv ==
  ASSUME IInv, UNCHANGED box, wire' \in 0 .. MaxWire, acts' \in 0 .. MaxActs,
         rd4' \in [on : BOOLEAN, source : Installed, changing : BOOLEAN]
  PROVE  IInv' /\ shown' = shown
  BY DEF box, IInv, TypeOK, TruthInv, Filtered

-----------------------------------------------------------------------------
LEMMA InitIInv == Init => IInv
<1> SUFFICES ASSUME Init PROVE IInv
  OBVIOUS
<1>1. Sound(arb) /\ arb.actual = None
  BY Zeros DEF Init, Sound, Arbiter
<1>2. TypeOK
  <2>1. 0 \in 0 .. MaxWire /\ 0 \in 0 .. MaxActs
    BY ArbiterAssumption
  <2>. QED BY <1>1, <2>1 DEF Init, TypeOK, Sound
<1>3. TruthInv
  BY <1>1 DEF Init, TruthInv
<1>. QED BY <1>1, <1>2, <1>3 DEF IInv

LEMMA NextIInv ==
  ASSUME IInv, [Next]_vars
  PROVE  IInv' /\ (shown' # shown => arb'.sync = "IDLE" \/ Announce)
<1>0. Sound(arb) /\ rd4.source \in Installed /\ rd4 \in [on : BOOLEAN, source : Installed, changing : BOOLEAN]
  BY DEF IInv, TypeOK
<1>1. CASE Frame165
  <2>1. PICK s \in Sources \cup {None}, mute \in BOOLEAN :
             Hears(s, mute) /\ (mute => s = radio.source)
    BY <1>0, <1>1, ArbiterAssumption DEF Frame165, IInv, TypeOK
  <2>. QED BY <2>1, HearsInv
<1>2. CASE \E due \in BOOLEAN : Tick(due)
  BY <1>2, TickInv
<1>3. CASE FallAsleep
  <2>1. radio' = [radio EXCEPT !.source = None]
    BY <1>3 DEF FallAsleep
  <2>2. /\ radio' \in [present : BOOLEAN, source : Sources \cup {None}]
        /\ radio'.present = radio.present /\ radio'.source = None
    BY <2>1 DEF IInv, TypeOK
  <2>3. asleep' = TRUE /\ UNCHANGED <<arb, sent, shown, rd4, wire, acts>>
    BY <1>3 DEF FallAsleep
  <2>4. TypeOK'
    BY <2>2, <2>3 DEF IInv, TypeOK
  <2>5. TruthInv'
    BY <2>2, <2>3 DEF IInv, TruthInv
  <2>. QED BY <2>3, <2>4, <2>5 DEF IInv
<1>4. CASE AudioStart
  <2>1. HuCommand(SwitchSource(arb, "AUX")) /\ "AUX" \in Wishes
    BY <1>4 DEF AudioStart, Wishes
  <2>. QED BY <1>0, <2>1, SwitchSound, CommandPulses, CommandInv
<1>5. CASE AudioStop
  <2> DEFINE r == Quietly([arb EXCEPT !.override = FALSE])
  <2>1. HuCommand(r) /\ "AUX" \in Wishes /\ r.pulse \in BOOLEAN
    BY <1>5 DEF AudioStop, Wishes, Quietly
  <2>2. SoundResult(r) /\ NoQuietLift(arb, r)
    BY <1>0, <2>1, OverrideSound
  <2> HIDE DEF r
  <2>. QED BY <2>1, <2>2, CommandInv
<1>6. ASSUME NEW t \in Wishes, Select(t)
      PROVE  IInv' /\ (shown' # shown => arb'.sync = "IDLE")
  <2> DEFINE r == SwitchSource([arb EXCEPT !.override = FALSE], t)
  <2>1. HuCommand(r)
    BY <1>6 DEF Select
  <2>2. SoundResult(r) /\ NoQuietLift(arb, r) /\ r.pulse \in BOOLEAN
    BY <1>0, OverrideSound, CommandPulses
  <2> HIDE DEF r
  <2>. QED BY <2>1, <2>2, CommandInv
<1>7. CASE QueryStations
  <2> DEFINE b == [arb EXCEPT !.pendingList = TRUE]
  <2>1. arb.sync # "IDLE" /\ HuCommand(Quietly(b))
    BY <1>7 DEF QueryStations
  <2>2. Sound(b) /\ b.actual = arb.actual /\ b.sync = arb.sync /\ b.reported = arb.reported
    BY <1>0, <2>1 DEF Sound, Arbiter
  <2> HIDE DEF b
  <2>3. SoundResult(Quietly(b)) /\ NoQuietLift(arb, Quietly(b))
    BY <2>2, Results DEF NoQuietLift
  <2>4. Quietly(b).pulse \in BOOLEAN
    BY DEF Quietly
  <2>. QED BY <2>1, <2>3, <2>4, CommandInv
<1>8. CASE BandCycle
  <2>1. wire' \in 0 .. MaxWire
    BY <1>8, PulseType DEF BandCycle, IInv
  <2>2. acts' \in 0 .. MaxActs /\ UNCHANGED <<box, rd4>>
    BY <1>8, ArbiterAssumption DEF BandCycle, Act, IInv, TypeOK
  <2>. QED BY <1>0, <2>1, <2>2, WorldInv
<1>9. CASE Announce
  <2>1. PushRadio(arb, radio) /\ UNCHANGED <<arb, radio, asleep, rd4, wire>>
        /\ acts' \in 0 .. MaxActs
    BY <1>9, ArbiterAssumption DEF Announce, Act, IInv, TypeOK
  <2>2. PushedInv(arb, radio)
    BY <2>1, PushInv DEF IInv, TypeOK, TruthInv
  <2>3. TypeOK'
    BY <2>1, <2>2 DEF IInv, TypeOK, PushedInv
  <2>4. TruthInv'
    BY <2>1, <2>2 DEF IInv, TruthInv, PushedInv
  <2>. QED BY <1>9, <2>1, <2>3, <2>4 DEF IInv
<1>10. CASE ExecutePulse
  <2>1. StepSource \in [on : BOOLEAN, source : Installed, changing : BOOLEAN]
    BY <1>0, NextSourceInstalled DEF StepSource
  <2>2. wire' \in 0 .. MaxWire /\ acts' \in 0 .. MaxActs /\ UNCHANGED box
    BY <1>10, ArbiterAssumption DEF ExecutePulse, IInv, TypeOK
  <2>3. rd4' \in [on : BOOLEAN, source : Installed, changing : BOOLEAN]
    BY <1>0, <1>10, <2>1 DEF ExecutePulse
  <2>. QED BY <2>2, <2>3, WorldInv
<1>11. CASE FinishChange
  <2>1. rd4' \in [on : BOOLEAN, source : Installed, changing : BOOLEAN]
    BY <1>0, <1>11 DEF FinishChange
  <2>. QED BY <1>11, <2>1, WorldInv DEF FinishChange, IInv, TypeOK
<1>12. CASE DriverPress
  <2>1. rd4' \in [on : BOOLEAN, source : Installed, changing : BOOLEAN]
    BY <1>0, <1>12, NextSourceInstalled DEF DriverPress, StepSource
  <2>2. wire' \in 0 .. MaxWire /\ acts' \in 0 .. MaxActs /\ UNCHANGED box
    BY <1>12, ArbiterAssumption DEF DriverPress, Act, IInv, TypeOK
  <2>. QED BY <2>1, <2>2, WorldInv
<1>13. CASE PowerKnob
  <2>1. rd4' \in [on : BOOLEAN, source : Installed, changing : BOOLEAN]
    BY <1>0, <1>13 DEF PowerKnob
  <2>2. wire' \in 0 .. MaxWire /\ acts' \in 0 .. MaxActs /\ UNCHANGED box
    BY <1>13, ArbiterAssumption DEF PowerKnob, Act, IInv, TypeOK
  <2>. QED BY <2>1, <2>2, WorldInv
<1>14. CASE UNCHANGED vars
  <2>1. UNCHANGED <<box, rd4, wire, acts>>
    BY <1>14 DEF vars
  <2>. QED BY <1>0, <2>1, WorldInv DEF IInv, TypeOK
<1>15. CASE Wake
  BY <1>0, <1>15 DEF Wake, IInv, TypeOK, TruthInv, Filtered
<1>16. CASE Heartbeat
  <2>1. Repeat(arb') /\ UNCHANGED <<arb, radio, asleep, rd4, wire, acts>>
    BY <1>16 DEF Heartbeat
  <2>2. wire' \in 0 .. MaxWire /\ acts' \in 0 .. MaxActs /\ Sound(arb') /\ arb'.actual = arb.actual
    BY <1>0, <2>1 DEF IInv, TypeOK
  <2>3. ~Filtered(arb') => ~Filtered(arb)
    BY <2>1
  <2>. QED BY <2>1, <2>2, <2>3, RepeatInv
<1>. QED
  BY <1>1, <1>2, <1>3, <1>4, <1>5, <1>6, <1>7, <1>8, <1>9, <1>10, <1>11, <1>12, <1>13, <1>14,
     <1>15, <1>16
     DEF Next

-----------------------------------------------------------------------------
(* The arbiter, its timers and its retry counter stay within their types.  *)
THEOREM TypeCorrect == Spec => []TypeOK
<1>1. IInv /\ [Next]_vars => IInv'
  BY NextIInv
<1>2. IInv => TypeOK
  BY DEF IInv
<1>. QED BY InitIInv, <1>1, <1>2, PTL DEF Spec

(* No way out of a switch leaves a deferred station list behind.           *)
THEOREM DeferredListKept == Spec => []ListNotForgotten
<1>1. IInv /\ [Next]_vars => IInv'
  BY NextIInv
<1>2. IInv => ListNotForgotten
  BY DEF IInv, Sound, ListNotForgotten
<1>. QED BY InitIInv, <1>1, <1>2, PTL DEF Spec

(* A switch under way knows the source it pulsed from and its target.      *)
THEOREM SwitchKnowsItsPulse == Spec => []WaitKnowsItsPulse
<1>1. IInv /\ [Next]_vars => IInv'
  BY NextIInv
<1>2. IInv => WaitKnowsItsPulse
  BY DEF IInv, Sound, WaitKnowsItsPulse
<1>. QED BY InitIInv, <1>1, <1>2, PTL DEF Spec

(* With the filter lifted the head unit shows the source last heard, or    *)
(* nothing.                                                                *)
THEOREM ShownIsTrue == Spec => []ShownWhenUnfiltered
<1>1. IInv /\ [Next]_vars => IInv'
  BY NextIInv
<1>2. IInv => ShownWhenUnfiltered
  BY DEF IInv, TypeOK, TruthInv, ShownWhenUnfiltered
<1>. QED BY InitIInv, <1>1, <1>2, PTL DEF Spec

(* No source the box passes through on its way reaches the head unit.      *)
THEOREM NoPassingSourceShown == Spec => NoPassingSource
<1>1. IInv /\ [Next]_vars => IInv'
  BY NextIInv
<1>2. IInv /\ [Next]_vars => [shown' # shown => arb'.sync = "IDLE" \/ Announce]_vars
  BY NextIInv
<1>. QED BY InitIInv, <1>1, <1>2, PTL DEF Spec, NoPassingSource
=============================================================================
