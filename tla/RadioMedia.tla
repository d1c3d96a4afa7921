----------------------------- MODULE RadioMedia -----------------------------
(***************************************************************************)
(* What the head unit shows of the factory radio (RD4): station, presets,  *)
(* radio text, CD and volume.  profiles/psa_407_rd4_audio.c decodes the    *)
(* radio's frames, core/can_router.c sends what differs from the copy sent *)
(* last unless the source arbiter filters, and                             *)
(* protocols/proto_hiworld_adapter.c keeps a second copy for answers.      *)
(* SourceArbiter has the arbiter itself; here it is its filter, which may  *)
(* close and open at every point where SourceArbiter lets it.              *)
(*                                                                         *)
(* Stations, lists and texts are numbers, a transfer of several frames is  *)
(* its pieces.  All bands of the tuner are one source, and indicators and  *)
(* tone settings are left out: they go the way of the station and of the   *)
(* volume.  The head unit does not restart (HiworldLink).                  *)
(***************************************************************************)
EXTENDS Naturals, Sequences

CONSTANTS Installed,    \* the sources of this radio
          Pieces,       \* frames of a transfer (0x125: up to 9, 0x0A4: up to 10)
          Loud,         \* a volume above 2
          Scopes,       \* bound: what changes in one behaviour
          MaxActs       \* bound: acts of the driver, the radio and the head unit

Parts == {"source", "station", "list", "text", "cd", "sound", "hu"}

ASSUME MediaAssumption ==
  /\ Installed \subseteq {"tuner", "CD", "CDC", "AUX"} /\ Installed # {}
  /\ Pieces \in Nat /\ Pieces > 1 /\ Loud \in Nat /\ Loud > 2
  /\ Scopes \subseteq SUBSET Parts /\ MaxActs \in Nat

VARIABLES rd4,      \* the radio
          wire,     \* its transfers under way, 0x125 and 0x0A4
          box,      \* s_current_state, s_last_sent_state, the adapter's copies
                    \* s_cached_*, the dirty flags, and what the head unit shows
          rx,       \* the receive contexts s_rd4_list_isotp_ctx, s_rd4_isotp_ctx
          disc,     \* s_cd_disc_present
          filter,   \* the arbiter: open, closed, or aux: AUX asked of no radio
          asleep,   \* can_router_is_bus_sleeping
          mdf,      \* a factory display answers transfers
          scope,    \* the parts that change
          acts      \* acts so far

mediaVars == <<rd4, wire, box, rx, disc, filter, asleep, mdf, scope, acts>>

Kinds == {"list", "text"}
NoTransfer == [n |-> 0, sent |-> 0]
NoContext == [active |-> FALSE, got |-> <<>>]

(* can_router_init                                                         *)
Radio0 == [present |-> FALSE, source |-> "off", power |-> 0,
           freq |-> 0, name |-> 0, slot |-> 0, list |-> <<>>, text |-> <<>>]
Cdc0 == [play |-> "none", disc |-> FALSE]
Audio0 == [valid |-> FALSE, vol |-> 15, muted |-> FALSE, mode |-> 0]

MediaInit ==
  /\ rd4 \in [on : BOOLEAN, source : Installed, mute : {FALSE}, freq : {1}, preset : {TRUE},
              seek : {FALSE}, vol : {Loud}, knob : {"idle"}, menu : {FALSE},
              play : {"pause"}, disc : {TRUE}]
  /\ wire = [k \in Kinds |-> NoTransfer]
  /\ box = [radio |-> Radio0, cdc |-> Cdc0, audio |-> Audio0,
            last |-> [radio |-> Radio0, cdc |-> Cdc0, audio |-> Audio0],
            cached |-> [radio |-> <<>>, cdc |-> <<>>],
            dirty |-> {},
            hu |-> [source |-> "off", power |-> 0, freq |-> 0, name |-> 0,
                    presets |-> <<>>, text |-> <<>>, play |-> "none",
                    early |-> FALSE, audio |-> Audio0]]
  /\ rx = [k \in Kinds |-> NoContext]
  /\ disc = TRUE
  /\ filter = "open"
  /\ asleep = FALSE
  /\ scope \in Scopes /\ acts = 0
  /\ mdf \in (IF scope \cap Kinds = {} THEN {FALSE} ELSE BOOLEAN)

Tuned(r) == r.source = "tuner"

-----------------------------------------------------------------------------
(* The adapter: hiworld_send_radio_state, _presets, _text, _media_state,   *)
(* _audio_settings.  It copies what it sends, and judges by the copy       *)
(* whether a text goes out.                                                *)
SendRadio(b, r) ==
  LET live == Tuned(r) /\ r.power # 0
  IN  [b EXCEPT !.cached.radio = <<r>>,
                !.hu.source = r.source, !.hu.power = r.power,
                !.hu.freq = IF live THEN r.freq ELSE 0,
                !.hu.name = IF Tuned(r) THEN r.name ELSE 0]

(* The names if there are any, else the frequencies.                       *)
Presets(r) == IF r.list # <<>> THEN r.list ELSE <<r.slot>>

SendPresets(b, r) ==
  IF Tuned(r) /\ r.power # 0 THEN [b EXCEPT !.hu.presets = Presets(r)] ELSE b

SendText(b) ==
  IF \/ b.radio.text = <<>>
     \/ \E i \in DOMAIN b.cached.radio :
          ~Tuned(b.cached.radio[i]) \/ b.cached.radio[i].power = 0
  THEN b ELSE [b EXCEPT !.hu.text = b.radio.text]

SendCd(b) == [b EXCEPT !.cached.cdc = <<b.cdc>>, !.hu.play = b.cdc.play,
                              !.hu.early = (b.radio.source # "CD" \/ b.radio.power = 3)]
ReportCd(b) == [SendCd(b) EXCEPT !.last.cdc = b.cdc]
SendAudio(b) == IF b.audio.valid THEN [b EXCEPT !.hu.audio = b.audio] ELSE b

-----------------------------------------------------------------------------
(* can_router_process_can, once the frame is decoded: each block clears    *)
(* its flag whether it sends or not.                                       *)
Cleared(b, flag) == [b EXCEPT !.dirty = @ \ {flag}]

(* Leaving the CD tells the head unit that it no longer plays.  Mutant:    *)
(* only on the way to the tuner.                                           *)
LeaveCdToTuner(b) ==
  IF b.last.radio.source = "CD" /\ Tuned(b.radio)
  THEN ReportCd([b EXCEPT !.cdc.play = "pause"]) ELSE b
LeaveCd(b) ==
  IF b.last.radio.source = "CD" /\ b.radio.source # "CD"
  THEN ReportCd([b EXCEPT !.cdc.play = "pause"]) ELSE b

Refresh(b) ==
  LET c == Cleared(SendPresets(b, b.radio), "presets")
  IN  IF b.radio.text = <<>> THEN c ELSE Cleared(SendText(c), "text")

RadioChanged(b) ==
  IF Tuned(b.radio) THEN b.radio # b.last.radio
  ELSE \E f \in {"present", "source", "power"} : b.radio[f] # b.last.radio[f]

ReportRadio(b) ==
  LET c == SendRadio(LeaveCd(b), b.radio)
      d == IF ~Tuned(b.last.radio) /\ Tuned(b.radio) THEN Refresh(c) ELSE c
  IN  [d EXCEPT !.last.radio = b.radio]

RouteRadio(b, open) ==
  IF "radio" \notin b.dirty THEN b
  ELSE IF RadioChanged(b)
  THEN Cleared(IF ~open \/ b.radio.power = 3 THEN b ELSE ReportRadio(b), "radio")
  ELSE Cleared(IF Tuned(b.radio) THEN b ELSE [b EXCEPT !.last.radio = b.radio], "radio")

RoutePresets(b, open) ==
  IF "presets" \notin b.dirty THEN b
  ELSE LET c == [b EXCEPT !.last.radio.slot = b.radio.slot, !.last.radio.list = b.radio.list]
       IN  Cleared(IF open THEN SendPresets(c, b.radio) ELSE c, "presets")

RouteText(b, open) ==
  IF "text" \notin b.dirty THEN b
  ELSE LET c == [b EXCEPT !.last.radio.text = b.radio.text]
       IN  Cleared(IF open /\ Tuned(b.radio) /\ b.radio.power # 0 THEN SendText(c) ELSE c, "text")

RouteCd(b, open) ==
  LET shows == b.radio.source = "CD" \/ (~b.radio.present /\ b.cdc.disc)
  IN  IF "cdc" \notin b.dirty THEN b
      ELSE Cleared(IF shows /\ b.cdc # b.last.cdc /\ open THEN ReportCd(b) ELSE b, "cdc")

RouteAudio(b) ==
  IF "audio" \notin b.dirty THEN b
  ELSE Cleared(IF b.audio # b.last.audio
               THEN [SendAudio(b) EXCEPT !.last.audio = b.audio] ELSE b, "audio")

Routed(b, open) ==
  RouteCd(RouteText(RoutePresets(RouteRadio(RouteAudio(b), open), open), open), open)

(* can_router_push_radio_and_media_state: whatever the filter says.        *)
PushMedia(b, f) ==
  LET c == SendRadio(LeaveCd(b), b.radio)
      d == [c EXCEPT !.last.radio = b.radio]
  IN  IF ~b.radio.present /\ f = "aux"
      THEN SendRadio(b, [Radio0 EXCEPT !.source = "AUX", !.power = 1])
      ELSE IF Tuned(b.radio) THEN Refresh(d)
      ELSE IF b.radio.source = "CD" THEN ReportCd(d) ELSE d

(* A frame of the radio wakes the box, is decoded to b, and routed.        *)
Hears(b, f) == box' = Routed(b, f = "open") /\ filter' = f /\ asleep' = FALSE
Plain(b) == Hears(b, filter) /\ UNCHANGED <<rd4, wire, rx, disc, mdf, scope, acts>>
Dirty(b, flags) == [b EXCEPT !.dirty = @ \cup flags]

-----------------------------------------------------------------------------
(* CAN 0x165 (psa_rd4_process_can_0x165).  A radio in standby is also off. *)
(* On its way to another source it is muted, keeps the old one or names    *)
(* the new one, or names none: then only the tuner is left.                *)
Off165 == [box.radio EXCEPT !.present = TRUE, !.source = "off", !.power = 0]

On165(s, power) ==
  [box.radio EXCEPT !.present = TRUE, !.source = s,
                    !.power = IF s = "tuner" /\ power = 1 /\ @ = 2 THEN 2 ELSE power]

Muted165 ==
  {On165(s, 3) : s \in {rd4.source, box.radio.source}}
  \cup {[On165("CD", 1) EXCEPT !.source = IF Tuned(box.radio) THEN "off" ELSE box.radio.source]}

Radio165 ==
  IF ~rd4.on THEN {Off165}
  ELSE IF rd4.mute THEN Muted165
  ELSE {On165(rd4.source, 1)}

(* What psa_source_arbiter_process_can_0x165 makes of the source: first    *)
(* the filter, then whether the state is pushed.  Off ends a debounce but  *)
(* no switch; another source starts a debounce; a switch ends with a push, *)
(* and a source that comes back within the settling time without one.      *)
Heard(s) ==
  LET quietly(f) == [filter |-> f, push |-> FALSE]
      before == box.radio
  IN  IF s = "off" THEN {quietly("open")}
                         \cup (IF filter = "closed" THEN {quietly("closed")} ELSE {})
      ELSE IF filter = "aux" THEN {quietly(IF s = "AUX" THEN "open" ELSE "closed")}
      ELSE IF filter = "closed"
      THEN {quietly("closed"), [filter |-> "open", push |-> TRUE]}
           \cup (IF s = box.last.radio.source \/ ~before.present THEN {quietly("open")} ELSE {})
      ELSE (IF s = before.source \/ before.source = "off" THEN {quietly("open")} ELSE {})
           \cup (IF s # before.source THEN {quietly("closed")} ELSE {})

Frame165 ==
  \E r \in Radio165 : \E h \in Heard(r.source) :
    LET b == [box EXCEPT !.radio = r]
    IN  /\ Hears(Dirty(IF h.push THEN PushMedia(b, h.filter) ELSE b, {"radio"}), h.filter)
        /\ UNCHANGED <<rd4, wire, rx, disc, mdf, scope, acts>>

(* CAN 0x225 (psa_rd4_process_can_0x225): seeking, station, and the preset *)
(* it is stored under; another station has neither name nor text yet.      *)
Sought(power) == IF power \in {1, 2} THEN IF rd4.seek THEN 2 ELSE 1 ELSE power

Decoded225 ==
  LET r == box.radio
      s == [r EXCEPT !.power = Sought(@), !.freq = rd4.freq,
                     !.name = IF r.freq = rd4.freq THEN @ ELSE 0,
                     !.text = IF r.freq = rd4.freq THEN @ ELSE <<>>,
                     !.slot = IF rd4.preset THEN rd4.freq ELSE @]
  IN  Dirty([box EXCEPT !.radio = s],
            {"radio"} \cup (IF s.slot # r.slot THEN {"presets"} ELSE {})
                      \cup (IF Len(s.text) # Len(r.text) THEN {"text"} ELSE {}))

Frame225 == rd4.on /\ "station" \in scope /\ Plain(Decoded225)

(* CAN 0x2A5: the name of the station, or none.                            *)
Decoded2A5 ==
  Dirty([box EXCEPT !.radio.name = IF rd4.seek THEN 0 ELSE rd4.freq], {"radio"})

Frame2A5 ==
  rd4.on /\ rd4.source = "tuner" /\ "station" \in scope /\ Plain(Decoded2A5)

-----------------------------------------------------------------------------
(* A transfer of several frames (psa_rd4_process_can_0x125, _0x0a4): the   *)
(* first opens the context, each next one must have the number expected,   *)
(* the last completes it.  Mutant: a new transfer does not end the old one. *)
AssembledBusy(c, n, i) ==
  IF ~c.active THEN IF i = 1 THEN [active |-> TRUE, got |-> <<n>>] ELSE c
  ELSE IF i = 1 THEN c
  ELSE IF i = Len(c.got) + 1 THEN [active |-> i < Pieces, got |-> Append(c.got, n)]
  ELSE [c EXCEPT !.active = FALSE]

Assembled(c, n, i) ==
  IF i = 1 THEN [active |-> TRUE, got |-> <<n>>]
  ELSE IF ~c.active THEN c
  ELSE IF i = Len(c.got) + 1 THEN [active |-> i < Pieces, got |-> Append(c.got, n)]
  ELSE [c EXCEPT !.active = FALSE]

Complete(c, d) == c.active /\ ~d.active /\ Len(d.got) = Pieces

(* The names also count as a change of the radio, a text does not.         *)
Adopted(k, got) ==
  IF k = "list" THEN Dirty([box EXCEPT !.radio.list = got], {"radio", "presets"})
  ELSE Dirty([box EXCEPT !.radio.text = got], {"text"})

(* The radio goes on only when someone answered its first frame; that is   *)
(* the box (psa_rd4_send_isotp_fc) where no factory display does.          *)
SendPiece(k) ==
  LET t == wire[k]
      i == t.sent + 1
      c == Assembled(rx[k], t.n, i)
  IN  /\ t.n # 0 /\ rd4.on
      /\ wire' = [wire EXCEPT ![k] = IF i = Pieces THEN [@ EXCEPT !.n = 0, !.sent = 0]
                                     ELSE [@ EXCEPT !.sent = i]]
      /\ rx' = [rx EXCEPT ![k] = IF Complete(rx[k], c) THEN NoContext ELSE c]
      /\ Hears(IF Complete(rx[k], c) THEN Adopted(k, c.got) ELSE box, filter)
      /\ UNCHANGED <<rd4, disc, mdf, scope, acts>>

-----------------------------------------------------------------------------
(* CAN 0x325: the disc of the built-in drive.  Heard of only from a radio  *)
(* that is on and plays from no changer: one that is off reports no disc.  *)
Idle(r) == r.present /\ r.power = 0
FromChanger(r) == r.present /\ r.source = "CDC"

Frame325 ==
  LET taken == ~Idle(box.radio) /\ ~FromChanger(box.radio)
      in == rd4.on /\ rd4.disc
  IN  /\ disc' = IF taken THEN in ELSE disc
      /\ Hears(IF ~taken THEN box
               ELSE Dirty(IF in THEN box ELSE [box EXCEPT !.cdc.play = "eject"], {"cdc"}), filter)
      /\ UNCHANGED <<rd4, wire, rx, mdf, scope, acts>>

(* CAN 0x365 and 0x3A5: the disc is in the built-in drive, and what the    *)
(* drive does.  An ejected disc does not turn into a stopped one.          *)
Frame365 ==
  /\ rd4.on
  /\ Plain(IF FromChanger(box.radio) THEN box ELSE Dirty([box EXCEPT !.cdc.disc = FALSE], {"cdc"}))

Frame3A5 ==
  LET taken == ~FromChanger(box.radio)
      play == IF rd4.play = "stop" /\ ~disc THEN box.cdc.play ELSE rd4.play
  IN  /\ rd4.on
      /\ disc' = (disc \/ (taken /\ rd4.play # "stop"))
      /\ Hears(IF taken THEN Dirty([box EXCEPT !.cdc = [play |-> play, disc |-> FALSE]], {"cdc"})
               ELSE box, filter)
      /\ UNCHANGED <<rd4, wire, rx, mdf, scope, acts>>

(* CAN 0x3A6: the changer, unless the built-in drive plays.                *)
Frame3A6 ==
  LET plays == rd4.source = "CDC"
  IN  /\ rd4.on /\ "CDC" \in Installed
      /\ Plain(IF box.radio.present /\ box.radio.source = "CD" THEN box
               ELSE Dirty([box EXCEPT !.cdc = [play |-> IF plays THEN "play" ELSE "stop",
                                               disc |-> plays]], {"cdc"}))

-----------------------------------------------------------------------------
(* CAN 0x1A5 (psa_decode_rd4_volume_0x1a5): mode 1 shows the volume while  *)
(* it is turned or muted.  A radio that is off or starts says 0, turning:  *)
(* not believed when it is known to be off, nor right after a louder one.  *)
Heard1A5 == IF rd4.on THEN <<rd4.knob, rd4.vol>> ELSE <<"turning", 0>>

VolumeMode(knob, mode) ==
  IF knob # "idle" THEN 1 ELSE IF mode = 1 THEN 0 ELSE mode

Taken(audio) ==
  IF audio = box.audio THEN box ELSE Dirty([box EXCEPT !.audio = audio], {"audio"})

Decoded1A5 ==
  LET a == box.audio
      knob == Heard1A5[1]
      vol == Heard1A5[2]
  IN  Taken(IF knob = "turning" /\ (Idle(box.radio) \/ (vol = 0 /\ a.valid /\ a.vol > 2)) THEN a
            ELSE [valid |-> TRUE, vol |-> vol, muted |-> knob = "muted",
                  mode |-> VolumeMode(knob, a.mode)])

Frame1A5 == Plain(Decoded1A5)

(* CAN 0x1E5 (psa_decode_rd4_audio_settings_0x1e5): mode 2 is any open     *)
(* menu of the tone settings.  Mutant: it stays open.                      *)
MenuModeSticky(mode) == IF rd4.menu THEN 2 ELSE mode
MenuMode(mode) == IF rd4.menu THEN 2 ELSE IF mode = 2 THEN 0 ELSE mode

Decoded1E5 ==
  Taken(IF Idle(box.radio) THEN box.audio
        ELSE [box.audio EXCEPT !.valid = TRUE, !.mode = MenuMode(@)])

Frame1E5 == Plain(Decoded1E5)

-----------------------------------------------------------------------------
(* The arbiter's tick: the debounce is over or the retries are, and it     *)
(* pushes.                                                                 *)
Settle ==
  /\ ~asleep /\ filter = "closed" /\ box.radio.present
  /\ filter' = "open" /\ box' = PushMedia(box, "open")
  /\ UNCHANGED <<rd4, wire, rx, disc, asleep, mdf, scope, acts>>

SendMedia(b) ==
  LET c == SendRadio(b, b.radio)
  IN  IF Tuned(b.radio) THEN SendText(SendPresets(c, b.radio))
      ELSE IF b.radio.source = "CD" THEN SendCd(c) ELSE c

Sends(b) ==
  /\ ~asleep /\ box' = b
  /\ UNCHANGED <<rd4, wire, rx, disc, filter, asleep, mdf, scope, acts>>

(* The two resyncs of can_router_periodic_100ms, both every 60 s, and the  *)
(* repetition of an open menu.  None is remembered as sent.                *)
Resynced ==
  LET b == IF box.audio.mode = 0 THEN SendAudio(box) ELSE box
  IN  IF filter = "open" /\ b.radio.power # 0 THEN SendMedia(b) ELSE b

Resync == Sends(Resynced)

RepeatMenu == box.audio.mode = 2 /\ Sends(SendAudio(box))

(* The fourth heartbeat 0x24 of the head unit, and the third.              *)
Header ==
  /\ filter = "open"
  /\ LET c == SendRadio(box, box.radio)
     IN  Sends(IF box.radio.source = "CD" THEN SendCd(c) ELSE c)
BeatAudio == Sends(SendAudio(box))

(* The watchdog of RouterPower, long after the radio said that it is off;  *)
(* and any other frame.                                                    *)
MediaFallsAsleep ==
  /\ ~asleep /\ ~rd4.on /\ box.radio.source = "off" /\ box.radio.power = 0
  /\ asleep' = TRUE
  /\ box' = [box EXCEPT !.radio.power = 0, !.radio.source = "off"]
  /\ UNCHANGED <<rd4, wire, rx, disc, filter, mdf, scope, acts>>

Wake ==
  /\ asleep /\ asleep' = FALSE
  /\ UNCHANGED <<rd4, wire, box, rx, disc, filter, mdf, scope, acts>>

-----------------------------------------------------------------------------
Act(part) ==
  /\ part \in scope
  /\ acts < MaxActs /\ acts' = acts + 1
  /\ UNCHANGED <<mdf, scope>>

(* The head unit has no power while the box sleeps (RouterPower).          *)
HuAct(b) == Act("hu") /\ ~asleep /\ box' = b /\ UNCHANGED <<rd4, wire, asleep>>

(* Commands 0x0F, 0xA1, 0x11 and 0x12 are answered from the adapter's      *)
(* copies, or the present state before there is one.                       *)
Copied(copy, now) == IF copy = <<>> THEN now ELSE copy[1]

AnswerRadio ==
  LET r == Copied(box.cached.radio, box.radio) IN SendPresets(SendRadio(box, r), r)
AnswerCd(b) ==
  LET c == Copied(b.cached.cdc, b.cdc)
  IN  [b EXCEPT !.cached.cdc = <<c>>, !.hu.play = c.play,
                !.hu.early = @ \/ b.cached.cdc = <<>>]

QueryResume ==
  /\ HuAct(IF Tuned(box.radio) THEN AnswerRadio ELSE AnswerCd(AnswerRadio))
  /\ UNCHANGED <<rx, disc, filter>>
QueryTuner ==
  /\ filter = "open"
  /\ ~box.radio.present \/ (Tuned(box.radio) /\ box.radio.power # 0)
  /\ HuAct(AnswerRadio)
  /\ UNCHANGED <<rx, disc, filter>>
QueryCd == HuAct(AnswerCd(box)) /\ UNCHANGED <<rx, disc, filter>>

(* Command 0xAD: a switch begins, or ends at once with a push; without a   *)
(* radio the wish itself counts as the source.                             *)
Select(f) ==
  /\ f = "aux" => ~box.radio.present
  /\ f = "open" => box.radio.present
  /\ filter' = f
  /\ HuAct(IF f = "closed" /\ box.radio.present THEN box ELSE PushMedia(box, f))
  /\ UNCHANGED <<rx, disc>>

(* The handshake: psa_rd4_media_init, and can_router_trigger_full_state_push. *)
Handshake ==
  LET b == PushMedia(Dirty(box, {"presets", "text", "audio"}), filter)
      c == IF b.audio.valid THEN Cleared([SendAudio(b) EXCEPT !.last.audio = b.audio], "audio")
           ELSE b
  IN  /\ HuAct(c)
      /\ rx' = [k \in Kinds |-> NoContext] /\ disc' = TRUE
      /\ UNCHANGED filter

-----------------------------------------------------------------------------
(* The radio and its driver.                                               *)
RadioDoes(part, r, w) ==
  /\ Act(part)
  /\ rd4' = r /\ wire' = w
  /\ UNCHANGED <<box, rx, disc, filter, asleep>>

Silent(r) == [r EXCEPT !.mute = FALSE, !.seek = FALSE, !.knob = "idle", !.menu = FALSE,
                       !.play = IF @ = "play" THEN "pause" ELSE @]

PowerKnob ==
  RadioDoes("source", Silent([rd4 EXCEPT !.on = ~@]), [k \in Kinds |-> NoTransfer])

(* Ten times a second it names its source: known before the next press.    *)
StepsSource(s) ==
  /\ rd4.on /\ ~rd4.mute /\ s # rd4.source
  /\ box.radio.source = rd4.source /\ box.radio.power # 3
  /\ RadioDoes("source", [Silent(rd4) EXCEPT !.source = s, !.mute = TRUE], wire)

Seeks == rd4.on /\ rd4.source = "tuner" /\ RadioDoes("station", [rd4 EXCEPT !.seek = TRUE], wire)
Tunes(f, p) ==
  /\ rd4.on /\ rd4.source = "tuner"
  /\ RadioDoes("station", [rd4 EXCEPT !.freq = f, !.preset = p], wire)

TurnsKnob(k, v) ==
  /\ rd4.on
  /\ k = "turning" \/ v = rd4.vol
  /\ RadioDoes("sound", [rd4 EXCEPT !.knob = k, !.vol = v], wire)
OpensMenu == rd4.on /\ RadioDoes("sound", [rd4 EXCEPT !.menu = ~@], wire)

MovesDisc ==
  RadioDoes("cd", [rd4 EXCEPT !.disc = ~@, !.play = IF rd4.disc THEN "stop" ELSE "pause"], wire)

(* A transfer begins, or is given up.                                      *)
Transfers(k) ==
  /\ rd4.on
  /\ RadioDoes(k, rd4, [wire EXCEPT ![k] = IF @.n = 0 THEN [n |-> acts + 1, sent |-> 0]
                                           ELSE NoTransfer])

(* A frame of it is lost on a full ring.                                   *)
LosesPiece(k) ==
  LET t == wire[k]
      i == t.sent + 1
  IN  /\ t.n # 0
      /\ RadioDoes(k, rd4, [wire EXCEPT ![k] = IF i = Pieces \/ (i = 1 /\ ~mdf) THEN NoTransfer
                                               ELSE [@ EXCEPT !.sent = i]])

(* 0x125 with 01 00 closes the list; a text may fit in one frame.          *)
DismissesList ==
  /\ rd4.on /\ Act("list")
  /\ rx' = [rx EXCEPT !["list"].active = FALSE]
  /\ wire' = [wire EXCEPT !["list"] = NoTransfer]
  /\ Hears(box, filter)
  /\ UNCHANGED <<rd4, disc>>

ShortText ==
  /\ rd4.on /\ wire["text"].n = 0 /\ Act("text")
  /\ rx' = [rx EXCEPT !["text"].active = FALSE]
  /\ Hears(Adopted("text", <<acts + 1>>), filter)
  /\ UNCHANGED <<rd4, wire, disc>>

(* What the radio finishes by itself: the change of source, the search for *)
(* a station, the turn of the knob, a disc taken in.                       *)
Finishes(r) ==
  rd4' = r /\ UNCHANGED <<wire, box, rx, disc, filter, asleep, mdf, scope, acts>>

Finish ==
  \/ rd4.mute /\ Finishes([rd4 EXCEPT !.mute = FALSE])
  \/ rd4.seek /\ \E f \in 1 .. 2 :
       Finishes([rd4 EXCEPT !.seek = FALSE, !.freq = f, !.preset = FALSE])
  \/ rd4.knob = "turning" /\ Finishes([rd4 EXCEPT !.knob = "idle"])
  \/ /\ rd4.on /\ ~rd4.mute /\ rd4.source = "CD" /\ rd4.disc /\ rd4.play # "play"
     /\ Finishes([rd4 EXCEPT !.play = "play"])

Sound == "sound" \in scope /\ (Frame1A5 \/ Frame1E5)
Drive == "cd" \in scope /\ (Frame325 \/ Frame365 \/ Frame3A5 \/ Frame3A6)
Tuner == Frame225 \/ Frame2A5
Asks ==
  \/ QueryResume \/ QueryTuner \/ QueryCd \/ Handshake
  \/ \E f \in {"open", "closed", "aux"} : Select(f)
Does ==
  \/ PowerKnob \/ Seeks \/ OpensMenu \/ MovesDisc \/ DismissesList \/ ShortText
  \/ \E s \in Installed : StepsSource(s)
  \/ \E f \in 1 .. 2, p \in BOOLEAN : Tunes(f, p)
  \/ \E k \in {"idle", "turning", "muted"}, v \in {0, Loud} : TurnsKnob(k, v)
  \/ \E k \in Kinds : Transfers(k) \/ LosesPiece(k)

(* What comes about by itself: the radio broadcasts its state and finishes *)
(* what it began, and the box ticks.                                       *)
Owed ==
  \/ Frame165 \/ Tuner \/ Drive \/ Sound \/ (\E k \in Kinds : SendPiece(k))
  \/ Settle \/ Resync \/ Finish

MediaNext == Owed \/ RepeatMenu \/ Header \/ BeatAudio \/ MediaFallsAsleep \/ Wake \/ Asks \/ Does

MediaSpec == MediaInit /\ [][MediaNext]_mediaVars

-----------------------------------------------------------------------------
Sources == Installed \cup {"off", "CD", "AUX"}
Playing == {"none", "play", "pause", "stop", "eject"}
Flags == {"radio", "presets", "text", "cdc", "audio"}
Transferred == 1 .. MaxActs

Radio == [present : BOOLEAN, source : Sources, power : 0 .. 3,
          freq : 0 .. 2, name : 0 .. 2, slot : 0 .. 2,
          list : Seq(Transferred), text : Seq(Transferred)]
Cdc == [play : Playing, disc : BOOLEAN]
Audio == [valid : BOOLEAN, vol : {0, 15, Loud}, muted : BOOLEAN, mode : 0 .. 2]
Display == [source : Sources, power : 0 .. 3, freq : 0 .. 2, name : 0 .. 2,
            presets : Seq(Nat), text : Seq(Transferred), play : Playing,
            early : BOOLEAN, audio : Audio]
Box == [radio : Radio, cdc : Cdc, audio : Audio,
        last : [radio : Radio, cdc : Cdc, audio : Audio],
        cached : [radio : Seq(Radio), cdc : Seq(Cdc)],
        dirty : SUBSET Flags, hu : Display]
Rd4 == [on : BOOLEAN, source : Installed, mute : BOOLEAN, freq : 1 .. 2, preset : BOOLEAN,
        seek : BOOLEAN, vol : {0, Loud}, knob : {"idle", "turning", "muted"},
        menu : BOOLEAN, play : {"play", "pause", "stop"}, disc : BOOLEAN]

MediaTypeOK ==
  /\ rd4 \in Rd4
  /\ box \in Box /\ box.dirty \subseteq {"presets", "text", "audio"}
  /\ wire \in [Kinds -> [n : 0 .. MaxActs, sent : 0 .. Pieces - 1]]
  /\ rx \in [Kinds -> [active : BOOLEAN, got : Seq(Transferred)]]
  /\ filter \in {"open", "closed", "aux"}
  /\ disc \in BOOLEAN /\ asleep \in BOOLEAN /\ mdf \in BOOLEAN
  /\ scope \in Scopes /\ acts \in 0 .. MaxActs

(* No CD plays on display beside another source: the head unit was told    *)
(* that it stopped when it was told of the new source, whichever way the   *)
(* source changed while the filter was closed or the radio muted.          *)
NoGhostPlayback ==
  box.hu.play = "play" =>
    box.hu.source = "CD" \/ box.hu.power = 3 \/ box.hu.early

(* A list or text on display is one the radio sent, never pieces of two,   *)
(* although frames are lost, transfers given up and contexts cleared in    *)
(* their middle.  With a factory display, which lets the radio go on when  *)
(* the box missed its first frame, this is not so.                         *)
Whole(seq) == \A i \in DOMAIN seq : seq[i] = seq[1]
WholeTransfers == ~mdf => Whole(box.radio.list) /\ Whole(box.radio.text)

(* At rest, when no frame of the radio and no tick of the box changes a    *)
(* thing, the head unit shows what the radio does: its source, station,    *)
(* presets, volume and menu, whatever was held back or ignored before.     *)
Truthful ==
  LET a == box.hu.audio
  IN  /\ box.hu.source = rd4.source /\ box.hu.power = 1
      /\ "sound" \in scope => /\ a.vol = rd4.vol /\ a.muted = (rd4.knob = "muted")
                              /\ a.mode = 0 \/ a.muted \/ rd4.menu
      /\ rd4.source = "tuner" =>
           /\ box.hu.presets = Presets(box.radio)
           /\ "station" \in scope => box.hu.freq = rd4.freq /\ box.hu.name = rd4.freq
Calm ==
  /\ rd4.on /\ ~rd4.mute /\ ~rd4.seek /\ rd4.knob # "turning" /\ ~asleep
  /\ filter = "open" /\ box.radio.source = rd4.source /\ box.radio.power = 1
Unmoved(b) == Routed(b, filter = "open") = box
AtRest ==
  /\ "station" \in scope => /\ Unmoved(Decoded225)
                            /\ rd4.source = "tuner" => Unmoved(Decoded2A5)
  /\ "sound" \in scope => Unmoved(Decoded1A5) /\ Unmoved(Decoded1E5)
  /\ Resynced = box
TruthfulAtRest == Calm /\ AtRest => Truthful
=============================================================================
