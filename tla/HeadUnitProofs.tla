--------------------------- MODULE HeadUnitProofs ---------------------------
(***************************************************************************)
(* What the head unit is shown.  Of RadioMedia, for every radio, length of *)
(* transfer and number of events: the types, that no CD plays on display   *)
(* beside another source, that no list or text is pieced together from two *)
(* transfers, and that at rest the head unit shows what the radio does.    *)
(* Of the Hiworld link, for any set of car models, any timing a head unit  *)
(* keeps to and any number of faults: four answered heartbeats heal the    *)
(* rotation, one noticed reboot does, and a burst has a reason.            *)
(***************************************************************************)
EXTENDS RadioMedia, HiworldLink, TLAPS

(***************************************************************************)
(* What the radio plays.                                                   *)
(***************************************************************************)

(* Two boxes in which a glance at the head unit and at the radio is the    *)
(* same.                                                                   *)
Like(b, c) ==
  /\ c.radio = b.radio /\ c.last.radio.source = b.last.radio.source /\ c.cached = b.cached
  /\ c.hu.source = b.hu.source /\ c.hu.power = b.hu.power
  /\ c.hu.play = b.hu.play /\ c.hu.early = b.hu.early
  /\ c.last.audio = b.last.audio /\ c.hu.audio = b.hu.audio

(* The volume and tone, and what was sent of them last.                    *)
SameSound(b, c) == c.audio = b.audio /\ c.last.audio = b.last.audio

(* The adapter's copies are what the head unit shows.                      *)
Copies(b) ==
  /\ b.cached.radio # <<>> => /\ b.hu.source = b.cached.radio[1].source
                              /\ b.hu.power = b.cached.radio[1].power
  /\ b.cached.cdc # <<>> => b.hu.play = b.cached.cdc[1].play

(* The head unit shows a CD playing only while the router believes to have *)
(* reported the CD as the source, and then shows the CD or a muted radio.  *)
(* It shows the volume and tone that the router sent last.                 *)
Honest(b) ==
  /\ Copies(b)
  /\ b.last.radio.source = "CD" => /\ b.cached.radio # <<>>
                                   /\ b.hu.source = "CD" \/ b.hu.power = 3
  /\ b.hu.play = "play" => b.hu.early \/ b.last.radio.source = "CD"
  /\ ~b.radio.present => b.radio.source = "off" /\ b.last.radio.source = "off"
  /\ b.last.audio.valid => b.hu.audio = b.last.audio

(* Where the filter is open the router has reported the source of a radio  *)
(* that is not muted.                                                      *)
Settled(b, open) ==
  open => b.radio.source = b.last.radio.source \/ b.radio.power = 3

LEMMA OneIsSeq ==
  ASSUME NEW S, NEW x \in S
  PROVE  <<x>> \in Seq(S) /\ <<x>> # <<>> /\ <<x>>[1] = x /\ Len(<<x>>) = 1
  OBVIOUS

LEMMA PresetsType ==
  ASSUME NEW r \in Radio
  PROVE  Presets(r) \in Seq(Nat)
<1>1. r.list \in Seq(Transferred) /\ r.slot \in Nat
  BY DEF Radio
<1>2. \A i \in 1 .. Len(r.list) : r.list[i] \in Nat
  <2>1. \A i \in 1 .. Len(r.list) : r.list[i] \in Transferred
    BY <1>1
  <2>2. Transferred \subseteq Nat
    BY MediaAssumption DEF Transferred
  <2> QED BY <2>1, <2>2
<1>3. r.list \in Seq(Nat)
  BY <1>1, <1>2
<1>4. <<r.slot>> \in Seq(Nat)
  BY <1>1
<1> QED BY <1>3, <1>4 DEF Presets

LEMMA SendRadioType ==
  ASSUME NEW b \in Box, NEW r \in Radio
  PROVE  /\ SendRadio(b, r) \in Box
         /\ SendRadio(b, r).radio = b.radio /\ SendRadio(b, r).last = b.last
         /\ SendRadio(b, r).cdc = b.cdc /\ SendRadio(b, r).audio = b.audio
         /\ SendRadio(b, r).dirty = b.dirty /\ SendRadio(b, r).cached.cdc = b.cached.cdc
         /\ SendRadio(b, r).cached.radio = <<r>>
         /\ SendRadio(b, r).hu.source = r.source /\ SendRadio(b, r).hu.power = r.power
         /\ SendRadio(b, r).hu.play = b.hu.play /\ SendRadio(b, r).hu.early = b.hu.early
         /\ SendRadio(b, r).hu.audio = b.hu.audio
         /\ SendRadio(b, r).hu.freq = (IF Tuned(r) /\ r.power # 0 THEN r.freq ELSE 0)
         /\ SendRadio(b, r).hu.name = (IF Tuned(r) THEN r.name ELSE 0)
<1> DEFINE live == Tuned(r) /\ r.power # 0
           b1 == [b EXCEPT !.cached.radio = <<r>>]
           b2 == [b1 EXCEPT !.hu.source = r.source]
           b3 == [b2 EXCEPT !.hu.power = r.power]
           b4 == [b3 EXCEPT !.hu.freq = IF live THEN r.freq ELSE 0]
           b5 == [b4 EXCEPT !.hu.name = IF Tuned(r) THEN r.name ELSE 0]
<1>1. SendRadio(b, r) = b5
  BY DEF SendRadio
<1>2. b1 \in Box /\ b1.radio = b.radio /\ b1.last = b.last /\ b1.cdc = b.cdc
      /\ b1.audio = b.audio /\ b1.dirty = b.dirty /\ b1.hu = b.hu
      /\ b1.cached.radio = <<r>> /\ b1.cached.cdc = b.cached.cdc
  <2>1. <<r>> \in Seq(Radio)
    BY OneIsSeq
  <2> QED BY <2>1 DEF Box
<1>3. r.source \in Sources /\ r.power \in 0 .. 3 /\ r.freq \in 0 .. 2 /\ r.name \in 0 .. 2
  BY DEF Radio
<1> DEFINE freq == IF live THEN r.freq ELSE 0
           name == IF Tuned(r) THEN r.name ELSE 0
<1>4. b5 \in Box /\ b5.radio = b1.radio /\ b5.last = b1.last /\ b5.cdc = b1.cdc
      /\ b5.audio = b1.audio /\ b5.dirty = b1.dirty /\ b5.cached = b1.cached
      /\ b5.hu.source = r.source /\ b5.hu.power = r.power
      /\ b5.hu.play = b1.hu.play /\ b5.hu.early = b1.hu.early
      /\ b5.hu.audio = b1.hu.audio /\ b5.hu.freq = freq /\ b5.hu.name = name
  <2>1. freq \in 0 .. 2 /\ name \in 0 .. 2
    BY <1>3
  <2>2. b5 = [b1 EXCEPT !.hu = [@ EXCEPT !.source = r.source, !.power = r.power,
                                         !.freq = freq, !.name = name]]
    <3> HIDE DEF freq, name, b1
    <3> QED BY <1>2 DEF Box, Display, freq, name
  <2> DEFINE h == [b1.hu EXCEPT !.source = r.source, !.power = r.power,
                                !.freq = freq, !.name = name]
  <2>3. h \in Display /\ h.source = r.source /\ h.power = r.power
        /\ h.play = b1.hu.play /\ h.early = b1.hu.early /\ h.audio = b1.hu.audio
        /\ h.freq = freq /\ h.name = name
    <3>1. b1.hu \in Display
      BY <1>2 DEF Box
    <3> HIDE DEF freq, name, b1
    <3> QED BY <1>3, <2>1, <3>1 DEF Display
  <2>4. b5 = [b1 EXCEPT !.hu = h]
    BY <2>2
  <2> HIDE DEF b1, b5, h
  <2> QED BY <1>2, <2>3, <2>4 DEF Box
<1> QED BY <1>1, <1>2, <1>4

LEMMA SendCdType ==
  ASSUME NEW b \in Box
  PROVE  /\ SendCd(b) \in Box
         /\ SendCd(b).radio = b.radio /\ SendCd(b).last = b.last
         /\ SendCd(b).cdc = b.cdc /\ SendCd(b).audio = b.audio
         /\ SendCd(b).dirty = b.dirty /\ SendCd(b).cached.radio = b.cached.radio
         /\ SendCd(b).cached.cdc = <<b.cdc>>
         /\ SendCd(b).hu.source = b.hu.source /\ SendCd(b).hu.power = b.hu.power
         /\ SendCd(b).hu.play = b.cdc.play /\ SendCd(b).hu.audio = b.hu.audio
         /\ SendCd(b).hu.early = (b.radio.source # "CD" \/ b.radio.power = 3)
<1> DEFINE early == b.radio.source # "CD" \/ b.radio.power = 3
           b1 == [b EXCEPT !.cached.cdc = <<b.cdc>>]
           b2 == [b1 EXCEPT !.hu.play = b.cdc.play, !.hu.early = early]
<1>1. SendCd(b) = b2
  BY DEF SendCd
<1>2. b1 \in Box /\ b1.radio = b.radio /\ b1.last = b.last /\ b1.cdc = b.cdc
      /\ b1.audio = b.audio /\ b1.dirty = b.dirty /\ b1.hu = b.hu
      /\ b1.cached.radio = b.cached.radio /\ b1.cached.cdc = <<b.cdc>>
  <2>1. b.cdc \in Cdc
    BY DEF Box
  <2>2. <<b.cdc>> \in Seq(Cdc)
    BY <2>1, OneIsSeq
  <2> QED BY <2>2 DEF Box
<1>3. b.cdc.play \in Playing /\ early \in BOOLEAN
  BY DEF Box, Cdc
<1>4. b2 \in Box /\ b2.radio = b1.radio /\ b2.last = b1.last /\ b2.cdc = b1.cdc
      /\ b2.audio = b1.audio /\ b2.dirty = b1.dirty /\ b2.cached = b1.cached
      /\ b2.hu.source = b1.hu.source /\ b2.hu.power = b1.hu.power
      /\ b2.hu.play = b.cdc.play /\ b2.hu.early = early /\ b2.hu.audio = b1.hu.audio
  <2> HIDE DEF b1, early
  <2> QED BY <1>2, <1>3 DEF Box, Display
<1> QED BY <1>1, <1>2, <1>4

LEMMA SendPresetsType ==
  ASSUME NEW b \in Box, NEW r \in Radio
  PROVE  SendPresets(b, r) \in Box /\ Like(b, SendPresets(b, r))
         /\ SendPresets(b, r).dirty = b.dirty /\ SendPresets(b, r).cdc = b.cdc
         /\ SendPresets(b, r).audio = b.audio
<1>1. Presets(r) \in Seq(Nat)
  BY PresetsType
<1> DEFINE c == [b EXCEPT !.hu.presets = Presets(r)]
<1>2. c \in Box /\ Like(b, c) /\ c.dirty = b.dirty /\ c.cdc = b.cdc /\ c.audio = b.audio
  BY <1>1 DEF Box, Display, Like
<1>3. Like(b, b)
  BY DEF Like
<1> QED BY <1>2, <1>3 DEF SendPresets

LEMMA SendTextType ==
  ASSUME NEW b \in Box
  PROVE  SendText(b) \in Box /\ Like(b, SendText(b)) /\ SendText(b).dirty = b.dirty
         /\ SendText(b).cdc = b.cdc /\ SendText(b).audio = b.audio
<1> DEFINE c == [b EXCEPT !.hu.text = b.radio.text]
<1>1. b.radio.text \in Seq(Transferred)
  BY DEF Box, Radio
<1>2. c \in Box /\ Like(b, c) /\ c.dirty = b.dirty /\ c.cdc = b.cdc /\ c.audio = b.audio
  BY <1>1 DEF Box, Display, Like
<1>3. Like(b, b)
  BY DEF Like
<1> QED BY <1>2, <1>3 DEF SendText

LEMMA SendAudioType ==
  ASSUME NEW b \in Box
  PROVE  /\ SendAudio(b) \in Box /\ SendAudio(b).dirty = b.dirty
         /\ SendAudio(b).radio = b.radio /\ SendAudio(b).last = b.last
         /\ SendAudio(b).cached = b.cached /\ SendAudio(b).audio = b.audio
         /\ SendAudio(b).hu.source = b.hu.source /\ SendAudio(b).hu.power = b.hu.power
         /\ SendAudio(b).hu.play = b.hu.play /\ SendAudio(b).hu.early = b.hu.early
         /\ SendAudio(b).hu.audio = IF b.audio.valid THEN b.audio ELSE b.hu.audio
<1> DEFINE c == [b EXCEPT !.hu.audio = b.audio]
<1>1. b.audio \in Audio
  BY DEF Box
<1>2. c \in Box /\ c.dirty = b.dirty /\ c.radio = b.radio /\ c.last = b.last
      /\ c.cached = b.cached /\ c.audio = b.audio /\ c.hu.source = b.hu.source
      /\ c.hu.power = b.hu.power /\ c.hu.play = b.hu.play /\ c.hu.early = b.hu.early
      /\ c.hu.audio = b.audio
  BY <1>1 DEF Box, Display
<1> QED BY <1>2 DEF SendAudio

(* What was sent last is sent again to no effect.                          *)
LEMMA SendsAgain ==
  ASSUME NEW b \in Box, Honest(b), b.audio = b.last.audio
  PROVE  Like(b, SendAudio(b)) /\ SameSound(b, SendAudio(b))
  BY SendAudioType DEF Honest, Like, SameSound

LEMMA FlagsType ==
  ASSUME NEW b \in Box, NEW flag \in Flags, NEW flags \in SUBSET Flags
  PROVE  /\ Cleared(b, flag) \in Box /\ Like(b, Cleared(b, flag))
         /\ Cleared(b, flag).dirty = b.dirty \ {flag}
         /\ Cleared(b, flag).cdc = b.cdc /\ Cleared(b, flag).audio = b.audio
         /\ Cleared(b, flag).last = b.last
         /\ Dirty(b, flags) \in Box /\ Like(b, Dirty(b, flags))
         /\ Dirty(b, flags).dirty = b.dirty \cup flags
         /\ Dirty(b, flags).cdc = b.cdc /\ Dirty(b, flags).audio = b.audio
  BY DEF Cleared, Dirty, Box, Like

LEMMA LikeIsHonest ==
  ASSUME NEW b, NEW c, Like(b, c)
  PROVE  /\ Honest(b) => Honest(c)
         /\ \A open \in BOOLEAN : Settled(b, open) => Settled(c, open)
  BY DEF Like, Honest, Copies, Settled

LEMMA LikeChains ==
  ASSUME NEW b, NEW c, NEW d, Like(b, c), Like(c, d)
  PROVE  Like(b, d)
  BY DEF Like

LEMMA SoundChains ==
  ASSUME NEW b, NEW c, NEW d, SameSound(b, c), SameSound(c, d)
  PROVE  SameSound(b, d)
  BY DEF SameSound

LEMMA ReportCdType ==
  ASSUME NEW b \in Box
  PROVE  /\ ReportCd(b) \in Box /\ ReportCd(b).last.radio = b.last.radio
         /\ ReportCd(b).dirty = b.dirty /\ ReportCd(b).audio = b.audio
         /\ Like(SendCd(b), ReportCd(b))
<1> DEFINE c == SendCd(b)
<1>1. c \in Box /\ c.last = b.last /\ c.dirty = b.dirty /\ c.audio = b.audio
  BY SendCdType
<1>2. b.cdc \in Cdc
  BY DEF Box
<1>3. ReportCd(b) = [c EXCEPT !.last.cdc = b.cdc]
  BY DEF ReportCd
<1> HIDE DEF c
<1>4. ReportCd(b) \in Box /\ ReportCd(b).last.radio = c.last.radio
      /\ ReportCd(b).dirty = c.dirty /\ ReportCd(b).audio = c.audio
      /\ Like(c, ReportCd(b))
  BY <1>1, <1>2, <1>3 DEF Box, Like
<1> QED BY <1>1, <1>4 DEF c

LEMMA CdIsHonest ==
  ASSUME NEW b \in Box, Honest(b),
         b.radio.source = "CD" /\ b.radio.power # 3 => b.last.radio.source = "CD"
  PROVE  Honest(SendCd(b)) /\ Honest(ReportCd(b))
<1>1. SendCd(b).cached.cdc = <<b.cdc>> /\ <<b.cdc>>[1] = b.cdc
  BY SendCdType
<1>2. Honest(SendCd(b))
  <2> DEFINE c == SendCd(b)
  <2>1. c.radio = b.radio /\ c.last = b.last /\ c.cached.radio = b.cached.radio
        /\ c.cached.cdc = <<b.cdc>> /\ c.hu.source = b.hu.source /\ c.hu.power = b.hu.power
        /\ c.hu.play = b.cdc.play /\ c.hu.audio = b.hu.audio
    BY SendCdType
  <2>2. c.hu.early = (b.radio.source # "CD" \/ b.radio.power = 3)
    BY SendCdType
  <2> HIDE DEF c
  <2>3. Copies(c)
    BY <1>1, <2>1 DEF Honest, Copies
  <2>4. c.hu.early \/ b.last.radio.source = "CD"
    BY <2>2
  <2> QED BY <2>1, <2>3, <2>4 DEF Honest, c
<1> QED BY <1>2, ReportCdType, LikeIsHonest

LEMMA RadioIsHonest ==
  ASSUME NEW b \in Box, NEW r \in Radio, Honest(b),
         b.last.radio.source = "CD" => r.source = "CD" \/ r.power = 3
  PROVE  Honest(SendRadio(b, r))
<1>1. SendRadio(b, r).cached.radio = <<r>> /\ <<r>>[1] = r /\ <<r>> # <<>>
  BY SendRadioType
<1> QED BY <1>1, SendRadioType DEF Honest, Copies

LEMMA LeaveCdFacts ==
  ASSUME NEW b \in Box, Honest(b)
  PROVE  /\ LeaveCd(b) \in Box /\ LeaveCd(b).radio = b.radio
         /\ LeaveCd(b).last.radio = b.last.radio
         /\ LeaveCd(b).dirty = b.dirty /\ LeaveCd(b).audio = b.audio
         /\ Copies(LeaveCd(b))
         /\ LeaveCd(b).hu.play = "play" => LeaveCd(b).hu.early \/ b.radio.source = "CD"
         /\ LeaveCd(b).last.audio = b.last.audio
         /\ b.last.audio.valid => LeaveCd(b).hu.audio = b.last.audio
<1> DEFINE c == [b EXCEPT !.cdc.play = "pause"]
<1>1. c \in Box /\ Like(b, c) /\ c.cdc.play = "pause" /\ c.last = b.last
      /\ c.dirty = b.dirty /\ c.audio = b.audio /\ c.radio = b.radio
  BY DEF Box, Cdc, Playing, Like
<1>2. CASE b.last.radio.source = "CD" /\ b.radio.source # "CD"
  <2>1. LeaveCd(b) = ReportCd(c)
    BY <1>2 DEF LeaveCd
  <2>2. Honest(c)
    BY <1>1, LikeIsHonest
  <2> HIDE DEF c
  <2>3. Honest(ReportCd(c))
    BY <1>1, <1>2, <2>2, CdIsHonest
  <2>4. ReportCd(c).hu.play = "pause"
    BY <1>1, SendCdType, ReportCdType DEF Like
  <2>5. ReportCd(c) \in Box /\ ReportCd(c).radio = c.radio
        /\ ReportCd(c).last.radio = c.last.radio
        /\ ReportCd(c).dirty = c.dirty /\ ReportCd(c).audio = c.audio
        /\ ReportCd(c).last.audio = c.last.audio
    BY <1>1, SendCdType, ReportCdType DEF Like
  <2> QED BY <1>1, <2>1, <2>3, <2>4, <2>5 DEF Honest
<1>3. CASE ~(b.last.radio.source = "CD" /\ b.radio.source # "CD")
  <2>1. LeaveCd(b) = b
    BY <1>3 DEF LeaveCd
  <2> QED BY <1>3, <2>1 DEF Honest
<1> QED BY <1>2, <1>3

(* What the router does when it tells the head unit of the radio.          *)
LEMMA ToldIsHonest ==
  ASSUME NEW b \in Box, Honest(b), NEW c \in Box,
         Like(SendRadio(LeaveCd(b), b.radio), c)
  PROVE  LET d == [c EXCEPT !.last.radio = b.radio]
         IN  /\ d \in Box /\ Honest(d) /\ d.radio = b.radio /\ d.last.radio = b.radio
             /\ d.dirty = c.dirty /\ d.audio = c.audio /\ d.last.audio = b.last.audio
<1> DEFINE l == LeaveCd(b)
           s == SendRadio(l, b.radio)
           d == [c EXCEPT !.last.radio = b.radio]
<1>1. l \in Box /\ b.radio \in Radio /\ l.radio = b.radio /\ Copies(l)
      /\ (l.hu.play = "play" => l.hu.early \/ b.radio.source = "CD")
      /\ l.last.audio = b.last.audio /\ (b.last.audio.valid => l.hu.audio = b.last.audio)
  BY LeaveCdFacts DEF Box
<1> HIDE DEF l
<1>2. s.cached.radio = <<b.radio>> /\ <<b.radio>>[1] = b.radio /\ <<b.radio>> # <<>>
      /\ s.hu.source = b.radio.source /\ s.hu.power = b.radio.power
      /\ s.hu.play = l.hu.play /\ s.hu.early = l.hu.early /\ s.cached.cdc = l.cached.cdc
      /\ s.radio = l.radio /\ s.last = l.last /\ s.hu.audio = l.hu.audio
  BY <1>1, SendRadioType
<1>3. Like(s, c)
  BY DEF l
<1> HIDE DEF s
<1>4. d \in Box /\ d.radio = c.radio /\ d.last.radio = b.radio /\ d.hu = c.hu
      /\ d.cached = c.cached /\ d.dirty = c.dirty /\ d.audio = c.audio
      /\ d.last.audio = c.last.audio
  BY <1>1 DEF Box
<1> HIDE DEF d
<1>5. Copies(d)
  <2>1. d.hu.source = b.radio.source /\ d.hu.power = b.radio.power /\ d.hu.play = l.hu.play
        /\ d.cached.radio = <<b.radio>> /\ d.cached.cdc = l.cached.cdc
    BY <1>2, <1>3, <1>4 DEF Like
  <2>2. l.cached.cdc # <<>> => l.hu.play = l.cached.cdc[1].play
    BY <1>1 DEF Copies
  <2> QED BY <1>2, <2>1, <2>2 DEF Copies
<1>6. d.cached.radio # <<>> /\ d.hu.source = b.radio.source
      /\ (d.hu.play = "play" => d.hu.early \/ b.radio.source = "CD")
  BY <1>1, <1>2, <1>3, <1>4 DEF Like
<1>7. d.radio = b.radio
  BY <1>1, <1>2, <1>3, <1>4 DEF Like
<1>8. d.last.audio = b.last.audio /\ (b.last.audio.valid => d.hu.audio = b.last.audio)
  BY <1>1, <1>2, <1>3, <1>4 DEF Like
<1>9. Honest(d)
  BY <1>4, <1>5, <1>6, <1>7, <1>8 DEF Honest
<1> QED BY <1>4, <1>7, <1>8, <1>9 DEF d

LEMMA RefreshType ==
  ASSUME NEW b \in Box
  PROVE  /\ Refresh(b) \in Box /\ Like(b, Refresh(b))
         /\ Refresh(b).dirty \subseteq b.dirty /\ Refresh(b).audio = b.audio
<1> DEFINE p == SendPresets(b, b.radio)
           c == Cleared(p, "presets")
           t == SendText(c)
           d == Cleared(t, "text")
<1>1. b.radio \in Radio /\ "presets" \in Flags /\ "text" \in Flags
  BY DEF Box, Flags
<1>2. p \in Box /\ Like(b, p) /\ p.dirty = b.dirty /\ p.audio = b.audio
  BY <1>1, SendPresetsType
<1>3. Refresh(b) = IF b.radio.text = <<>> THEN c ELSE d
  BY DEF Refresh
<1> HIDE DEF p
<1>4. c \in Box /\ Like(p, c) /\ c.dirty = p.dirty \ {"presets"} /\ c.audio = p.audio
  BY <1>1, <1>2, FlagsType
<1> HIDE DEF c
<1>5. t \in Box /\ Like(c, t) /\ t.dirty = c.dirty /\ t.audio = c.audio
  BY <1>4, SendTextType
<1> HIDE DEF t
<1>6. d \in Box /\ Like(t, d) /\ d.dirty = t.dirty \ {"text"} /\ d.audio = t.audio
  BY <1>1, <1>5, FlagsType
<1> HIDE DEF d
<1> QED BY <1>2, <1>3, <1>4, <1>5, <1>6 DEF Like

LEMMA ReportRadioFacts ==
  ASSUME NEW b \in Box, Honest(b)
  PROVE  /\ ReportRadio(b) \in Box /\ Honest(ReportRadio(b))
         /\ ReportRadio(b).radio = b.radio /\ ReportRadio(b).last.radio = b.radio
         /\ ReportRadio(b).dirty \subseteq b.dirty /\ SameSound(b, ReportRadio(b))
<1> DEFINE l == LeaveCd(b)
           c == SendRadio(l, b.radio)
           d == IF ~Tuned(b.last.radio) /\ Tuned(b.radio) THEN Refresh(c) ELSE c
<1>1. l \in Box /\ b.radio \in Radio /\ l.dirty = b.dirty /\ l.audio = b.audio
  BY LeaveCdFacts DEF Box
<1>2. c \in Box /\ c.dirty = l.dirty /\ c.audio = l.audio
  BY <1>1, SendRadioType
<1>3. d \in Box /\ Like(c, d) /\ d.dirty \subseteq c.dirty /\ d.audio = c.audio
  <2>1. Like(c, c)
    BY DEF Like
  <2> HIDE DEF c
  <2> QED BY <1>2, <2>1, RefreshType
<1>4. ReportRadio(b) = [d EXCEPT !.last.radio = b.radio]
  BY DEF ReportRadio
<1> HIDE DEF d
<1>5. [d EXCEPT !.last.radio = b.radio] \in Box /\ Honest([d EXCEPT !.last.radio = b.radio])
      /\ [d EXCEPT !.last.radio = b.radio].radio = b.radio
      /\ [d EXCEPT !.last.radio = b.radio].last.radio = b.radio
      /\ [d EXCEPT !.last.radio = b.radio].dirty = d.dirty
      /\ [d EXCEPT !.last.radio = b.radio].audio = d.audio
      /\ [d EXCEPT !.last.radio = b.radio].last.audio = b.last.audio
  BY <1>3, ToldIsHonest
<1> QED BY <1>1, <1>2, <1>3, <1>4, <1>5 DEF SameSound

LEMMA PushFacts ==
  ASSUME NEW b \in Box, Honest(b), NEW f
  PROVE  /\ PushMedia(b, f) \in Box /\ Honest(PushMedia(b, f))
         /\ PushMedia(b, f).radio = b.radio
         /\ PushMedia(b, f).dirty \subseteq b.dirty /\ SameSound(b, PushMedia(b, f))
         /\ f = "open" => PushMedia(b, f).last.radio.source = b.radio.source
<1> DEFINE l == LeaveCd(b)
           c == SendRadio(l, b.radio)
           d == [c EXCEPT !.last.radio = b.radio]
           aux == [Radio0 EXCEPT !.source = "AUX", !.power = 1]
<1>1. l \in Box /\ b.radio \in Radio /\ l.dirty = b.dirty /\ l.audio = b.audio
  BY LeaveCdFacts DEF Box
<1>2. c \in Box /\ c.dirty = l.dirty /\ c.audio = l.audio /\ Like(c, c)
  BY <1>1, SendRadioType DEF Like
<1>3. d \in Box /\ Honest(d) /\ d.radio = b.radio /\ d.last.radio = b.radio
      /\ d.dirty = c.dirty /\ d.audio = c.audio /\ d.last.audio = b.last.audio
  <2> HIDE DEF d
  <2> QED BY <1>2, ToldIsHonest DEF d
<1>4. CASE ~b.radio.present /\ f = "aux"
  <2>1. PushMedia(b, f) = SendRadio(b, aux)
    BY <1>4 DEF PushMedia
  <2>2. aux \in Radio
    <3>1. <<>> \in Seq(Transferred) /\ "off" \in Sources /\ "AUX" \in Sources
      BY DEF Sources
    <3>2. Radio0 \in Radio
      BY <3>1 DEF Radio0, Radio
    <3> DEFINE named == [Radio0 EXCEPT !.source = "AUX"]
    <3>3. named \in Radio
      BY <3>1, <3>2 DEF Radio
    <3>4. aux = [named EXCEPT !.power = 1]
      BY <3>2 DEF Radio
    <3> HIDE DEF named, aux
    <3> QED BY <3>3, <3>4 DEF Radio
  <2>3. b.last.radio.source # "CD"
    BY <1>4 DEF Honest
  <2> HIDE DEF aux
  <2> QED BY <1>4, <2>1, <2>2, <2>3, RadioIsHonest, SendRadioType DEF SameSound
<1>5. CASE ~(~b.radio.present /\ f = "aux") /\ Tuned(b.radio)
  <2>1. PushMedia(b, f) = Refresh(d)
    BY <1>5 DEF PushMedia
  <2> HIDE DEF d
  <2>2. Refresh(d) \in Box /\ Like(d, Refresh(d)) /\ Refresh(d).dirty \subseteq d.dirty
        /\ Refresh(d).audio = d.audio
    BY <1>3, RefreshType
  <2>3. Honest(Refresh(d)) /\ Refresh(d).radio = b.radio
        /\ Refresh(d).last.radio.source = b.radio.source
        /\ Refresh(d).last.audio = d.last.audio
    BY <1>3, <2>2, LikeIsHonest DEF Like
  <2> HIDE DEF c, l
  <2> QED BY <1>1, <1>2, <1>3, <2>1, <2>2, <2>3 DEF SameSound
<1>6. CASE ~(~b.radio.present /\ f = "aux") /\ ~Tuned(b.radio) /\ b.radio.source = "CD"
  <2>1. PushMedia(b, f) = ReportCd(d)
    BY <1>6 DEF PushMedia
  <2> HIDE DEF d
  <2>2. ReportCd(d) \in Box /\ ReportCd(d).last.radio = d.last.radio
        /\ ReportCd(d).dirty = d.dirty /\ ReportCd(d).audio = d.audio
        /\ ReportCd(d).radio = d.radio /\ ReportCd(d).last.audio = d.last.audio
    BY <1>3, ReportCdType, SendCdType DEF Like
  <2>3. Honest(ReportCd(d))
    BY <1>3, <1>6, CdIsHonest
  <2> QED BY <1>1, <1>2, <1>3, <2>1, <2>2, <2>3 DEF SameSound
<1>7. CASE ~(~b.radio.present /\ f = "aux") /\ ~Tuned(b.radio) /\ b.radio.source # "CD"
  <2>1. PushMedia(b, f) = d
    BY <1>7 DEF PushMedia
  <2> HIDE DEF d
  <2> QED BY <1>1, <1>2, <1>3, <2>1 DEF SameSound
<1> QED BY <1>4, <1>5, <1>6, <1>7

-----------------------------------------------------------------------------
(* The blocks of can_router_process_can, in their order.                   *)
LEMMA RouteAudioFacts ==
  ASSUME NEW b \in Box, Honest(b), b.audio = b.last.audio \/ "audio" \in b.dirty
  PROVE  /\ RouteAudio(b) \in Box /\ Honest(RouteAudio(b))
         /\ RouteAudio(b).radio = b.radio /\ RouteAudio(b).last.radio = b.last.radio
         /\ RouteAudio(b).dirty = b.dirty \ {"audio"}
         /\ RouteAudio(b).audio = b.audio /\ RouteAudio(b).last.audio = b.audio
<1> DEFINE a == SendAudio(b)
           c == [a EXCEPT !.last.audio = b.audio]
           d == IF b.audio # b.last.audio THEN c ELSE b
<1>1. a \in Box /\ a.dirty = b.dirty /\ b.audio \in Audio /\ "audio" \in Flags
      /\ a.radio = b.radio /\ a.last = b.last /\ a.cached = b.cached /\ a.audio = b.audio
      /\ a.hu.source = b.hu.source /\ a.hu.power = b.hu.power
      /\ a.hu.play = b.hu.play /\ a.hu.early = b.hu.early
      /\ (b.audio.valid => a.hu.audio = b.audio)
  BY SendAudioType DEF Flags, Box
<1>2. RouteAudio(b) = IF "audio" \notin b.dirty THEN b ELSE Cleared(d, "audio")
  BY DEF RouteAudio
<1> HIDE DEF a
<1>3. c \in Box /\ c.dirty = a.dirty /\ c.radio = a.radio /\ c.last.radio = a.last.radio
      /\ c.cached = a.cached /\ c.hu = a.hu /\ c.audio = a.audio /\ c.last.audio = b.audio
  BY <1>1 DEF Box
<1> HIDE DEF c
<1>4. Honest(c)
  BY <1>1, <1>3 DEF Honest, Copies
<1>5. d \in Box /\ Honest(d) /\ d.dirty = b.dirty /\ d.radio = b.radio
      /\ d.last.radio = b.last.radio /\ d.audio = b.audio /\ d.last.audio = b.audio
  BY <1>1, <1>3, <1>4
<1> HIDE DEF d
<1>6. Cleared(d, "audio") \in Box /\ Like(d, Cleared(d, "audio"))
      /\ Cleared(d, "audio").dirty = d.dirty \ {"audio"}
      /\ Cleared(d, "audio").audio = d.audio
      /\ Cleared(d, "audio").last.radio = d.last.radio
  BY <1>1, <1>5, FlagsType
<1>7. Honest(Cleared(d, "audio"))
  BY <1>5, <1>6, LikeIsHonest
<1> QED BY <1>2, <1>5, <1>6, <1>7 DEF Like

LEMMA RouteRadioFacts ==
  ASSUME NEW b \in Box, Honest(b), NEW open \in BOOLEAN,
         Settled(b, open) \/ "radio" \in b.dirty
  PROVE  /\ RouteRadio(b, open) \in Box /\ Honest(RouteRadio(b, open))
         /\ RouteRadio(b, open).radio = b.radio /\ Settled(RouteRadio(b, open), open)
         /\ RouteRadio(b, open).dirty \subseteq b.dirty \ {"radio"}
         /\ SameSound(b, RouteRadio(b, open))
<1> DEFINE c == IF ~open \/ b.radio.power = 3 THEN b ELSE ReportRadio(b)
           d == IF Tuned(b.radio) THEN b ELSE [b EXCEPT !.last.radio = b.radio]
<1>1. "radio" \in Flags
  BY DEF Flags
<1>2. CASE "radio" \notin b.dirty
  <2>1. RouteRadio(b, open) = b
    BY <1>2 DEF RouteRadio
  <2> QED BY <1>2, <2>1 DEF SameSound
<1>3. CASE "radio" \in b.dirty /\ RadioChanged(b)
  <2>1. RouteRadio(b, open) = Cleared(c, "radio")
    BY <1>3 DEF RouteRadio
  <2>2. c \in Box /\ Honest(c) /\ c.radio = b.radio /\ c.dirty \subseteq b.dirty
        /\ Settled(c, open) /\ SameSound(b, c)
    BY ReportRadioFacts DEF Settled, SameSound
  <2> HIDE DEF c
  <2>3. Cleared(c, "radio") \in Box /\ Like(c, Cleared(c, "radio"))
        /\ Cleared(c, "radio").dirty = c.dirty \ {"radio"}
        /\ Cleared(c, "radio").audio = c.audio /\ Cleared(c, "radio").last = c.last
    BY <1>1, <2>2, FlagsType
  <2>4. Honest(Cleared(c, "radio")) /\ Settled(Cleared(c, "radio"), open)
        /\ Cleared(c, "radio").radio = c.radio
    BY <2>2, <2>3, LikeIsHonest DEF Like
  <2> QED BY <2>1, <2>2, <2>3, <2>4 DEF SameSound
<1>4. CASE "radio" \in b.dirty /\ ~RadioChanged(b)
  <2>1. RouteRadio(b, open) = Cleared(d, "radio")
    BY <1>4 DEF RouteRadio
  <2>2. b.radio.source = b.last.radio.source
    BY <1>4 DEF RadioChanged
  <2>3. d \in Box /\ Like(b, d) /\ d.dirty = b.dirty /\ d.audio = b.audio
    <3>1. b.radio \in Radio
      BY DEF Box
    <3> QED BY <2>2, <3>1 DEF Box, Like
  <2> HIDE DEF d
  <2>4. Cleared(d, "radio") \in Box /\ Like(d, Cleared(d, "radio"))
        /\ Cleared(d, "radio").dirty = d.dirty \ {"radio"}
        /\ Cleared(d, "radio").audio = d.audio
    BY <1>1, <2>3, FlagsType
  <2>5. Like(b, Cleared(d, "radio"))
    BY <2>3, <2>4, LikeChains
  <2>6. Settled(b, open)
    BY <2>2 DEF Settled
  <2>7. Honest(Cleared(d, "radio")) /\ Settled(Cleared(d, "radio"), open)
        /\ Cleared(d, "radio").radio = b.radio
    BY <2>5, <2>6, LikeIsHonest DEF Like
  <2> QED BY <2>1, <2>3, <2>4, <2>5, <2>7 DEF SameSound, Like
<1> QED BY <1>2, <1>3, <1>4

LEMMA RoutePresetsFacts ==
  ASSUME NEW b \in Box, NEW open \in BOOLEAN
  PROVE  /\ RoutePresets(b, open) \in Box /\ Like(b, RoutePresets(b, open))
         /\ RoutePresets(b, open).dirty = b.dirty \ {"presets"}
         /\ SameSound(b, RoutePresets(b, open))
<1> DEFINE l == [b.last.radio EXCEPT !.slot = b.radio.slot, !.list = b.radio.list]
           c == [b EXCEPT !.last.radio.slot = b.radio.slot, !.last.radio.list = b.radio.list]
           d == IF open THEN SendPresets(c, b.radio) ELSE c
<1>1. b.radio \in Radio /\ b.last.radio \in Radio /\ "presets" \in Flags
  BY DEF Box, Flags
<1>2. l \in Radio /\ l.source = b.last.radio.source
  BY <1>1 DEF Radio
<1>3. c = [b EXCEPT !.last.radio = l]
  BY DEF Box
<1> HIDE DEF l, c
<1>4. c \in Box /\ Like(b, c) /\ c.dirty = b.dirty /\ c.audio = b.audio
  BY <1>2, <1>3 DEF Box, Like
<1>5. d \in Box /\ Like(b, d) /\ d.dirty = b.dirty /\ d.audio = b.audio
  BY <1>1, <1>4, SendPresetsType, LikeChains
<1>6. RoutePresets(b, open) = IF "presets" \notin b.dirty THEN b ELSE Cleared(d, "presets")
  BY DEF RoutePresets, c
<1> HIDE DEF d
<1>7. Cleared(d, "presets") \in Box /\ Like(d, Cleared(d, "presets"))
      /\ Cleared(d, "presets").dirty = d.dirty \ {"presets"}
      /\ Cleared(d, "presets").audio = d.audio
  BY <1>1, <1>5, FlagsType
<1>8. Like(b, b)
  BY DEF Like
<1>9. Like(b, Cleared(d, "presets"))
  BY <1>5, <1>7, LikeChains
<1> QED BY <1>5, <1>6, <1>7, <1>8, <1>9 DEF SameSound, Like

LEMMA RouteTextFacts ==
  ASSUME NEW b \in Box, NEW open \in BOOLEAN
  PROVE  /\ RouteText(b, open) \in Box /\ Like(b, RouteText(b, open))
         /\ RouteText(b, open).dirty = b.dirty \ {"text"}
         /\ SameSound(b, RouteText(b, open))
<1> DEFINE l == [b.last.radio EXCEPT !.text = b.radio.text]
           c == [b EXCEPT !.last.radio.text = b.radio.text]
           d == IF open /\ Tuned(b.radio) /\ b.radio.power # 0 THEN SendText(c) ELSE c
<1>1. b.radio \in Radio /\ b.last.radio \in Radio /\ "text" \in Flags
  BY DEF Box, Flags
<1>2. l \in Radio /\ l.source = b.last.radio.source
  BY <1>1 DEF Radio
<1>3. c = [b EXCEPT !.last.radio = l]
  BY DEF Box
<1> HIDE DEF l, c
<1>4. c \in Box /\ Like(b, c) /\ c.dirty = b.dirty /\ c.audio = b.audio
  BY <1>2, <1>3 DEF Box, Like
<1>5. d \in Box /\ Like(b, d) /\ d.dirty = b.dirty /\ d.audio = b.audio
  BY <1>4, SendTextType, LikeChains
<1>6. RouteText(b, open) = IF "text" \notin b.dirty THEN b ELSE Cleared(d, "text")
  BY DEF RouteText, c
<1> HIDE DEF d
<1>7. Cleared(d, "text") \in Box /\ Like(d, Cleared(d, "text"))
      /\ Cleared(d, "text").dirty = d.dirty \ {"text"}
      /\ Cleared(d, "text").audio = d.audio
  BY <1>1, <1>5, FlagsType
<1>8. Like(b, b)
  BY DEF Like
<1>9. Like(b, Cleared(d, "text"))
  BY <1>5, <1>7, LikeChains
<1> QED BY <1>5, <1>6, <1>7, <1>8, <1>9 DEF SameSound, Like

LEMMA RouteCdFacts ==
  ASSUME NEW b \in Box, Honest(b), NEW open \in BOOLEAN, Settled(b, open)
  PROVE  /\ RouteCd(b, open) \in Box /\ Honest(RouteCd(b, open))
         /\ RouteCd(b, open).radio = b.radio /\ Settled(RouteCd(b, open), open)
         /\ RouteCd(b, open).dirty = b.dirty \ {"cdc"}
         /\ SameSound(b, RouteCd(b, open))
<1> DEFINE shows == b.radio.source = "CD" \/ (~b.radio.present /\ b.cdc.disc)
           c == ReportCd(b)
           d == IF shows /\ b.cdc # b.last.cdc /\ open THEN c ELSE b
<1>1. RouteCd(b, open) = IF "cdc" \notin b.dirty THEN b ELSE Cleared(d, "cdc")
  BY DEF RouteCd
<1>2. c \in Box /\ c.radio = b.radio /\ c.last.radio = b.last.radio /\ c.dirty = b.dirty
      /\ SameSound(b, c)
  BY ReportCdType, SendCdType DEF Like, SameSound
<1>3. open => Honest(c)
  BY CdIsHonest DEF Settled
<1> HIDE DEF c
<1>4. d \in Box /\ Honest(d) /\ d.radio = b.radio /\ d.dirty = b.dirty /\ Settled(d, open)
      /\ SameSound(b, d)
  BY <1>2, <1>3 DEF Settled, SameSound
<1> HIDE DEF d
<1>5. "cdc" \in Flags
  BY DEF Flags
<1>6. Cleared(d, "cdc") \in Box /\ Like(d, Cleared(d, "cdc"))
      /\ Cleared(d, "cdc").dirty = d.dirty \ {"cdc"}
      /\ Cleared(d, "cdc").audio = d.audio
  BY <1>4, <1>5, FlagsType
<1>7. Honest(Cleared(d, "cdc")) /\ Settled(Cleared(d, "cdc"), open)
      /\ Cleared(d, "cdc").radio = d.radio
  BY <1>4, <1>6, LikeIsHonest DEF Like
<1> QED BY <1>1, <1>4, <1>6, <1>7 DEF SameSound, Like

(* Whatever a frame changed, the router leaves the head unit told.         *)
LEMMA RoutedFacts ==
  ASSUME NEW b \in Box, Honest(b), NEW open \in BOOLEAN,
         Settled(b, open) \/ "radio" \in b.dirty,
         b.audio = b.last.audio \/ "audio" \in b.dirty
  PROVE  /\ Routed(b, open) \in Box /\ Honest(Routed(b, open))
         /\ Routed(b, open).radio = b.radio /\ Settled(Routed(b, open), open)
         /\ Routed(b, open).dirty = {}
         /\ Routed(b, open).audio = b.audio /\ Routed(b, open).last.audio = b.audio
<1> DEFINE a == RouteAudio(b)
           r == RouteRadio(a, open)
           p == RoutePresets(r, open)
           t == RouteText(p, open)
           c == RouteCd(t, open)
<1>0. Routed(b, open) = c
  BY DEF Routed
<1>1. a \in Box /\ Honest(a) /\ a.radio = b.radio /\ a.last.radio = b.last.radio
      /\ a.dirty = b.dirty \ {"audio"} /\ a.audio = b.audio /\ a.last.audio = b.audio
  BY RouteAudioFacts
<1> HIDE DEF a
<1>2. Settled(a, open) \/ "radio" \in a.dirty
  BY <1>1 DEF Settled
<1>3. r \in Box /\ Honest(r) /\ r.radio = a.radio /\ Settled(r, open)
      /\ r.dirty \subseteq a.dirty \ {"radio"} /\ SameSound(a, r)
  BY <1>1, <1>2, RouteRadioFacts
<1> HIDE DEF r
<1>4. p \in Box /\ Like(r, p) /\ p.dirty = r.dirty \ {"presets"} /\ SameSound(r, p)
  BY <1>3, RoutePresetsFacts
<1> HIDE DEF p
<1>5. t \in Box /\ Like(p, t) /\ t.dirty = p.dirty \ {"text"} /\ SameSound(p, t)
  BY <1>4, RouteTextFacts
<1> HIDE DEF t
<1>6. Like(r, t)
  BY <1>4, <1>5, LikeChains
<1>7. Honest(t) /\ Settled(t, open) /\ t.radio = r.radio
  BY <1>3, <1>6, LikeIsHonest DEF Like
<1>8. c \in Box /\ Honest(c) /\ c.radio = t.radio /\ Settled(c, open)
      /\ c.dirty = t.dirty \ {"cdc"} /\ SameSound(t, c)
  BY <1>5, <1>7, RouteCdFacts
<1> HIDE DEF c
<1>9. b.dirty \subseteq Flags
  BY DEF Box
<1>10. c.dirty = {}
  BY <1>1, <1>3, <1>4, <1>5, <1>8, <1>9 DEF Flags
<1>11. c.audio = b.audio /\ c.last.audio = b.audio
  BY <1>1, <1>3, <1>4, <1>5, <1>8 DEF SameSound
<1> QED BY <1>0, <1>1, <1>3, <1>7, <1>8, <1>10, <1>11

-----------------------------------------------------------------------------
Filters == {"open", "closed", "aux"}

BoxInv(b, f) ==
  /\ b \in Box /\ b.dirty \subseteq {"presets", "text", "audio"}
  /\ f \in Filters
  /\ Honest(b)
  /\ b.audio = b.last.audio
  /\ Settled(b, f = "open")

(* What is not in the box.                                                 *)
OuterOK ==
  /\ rd4 \in Rd4
  /\ wire \in [Kinds -> [n : 0 .. MaxActs, sent : 0 .. Pieces - 1]]
  /\ rx \in [Kinds -> [active : BOOLEAN, got : Seq(Transferred)]]
  /\ disc \in BOOLEAN /\ asleep \in BOOLEAN /\ mdf \in BOOLEAN
  /\ scope \in Scopes /\ acts \in 0 .. MaxActs

(* No list is taken up; a text stays or is forgotten.                      *)
TextsKept(r, s) ==
  s.list = r.list /\ (s.text = r.text \/ s.text = <<>>)

StillKnown(b, f) == BoxInv(b, f) /\ TextsKept(box.radio, b.radio)

(* A frame decoded to b is ready to be routed.                             *)
Ready(b) ==
  /\ b \in Box /\ Honest(b)
  /\ Settled(b, filter = "open") \/ "radio" \in b.dirty
  /\ b.audio = b.last.audio \/ "audio" \in b.dirty

LEMMA HearsFacts ==
  ASSUME NEW b \in Box, Honest(b), NEW f \in Filters,
         Settled(b, f = "open") \/ "radio" \in b.dirty,
         b.audio = b.last.audio \/ "audio" \in b.dirty, Hears(b, f)
  PROVE  BoxInv(box', filter') /\ box'.radio = b.radio
<1>1. (f = "open") \in BOOLEAN
  OBVIOUS
<1>2. box' = Routed(b, f = "open") /\ filter' = f
  BY DEF Hears
<1>3. box' \in Box /\ Honest(box') /\ box'.radio = b.radio /\ Settled(box', f = "open")
      /\ box'.dirty = {} /\ box'.audio = b.audio /\ box'.last.audio = b.audio
  BY <1>1, <1>2, RoutedFacts
<1> QED BY <1>2, <1>3 DEF BoxInv

LEMMA ReadyFacts ==
  ASSUME NEW b, Ready(b), filter \in Filters
  PROVE  /\ Hears(b, filter) => BoxInv(box', filter') /\ box'.radio = b.radio
         /\ Unmoved(b) => box.radio = b.radio /\ box.audio = b.audio
<1>1. b \in Box /\ Honest(b) /\ (filter = "open") \in BOOLEAN
      /\ (Settled(b, filter = "open") \/ "radio" \in b.dirty)
      /\ (b.audio = b.last.audio \/ "audio" \in b.dirty)
  BY DEF Ready
<1>2. Hears(b, filter) => BoxInv(box', filter') /\ box'.radio = b.radio
  BY <1>1, HearsFacts
<1>3. Routed(b, filter = "open").radio = b.radio /\ Routed(b, filter = "open").audio = b.audio
  BY <1>1, RoutedFacts
<1> QED BY <1>2, <1>3 DEF Unmoved

(* A frame that leaves the radio's state alone.                            *)
LEMMA LikeReady ==
  ASSUME BoxInv(box, filter), NEW b \in Box, Like(box, b), NEW flags \in SUBSET Flags,
         b.audio = box.audio \/ "audio" \in flags
  PROVE  Ready(Dirty(b, flags)) /\ Dirty(b, flags).radio = box.radio
         /\ Dirty(b, flags).audio = b.audio
<1> DEFINE d == Dirty(b, flags)
<1>1. d \in Box /\ Like(b, d) /\ d.audio = b.audio /\ d.dirty = b.dirty \cup flags
  <2>1. "radio" \in Flags
    BY DEF Flags
  <2> QED BY <2>1, FlagsType
<1>2. Like(box, d)
  BY <1>1, LikeChains
<1>3. Honest(d) /\ Settled(d, filter = "open")
  <2>1. (filter = "open") \in BOOLEAN
    OBVIOUS
  <2> HIDE DEF d
  <2> QED BY <1>2, <2>1, LikeIsHonest DEF BoxInv
<1> HIDE DEF d
<1>4. d.audio = d.last.audio \/ "audio" \in d.dirty
  BY <1>1, <1>2 DEF Like, BoxInv
<1>5. d.radio = box.radio
  BY <1>2 DEF Like
<1> QED BY <1>1, <1>3, <1>4, <1>5 DEF Ready, d

LEMMA LikeHears ==
  ASSUME BoxInv(box, filter), NEW b \in Box, Like(box, b), NEW flags \in SUBSET Flags,
         b.audio = box.audio \/ "audio" \in flags,
         Hears(Dirty(b, flags), filter)
  PROVE  StillKnown(box', filter')
<1>1. Ready(Dirty(b, flags)) /\ Dirty(b, flags).radio = box.radio
  BY LikeReady
<1> QED BY <1>1, ReadyFacts DEF BoxInv, StillKnown, TextsKept

LEMMA SameHears ==
  ASSUME BoxInv(box, filter), Hears(box, filter)
  PROVE  StillKnown(box', filter')
<1>1. BoxInv(box', filter') /\ box'.radio = box.radio
  BY HearsFacts DEF BoxInv
<1> QED BY <1>1 DEF StillKnown, TextsKept

(* A frame that changes the radio's state is routed by the radio's flag.   *)
LEMMA RadioReady ==
  ASSUME BoxInv(box, filter), NEW b \in Box, Honest(b), SameSound(box, b),
         NEW flags \in SUBSET Flags, "radio" \in flags
  PROVE  LET d == Dirty(b, flags)
         IN  /\ d \in Box /\ Honest(d) /\ "radio" \in d.dirty /\ d.audio = d.last.audio
             /\ d.radio = b.radio
<1> DEFINE d == Dirty(b, flags)
<1>1. d \in Box /\ Like(b, d) /\ d.dirty = b.dirty \cup flags /\ d.audio = b.audio
  <2>1. "radio" \in Flags
    BY DEF Flags
  <2> QED BY <2>1, FlagsType
<1>2. Honest(d) /\ d.radio = b.radio /\ d.audio = d.last.audio
  BY <1>1, LikeIsHonest DEF Like, SameSound, BoxInv
<1> HIDE DEF d
<1> QED BY <1>1, <1>2 DEF d

LEMMA RadioHears ==
  ASSUME BoxInv(box, filter), NEW b \in Box, Honest(b), SameSound(box, b),
         NEW flags \in SUBSET Flags, NEW f \in Filters, "radio" \in flags, Hears(Dirty(b, flags), f)
  PROVE  BoxInv(box', filter') /\ box'.radio = b.radio
<1> DEFINE d == Dirty(b, flags)
<1>1. d \in Box /\ Honest(d) /\ "radio" \in d.dirty /\ d.audio = d.last.audio
      /\ d.radio = b.radio /\ Hears(d, f)
  BY RadioReady
<1> HIDE DEF d
<1> QED BY <1>1, HearsFacts

Named(r, s, p) == [r EXCEPT !.present = TRUE, !.source = s, !.power = p]

LEMMA NamedRadio ==
  ASSUME NEW r \in Radio, NEW s \in Sources, NEW p \in 0 .. 3
  PROVE  /\ Named(r, s, p) \in Radio /\ Named(r, s, p).present = TRUE
         /\ Named(r, s, p).list = r.list /\ Named(r, s, p).text = r.text
<1> DEFINE q1 == [r EXCEPT !.present = TRUE]
           q2 == [q1 EXCEPT !.source = s]
           q3 == [q2 EXCEPT !.power = p]
<1>1. q1 \in Radio /\ q1.present = TRUE /\ q1.list = r.list /\ q1.text = r.text
  BY DEF Radio
<1> HIDE DEF q1
<1>2. q2 \in Radio /\ q2.present = TRUE /\ q2.list = r.list /\ q2.text = r.text
  BY <1>1 DEF Radio
<1> HIDE DEF q2
<1>3. q3 \in Radio /\ q3.present = TRUE /\ q3.list = r.list /\ q3.text = r.text
  BY <1>2 DEF Radio
<1>4. Named(r, s, p) = q3
  BY DEF q1, q2, Named
<1> HIDE DEF q3
<1> QED BY <1>3, <1>4

LEMMA Frame165Facts ==
  ASSUME OuterOK, BoxInv(box, filter), Frame165
  PROVE  StillKnown(box', filter')
<1>0. PICK r \in Radio165 : \E h \in Heard(r.source) :
        Hears(Dirty(IF h.push THEN PushMedia([box EXCEPT !.radio = r], h.filter)
                    ELSE [box EXCEPT !.radio = r], {"radio"}), h.filter)
  BY DEF Frame165
<1>1. PICK h \in Heard(r.source) :
        Hears(Dirty(IF h.push THEN PushMedia([box EXCEPT !.radio = r], h.filter)
                    ELSE [box EXCEPT !.radio = r], {"radio"}), h.filter)
  BY <1>0
<1>2. box.radio \in Radio /\ rd4.source \in Sources
  BY DEF BoxInv, Box, OuterOK, Rd4, Sources
<1>3. /\ Off165 \in Radio /\ Off165.present = TRUE
      /\ Off165.list = box.radio.list /\ Off165.text = box.radio.text
  <2>1. "off" \in Sources /\ 0 \in 0 .. 3
    BY DEF Sources
  <2>2. Off165 = Named(box.radio, "off", 0)
    BY DEF Off165, Named
  <2> QED BY <1>2, <2>1, <2>2, NamedRadio
<1>4. \A s \in Sources, p \in {1, 3} :
        /\ On165(s, p) \in Radio /\ On165(s, p).present = TRUE
        /\ On165(s, p).list = box.radio.list /\ On165(s, p).text = box.radio.text
  <2> TAKE s \in Sources, p \in {1, 3}
  <2> DEFINE pw == IF s = "tuner" /\ p = 1 /\ box.radio.power = 2 THEN 2 ELSE p
  <2>1. pw \in 0 .. 3
    OBVIOUS
  <2>2. On165(s, p) = Named(box.radio, s, pw)
    BY <1>2 DEF On165, Radio, Named
  <2> HIDE DEF pw
  <2>3. s \in Sources
    OBVIOUS
  <2>4. box.radio \in Radio
    BY <1>2
  <2>5. Named(box.radio, s, pw) \in Radio
    BY <2>1, <2>3, <2>4, NamedRadio
  <2>6. Named(box.radio, s, pw).present = TRUE
    BY <2>1, <2>3, <2>4, NamedRadio
  <2>7. Named(box.radio, s, pw).list = box.radio.list
        /\ Named(box.radio, s, pw).text = box.radio.text
    BY <2>1, <2>3, <2>4, NamedRadio
  <2> QED BY <2>5, <2>6, <2>7, <2>2
<1>5. \A s \in Sources :
        LET q == [On165("CD", 1) EXCEPT !.source = s]
        IN  /\ q \in Radio /\ q.present = TRUE
            /\ q.list = box.radio.list /\ q.text = box.radio.text
  <2>1. "CD" \in Sources
    BY DEF Sources
  <2> DEFINE q0 == On165("CD", 1)
  <2>2. q0 \in Radio /\ q0.present = TRUE /\ q0.list = box.radio.list /\ q0.text = box.radio.text
    BY <1>4, <2>1
  <2> HIDE DEF q0
  <2>3. \A s \in Sources : 
          LET q == [q0 EXCEPT !.source = s]
          IN  /\ q \in Radio /\ q.present = TRUE
              /\ q.list = box.radio.list /\ q.text = box.radio.text
    BY <2>2 DEF Radio
  <2> QED BY <2>3 DEF q0
<1>6. /\ r \in Radio /\ r.present = TRUE
      /\ r.list = box.radio.list /\ r.text = box.radio.text
  <2>1. CASE r = Off165
    BY <1>3, <2>1
  <2>2. CASE \E s \in Sources, p \in {1, 3} : r = On165(s, p)
    BY <1>4, <2>2
  <2>3. CASE \E s \in Sources : r = [On165("CD", 1) EXCEPT !.source = s]
    BY <1>5, <2>3
  <2>4. "off" \in Sources /\ box.radio.source \in Sources
    BY <1>2 DEF Sources, Radio
  <2>5. CASE r \in Muted165
    BY <1>2, <2>2, <2>3, <2>4, <2>5 DEF Muted165
  <2> QED BY <1>2, <2>1, <2>2, <2>5 DEF Radio165
<1>7. h.filter \in Filters
  BY <1>1 DEF Heard, Filters
<1> DEFINE b == [box EXCEPT !.radio = r]
           c == IF h.push THEN PushMedia(b, h.filter) ELSE b
<1>8. b \in Box /\ b.radio = r /\ Honest(b) /\ SameSound(box, b)
  BY <1>6 DEF BoxInv, Box, Honest, Copies, SameSound
<1> HIDE DEF b
<1>9. c \in Box /\ c.radio = r /\ Honest(c) /\ SameSound(box, c)
  BY <1>8, PushFacts, SoundChains
<1>10. Hears(Dirty(c, {"radio"}), h.filter)
  BY <1>1 DEF b
<1> HIDE DEF c
<1>11. {"radio"} \in SUBSET Flags
  BY DEF Flags
<1>12. BoxInv(box', filter') /\ box'.radio = r
  BY <1>7, <1>9, <1>10, <1>11, RadioHears
<1> QED BY <1>6, <1>12 DEF StillKnown, TextsKept

LEMMA Decoded225Facts ==
  ASSUME OuterOK, BoxInv(box, filter)
  PROVE  /\ Ready(Decoded225) /\ TextsKept(box.radio, Decoded225.radio)
         /\ Decoded225.radio.freq = rd4.freq
<1> DEFINE r == box.radio
           s1 == [r EXCEPT !.power = Sought(r.power)]
           s2 == [s1 EXCEPT !.freq = rd4.freq]
           s3 == [s2 EXCEPT !.name = IF r.freq = rd4.freq THEN r.name ELSE 0]
           s4 == [s3 EXCEPT !.text = IF r.freq = rd4.freq THEN r.text ELSE <<>>]
           s == [s4 EXCEPT !.slot = IF rd4.preset THEN rd4.freq ELSE r.slot]
           b == [box EXCEPT !.radio = s]
           flags == {"radio"} \cup (IF s.slot # r.slot THEN {"presets"} ELSE {})
                             \cup (IF Len(s.text) # Len(r.text) THEN {"text"} ELSE {})
<1>1. r \in Radio /\ rd4.freq \in 0 .. 2
  BY DEF BoxInv, Box, OuterOK, Rd4
<1>2. Sought(r.power) \in 0 .. 3
  BY <1>1 DEF Sought, Radio
<1>3. s1 \in Radio /\ s1.source = r.source /\ s1.present = r.present
      /\ s1.list = r.list /\ s1.text = r.text /\ s1.name = r.name /\ s1.slot = r.slot
  BY <1>1, <1>2 DEF Radio
<1>4. s2 \in Radio /\ s2.source = r.source /\ s2.present = r.present
      /\ s2.list = r.list /\ s2.text = r.text /\ s2.name = r.name /\ s2.slot = r.slot
      /\ s2.freq = rd4.freq
  <2> HIDE DEF s1
  <2> QED BY <1>1, <1>3 DEF Radio
<1>5. s3 \in Radio /\ s3.source = r.source /\ s3.present = r.present
      /\ s3.list = r.list /\ s3.text = r.text /\ s3.slot = r.slot
      /\ s3.freq = rd4.freq
  <2> HIDE DEF s2
  <2> QED BY <1>1, <1>4 DEF Radio
<1>6. s4 \in Radio /\ s4.source = r.source /\ s4.present = r.present
      /\ s4.list = r.list /\ (s4.text = r.text \/ s4.text = <<>>) /\ s4.slot = r.slot
      /\ s4.freq = rd4.freq
  <2>1. <<>> \in Seq(Transferred) /\ r.text \in Seq(Transferred)
    BY <1>1 DEF Radio
  <2> HIDE DEF s3
  <2> QED BY <1>1, <1>5, <2>1 DEF Radio
<1>7. s \in Radio /\ s.source = r.source /\ s.present = r.present
      /\ s.list = r.list /\ (s.text = r.text \/ s.text = <<>>)
      /\ s.freq = rd4.freq
  <2> HIDE DEF s4
  <2> QED BY <1>1, <1>6 DEF Radio
<1>8. Decoded225 = Dirty(b, flags)
  <2>1. s = [r EXCEPT !.power = Sought(@), !.freq = rd4.freq,
                      !.name = IF r.freq = rd4.freq THEN @ ELSE 0,
                      !.text = IF r.freq = rd4.freq THEN @ ELSE <<>>,
                      !.slot = IF rd4.preset THEN rd4.freq ELSE @]
    BY <1>1, <1>3, <1>4, <1>5, <1>6 DEF Radio
  <2> HIDE DEF s
  <2> QED BY <2>1 DEF Decoded225
<1> HIDE DEF s
<1>9. b \in Box /\ Honest(b) /\ b.radio = s /\ SameSound(box, b)
  BY <1>1, <1>7 DEF BoxInv, Box, Honest, Copies, SameSound
<1>10. flags \in SUBSET Flags /\ "radio" \in flags
  BY DEF Flags
<1> HIDE DEF b, flags
<1>11. Decoded225 \in Box /\ Honest(Decoded225) /\ "radio" \in Decoded225.dirty
       /\ Decoded225.audio = Decoded225.last.audio /\ Decoded225.radio = s
  BY <1>8, <1>9, <1>10, RadioReady
<1> QED BY <1>7, <1>11 DEF Ready, TextsKept

LEMMA Frame225Facts ==
  ASSUME OuterOK, BoxInv(box, filter), Frame225
  PROVE  StillKnown(box', filter')
<1>1. Hears(Decoded225, filter)
  BY DEF Frame225, Plain
<1> QED BY <1>1, Decoded225Facts, ReadyFacts DEF BoxInv, StillKnown, TextsKept

LEMMA Decoded2A5Facts ==
  ASSUME OuterOK, BoxInv(box, filter)
  PROVE  /\ Ready(Decoded2A5) /\ TextsKept(box.radio, Decoded2A5.radio)
         /\ Decoded2A5.radio.name = IF rd4.seek THEN 0 ELSE rd4.freq
<1> DEFINE name == IF rd4.seek THEN 0 ELSE rd4.freq
           s == [box.radio EXCEPT !.name = name]
           b == [box EXCEPT !.radio = s]
<1>1. box.radio \in Radio /\ name \in 0 .. 2
  BY DEF BoxInv, Box, OuterOK, Rd4
<1>2. s \in Radio /\ s.source = box.radio.source /\ s.present = box.radio.present
      /\ s.list = box.radio.list /\ s.text = box.radio.text
      /\ s.name = name
  BY <1>1 DEF Radio
<1>3. Decoded2A5 = Dirty(b, {"radio"})
  <2>1. b = [box EXCEPT !.radio.name = IF rd4.seek THEN 0 ELSE rd4.freq]
    BY DEF BoxInv, Box
  <2> HIDE DEF b
  <2> QED BY <2>1 DEF Decoded2A5
<1> HIDE DEF s
<1>4. b \in Box /\ Honest(b) /\ b.radio = s /\ SameSound(box, b)
  BY <1>1, <1>2 DEF BoxInv, Box, Honest, Copies, SameSound
<1>5. {"radio"} \in SUBSET Flags
  BY DEF Flags
<1> HIDE DEF b
<1>6. Decoded2A5 \in Box /\ Honest(Decoded2A5) /\ "radio" \in Decoded2A5.dirty
      /\ Decoded2A5.audio = Decoded2A5.last.audio /\ Decoded2A5.radio = s
  BY <1>3, <1>4, <1>5, RadioReady
<1> QED BY <1>2, <1>6 DEF Ready, TextsKept

LEMMA Frame2A5Facts ==
  ASSUME OuterOK, BoxInv(box, filter), Frame2A5
  PROVE  StillKnown(box', filter')
<1>1. Hears(Decoded2A5, filter)
  BY DEF Frame2A5, Plain
<1> QED BY <1>1, Decoded2A5Facts, ReadyFacts DEF BoxInv, StillKnown, TextsKept

(* What the changer and the drive report changes no more than s_cdc.       *)
LEMMA DriveFacts ==
  ASSUME OuterOK, BoxInv(box, filter), Frame325 \/ Frame365 \/ Frame3A5 \/ Frame3A6
  PROVE  StillKnown(box', filter')
<1> DEFINE With(c) == [box EXCEPT !.cdc = c]
<1>1. box.cdc \in Cdc
  BY DEF BoxInv, Box
<1>2. ASSUME NEW c \in Cdc
      PROVE  With(c) \in Box /\ Like(box, With(c)) /\ With(c).audio = box.audio
  BY DEF BoxInv, Box, Like
<1>3. box \in Box /\ Like(box, box) /\ {"cdc"} \in SUBSET Flags
  BY DEF BoxInv, Like, Flags
<1>4. ASSUME NEW c \in Cdc, Hears(Dirty(With(c), {"cdc"}), filter)
      PROVE  StillKnown(box', filter')
  <2> DEFINE b == With(c)
  <2>1. b \in Box /\ Like(box, b) /\ b.audio = box.audio /\ Hears(Dirty(b, {"cdc"}), filter)
    BY <1>2, <1>4
  <2> HIDE DEF b
  <2> QED BY <1>3, <2>1, LikeHears
<1>5. CASE Frame325
  <2>1. [box.cdc EXCEPT !.play = "eject"] \in Cdc
    BY <1>1 DEF Cdc, Playing
  <2>2. [box EXCEPT !.cdc.play = "eject"] = With([box.cdc EXCEPT !.play = "eject"])
    BY DEF BoxInv, Box
  <2>3. \/ Hears(box, filter)
        \/ Hears(Dirty(box, {"cdc"}), filter)
        \/ Hears(Dirty(With([box.cdc EXCEPT !.play = "eject"]), {"cdc"}), filter)
    <3> HIDE DEF With
    <3> QED BY <1>5, <2>2 DEF Frame325
  <2> HIDE DEF With
  <2> QED BY <1>3, <1>4, <2>1, <2>3, SameHears, LikeHears
<1>6. CASE Frame365
  <2>1. [box.cdc EXCEPT !.disc = FALSE] \in Cdc
    BY <1>1 DEF Cdc
  <2>2. [box EXCEPT !.cdc.disc = FALSE] = With([box.cdc EXCEPT !.disc = FALSE])
    BY DEF BoxInv, Box
  <2>3. \/ Hears(box, filter)
        \/ Hears(Dirty(With([box.cdc EXCEPT !.disc = FALSE]), {"cdc"}), filter)
    <3> HIDE DEF With
    <3> QED BY <1>6, <2>2 DEF Frame365, Plain
  <2> HIDE DEF With
  <2> QED BY <1>4, <2>1, <2>3, SameHears
<1>7. CASE Frame3A5
  <2> DEFINE play == IF rd4.play = "stop" /\ ~disc THEN box.cdc.play ELSE rd4.play
             c == [play |-> play, disc |-> FALSE]
  <2>1. c \in Cdc
    BY <1>1 DEF Cdc, Playing, OuterOK, Rd4
  <2>2. Hears(box, filter) \/ Hears(Dirty(With(c), {"cdc"}), filter)
    BY <1>7 DEF Frame3A5
  <2> HIDE DEF With, c
  <2> QED BY <1>4, <2>1, <2>2, SameHears
<1>8. CASE Frame3A6
  <2> DEFINE plays == rd4.source = "CDC"
             c == [play |-> IF plays THEN "play" ELSE "stop", disc |-> plays]
  <2>1. c \in Cdc
    BY DEF Cdc, Playing
  <2>2. Hears(box, filter) \/ Hears(Dirty(With(c), {"cdc"}), filter)
    BY <1>8 DEF Frame3A6, Plain
  <2> HIDE DEF With, c
  <2> QED BY <1>4, <2>1, <2>2, SameHears
<1> QED BY <1>5, <1>6, <1>7, <1>8

LEMMA TakenFacts ==
  ASSUME BoxInv(box, filter), NEW a \in Audio
  PROVE  Ready(Taken(a)) /\ Taken(a).radio = box.radio /\ Taken(a).audio = a
<1> DEFINE b == [box EXCEPT !.audio = a]
<1>1. CASE a = box.audio
  <2>1. Taken(a) = box
    BY <1>1 DEF Taken
  <2> QED BY <1>1, <2>1 DEF Ready, BoxInv
<1>2. CASE a # box.audio
  <2>1. Taken(a) = Dirty(b, {"audio"})
    BY <1>2 DEF Taken
  <2>2. b \in Box /\ Like(box, b) /\ b.audio = a /\ {"audio"} \in SUBSET Flags
    BY DEF BoxInv, Box, Like, Flags
  <2> HIDE DEF b
  <2> QED BY <2>1, <2>2, LikeReady
<1> QED BY <1>1, <1>2

(* What the radio says of the volume when the knob is at rest or mutes.    *)
Turned == [valid |-> TRUE, vol |-> Heard1A5[2], muted |-> Heard1A5[1] = "muted",
           mode |-> VolumeMode(Heard1A5[1], box.audio.mode)]

LEMMA Decoded1A5Facts ==
  ASSUME OuterOK, BoxInv(box, filter)
  PROVE  /\ Ready(Decoded1A5) /\ Decoded1A5.radio = box.radio
         /\ Heard1A5[1] # "turning" => Decoded1A5.audio = Turned
<1> DEFINE knob == Heard1A5[1]
           vol == Heard1A5[2]
<1>1. box.audio \in Audio
  BY DEF BoxInv, Box
<1>2. vol \in {0, 15, Loud}
  BY DEF Heard1A5, OuterOK, Rd4
<1>3. VolumeMode(knob, box.audio.mode) \in 0 .. 2
  BY <1>1 DEF VolumeMode, Audio
<1>4. Turned = [valid |-> TRUE, vol |-> vol, muted |-> knob = "muted",
                mode |-> VolumeMode(knob, box.audio.mode)]
  BY DEF Turned
<1>5. Decoded1A5 = Taken(box.audio) \/ Decoded1A5 = Taken(Turned)
  BY DEF Decoded1A5, Turned
<1>6. knob # "turning" => Decoded1A5 = Taken(Turned)
  BY DEF Decoded1A5, Turned
<1> HIDE DEF knob, vol
<1>7. Turned \in Audio
  BY <1>2, <1>3, <1>4 DEF Audio
<1>8. Ready(Decoded1A5) /\ Decoded1A5.radio = box.radio
  BY <1>1, <1>5, <1>7, TakenFacts
<1> QED BY <1>6, <1>7, <1>8, TakenFacts DEF knob

LEMMA Decoded1E5Facts ==
  ASSUME OuterOK, BoxInv(box, filter)
  PROVE  /\ Ready(Decoded1E5) /\ Decoded1E5.radio = box.radio
         /\ ~Idle(box.radio) => Decoded1E5.audio.mode = MenuMode(box.audio.mode)
<1> DEFINE m == MenuMode(box.audio.mode)
           a1 == [box.audio EXCEPT !.valid = TRUE]
           new == [a1 EXCEPT !.mode = m]
<1>1. box.audio \in Audio
  BY DEF BoxInv, Box
<1>2. m \in 0 .. 2
  BY <1>1 DEF MenuMode, Audio
<1>3. a1 \in Audio
  BY <1>1 DEF Audio
<1>4. new \in Audio /\ new.mode = m
  <2> HIDE DEF a1, m
  <2> QED BY <1>2, <1>3 DEF Audio
<1>5. new = [box.audio EXCEPT !.valid = TRUE, !.mode = MenuMode(@)]
  BY <1>1 DEF Audio
<1> HIDE DEF new
<1>6. Decoded1E5 = Taken(IF Idle(box.radio) THEN box.audio ELSE new)
  BY <1>5 DEF Decoded1E5
<1>7. CASE Idle(box.radio)
  BY <1>1, <1>6, <1>7, TakenFacts
<1>8. CASE ~Idle(box.radio)
  BY <1>4, <1>6, <1>8, TakenFacts
<1> QED BY <1>7, <1>8

LEMMA SoundFacts ==
  ASSUME OuterOK, BoxInv(box, filter), Frame1A5 \/ Frame1E5
  PROVE  StillKnown(box', filter')
<1>1. PICK b : Hears(b, filter) /\ Ready(b) /\ b.radio = box.radio
  BY Decoded1A5Facts, Decoded1E5Facts DEF Frame1A5, Frame1E5, Plain
<1> QED BY <1>1, ReadyFacts DEF BoxInv, StillKnown, TextsKept

-----------------------------------------------------------------------------
(* What the box sends by itself or when asked.                             *)
LEMMA LikeKeeps ==
  ASSUME NEW b \in Box, NEW c \in Box, NEW f, BoxInv(b, f), Like(b, c), c.dirty = b.dirty,
         c.audio = b.audio
  PROVE  BoxInv(c, f) /\ c.radio = b.radio
<1>1. (f = "open") \in BOOLEAN
  OBVIOUS
<1>2. Honest(c) /\ Settled(c, f = "open")
  BY <1>1, LikeIsHonest DEF BoxInv
<1> QED BY <1>2 DEF BoxInv, Like

LEMMA PresentRadioKeeps ==
  ASSUME NEW b \in Box, BoxInv(b, "open")
  PROVE  LET c == SendRadio(b, b.radio)
         IN  /\ BoxInv(c, "open") /\ c.radio = b.radio
             /\ BoxInv(SendCd(c), "open") /\ SendCd(c).radio = b.radio
<1> DEFINE c == SendRadio(b, b.radio)
<1>1. b.radio \in Radio
  BY DEF Box
<1>2. b.last.radio.source = "CD" => b.radio.source = "CD" \/ b.radio.power = 3
  BY DEF BoxInv, Settled
<1>3. c \in Box /\ c.radio = b.radio /\ c.last = b.last /\ c.dirty = b.dirty
      /\ c.audio = b.audio
  BY <1>1, SendRadioType
<1>4. Honest(c)
  BY <1>1, <1>2, RadioIsHonest DEF BoxInv
<1> HIDE DEF c
<1>5. BoxInv(c, "open")
  BY <1>3, <1>4 DEF BoxInv, Settled
<1>6. SendCd(c) \in Box /\ SendCd(c).radio = c.radio /\ SendCd(c).last = c.last
      /\ SendCd(c).dirty = c.dirty /\ SendCd(c).audio = c.audio
  BY <1>3, SendCdType
<1>7. Honest(SendCd(c))
  BY <1>3, <1>4, <1>5, CdIsHonest DEF BoxInv, Settled
<1>8. BoxInv(SendCd(c), "open")
  BY <1>3, <1>5, <1>6, <1>7 DEF BoxInv, Settled
<1> QED BY <1>3, <1>5, <1>6, <1>8 DEF c

LEMMA SendMediaKeeps ==
  ASSUME NEW b \in Box, BoxInv(b, "open")
  PROVE  BoxInv(SendMedia(b), "open") /\ SendMedia(b).radio = b.radio
<1> DEFINE c == SendRadio(b, b.radio)
           p == SendPresets(c, b.radio)
           t == SendText(p)
<1>1. BoxInv(c, "open") /\ c.radio = b.radio
      /\ BoxInv(SendCd(c), "open") /\ SendCd(c).radio = b.radio
  BY PresentRadioKeeps
<1>2. b.radio \in Radio /\ c \in Box
  BY <1>1 DEF Box, BoxInv
<1>3. SendMedia(b) = IF Tuned(b.radio) THEN t
                     ELSE IF b.radio.source = "CD" THEN SendCd(c) ELSE c
  BY DEF SendMedia
<1> HIDE DEF c
<1>4. p \in Box /\ Like(c, p) /\ p.dirty = c.dirty /\ p.audio = c.audio
  BY <1>2, SendPresetsType
<1> HIDE DEF p
<1>5. t \in Box /\ Like(p, t) /\ t.dirty = p.dirty /\ t.audio = p.audio
  BY <1>4, SendTextType
<1> HIDE DEF t
<1>6. BoxInv(t, "open") /\ t.radio = c.radio
  BY <1>1, <1>2, <1>4, <1>5, LikeChains, LikeKeeps
<1> QED BY <1>1, <1>3, <1>6

LEMMA SendsFacts ==
  ASSUME BoxInv(box, filter), Resync \/ RepeatMenu \/ Header \/ BeatAudio
  PROVE  StillKnown(box', filter')
<1>1. box \in Box /\ StillKnown(box, filter)
  BY DEF BoxInv, StillKnown, TextsKept
<1>2. SendAudio(box) \in Box /\ BoxInv(SendAudio(box), filter) /\ SendAudio(box).radio = box.radio
  BY <1>1, SendAudioType, SendsAgain, LikeKeeps DEF BoxInv
<1>3. CASE Resync
  <2> DEFINE b == IF box.audio.mode = 0 THEN SendAudio(box) ELSE box
             c == IF filter = "open" /\ b.radio.power # 0 THEN SendMedia(b) ELSE b
  <2>1. box' = c /\ filter' = filter
    BY <1>3 DEF Resync, Resynced, Sends
  <2>2. b \in Box /\ BoxInv(b, filter) /\ b.radio = box.radio
    BY <1>1, <1>2
  <2> HIDE DEF b
  <2>3. BoxInv(c, filter) /\ c.radio = box.radio
    BY <2>2, SendMediaKeeps
  <2> QED BY <2>1, <2>3 DEF StillKnown, TextsKept
<1>4. CASE RepeatMenu \/ BeatAudio
  BY <1>2, <1>4 DEF RepeatMenu, BeatAudio, Sends, StillKnown, TextsKept
<1>5. CASE Header
  <2> DEFINE c == SendRadio(box, box.radio)
  <2>1. filter = "open" /\ filter' = filter
        /\ box' = IF box.radio.source = "CD" THEN SendCd(c) ELSE c
    BY <1>5 DEF Header, Sends
  <2>2. BoxInv(c, "open") /\ c.radio = box.radio
        /\ BoxInv(SendCd(c), "open") /\ SendCd(c).radio = box.radio
    BY <1>1, <2>1, PresentRadioKeeps
  <2> HIDE DEF c
  <2> QED BY <2>1, <2>2 DEF StillKnown, TextsKept
<1> QED BY <1>3, <1>4, <1>5

(* A push tells of the present state, and with it the filter may open.     *)
LEMMA PushKeeps ==
  ASSUME NEW b \in Box, Honest(b), b.audio = b.last.audio,
         b.dirty \subseteq {"presets", "text", "audio"},
         NEW f \in Filters
  PROVE  BoxInv(PushMedia(b, f), f) /\ PushMedia(b, f).radio = b.radio
<1> DEFINE c == PushMedia(b, f)
<1>1. /\ c \in Box /\ Honest(c) /\ c.radio = b.radio /\ c.dirty \subseteq b.dirty
      /\ SameSound(b, c)
      /\ f = "open" => c.last.radio.source = b.radio.source
  BY PushFacts
<1> HIDE DEF c
<1>2. BoxInv(c, f)
  BY <1>1 DEF BoxInv, Settled, SameSound
<1> QED BY <1>1, <1>2 DEF c

LEMMA SettleFacts ==
  ASSUME BoxInv(box, filter), Settle
  PROVE  StillKnown(box', filter')
<1>1. box' = PushMedia(box, "open") /\ filter' = "open" /\ "open" \in Filters
  BY DEF Settle, Filters
<1>2. BoxInv(box', "open") /\ box'.radio = box.radio
  BY <1>1, PushKeeps DEF BoxInv
<1> QED BY <1>1, <1>2 DEF StillKnown, TextsKept

LEMMA AnswerRadioKeeps ==
  ASSUME BoxInv(box, filter)
  PROVE  BoxInv(AnswerRadio, filter) /\ AnswerRadio.radio = box.radio
<1> DEFINE r == Copied(box.cached.radio, box.radio)
           c == SendRadio(box, r)
           p == SendPresets(c, r)
<1>1. box \in Box /\ box.cached.radio \in Seq(Radio) /\ box.radio \in Radio
  BY DEF BoxInv, Box
<1>2. r \in Radio
  BY <1>1 DEF Copied
<1>3. box.last.radio.source = "CD" => r.source = "CD" \/ r.power = 3
  BY DEF BoxInv, Honest, Copies, Copied
<1> HIDE DEF r
<1>4. c \in Box /\ c.radio = box.radio /\ c.last = box.last /\ c.dirty = box.dirty
      /\ c.audio = box.audio
  BY <1>1, <1>2, SendRadioType
<1>5. Honest(c)
  BY <1>1, <1>2, <1>3, RadioIsHonest DEF BoxInv
<1>6. BoxInv(c, filter)
  <2> HIDE DEF c
  <2> QED BY <1>4, <1>5 DEF BoxInv, Settled
<1> HIDE DEF c
<1>7. p \in Box /\ Like(c, p) /\ p.dirty = c.dirty /\ p.audio = c.audio
  BY <1>2, <1>4, SendPresetsType
<1> HIDE DEF p
<1>8. BoxInv(p, filter) /\ p.radio = c.radio
  BY <1>4, <1>6, <1>7, LikeKeeps
<1> QED BY <1>4, <1>8 DEF AnswerRadio, r, c, p

LEMMA AnswerCdKeeps ==
  ASSUME NEW b, NEW f, BoxInv(b, f)
  PROVE  BoxInv(AnswerCd(b), f) /\ AnswerCd(b).radio = b.radio
<1> DEFINE c == Copied(b.cached.cdc, b.cdc)
           early == b.hu.early \/ b.cached.cdc = <<>>
           h == [b.hu EXCEPT !.play = c.play, !.early = early]
           k == [b.cached EXCEPT !.cdc = <<c>>]
           d == [b EXCEPT !.cached = k, !.hu = h]
<1>1. b \in Box /\ b.cached.cdc \in Seq(Cdc) /\ b.cdc \in Cdc /\ b.hu \in Display
      /\ b.cached.radio \in Seq(Radio)
  BY DEF BoxInv, Box
<1>2. c \in Cdc /\ <<c>> \in Seq(Cdc) /\ <<c>>[1] = c /\ early \in BOOLEAN
  BY <1>1 DEF Copied
<1>3. b.cached.cdc # <<>> => b.hu.play = c.play
  BY DEF BoxInv, Honest, Copies, Copied
<1>4. AnswerCd(b) = d
  BY <1>1 DEF AnswerCd, BoxInv, Box, Display
<1> HIDE DEF c
<1>5. c.play \in Playing
  BY <1>2 DEF Cdc
<1>6. h.early = early /\ h.play = c.play /\ h.source = b.hu.source /\ h.power = b.hu.power
      /\ h.audio = b.hu.audio
      /\ h \in Display
  <2> HIDE DEF early
  <2> QED BY <1>1, <1>2, <1>5 DEF Display
<1>7. k.radio = b.cached.radio /\ k.cdc = <<c>> /\ k \in [radio : Seq(Radio), cdc : Seq(Cdc)]
  BY <1>1, <1>2 DEF Box
<1>8. h.early = TRUE \/ (h.early = b.hu.early /\ h.play = b.hu.play)
  BY <1>1, <1>3, <1>6 DEF Display
<1> HIDE DEF h, k, early
<1>9. d \in Box /\ d.radio = b.radio /\ d.last = b.last /\ d.dirty = b.dirty /\ d.audio = b.audio
      /\ d.hu = h /\ d.cached = k
  BY <1>1, <1>6, <1>7 DEF Box
<1> HIDE DEF d
<1>10. Copies(d)
  BY <1>2, <1>6, <1>7, <1>9 DEF BoxInv, Honest, Copies
<1>11. Honest(d)
  BY <1>6, <1>7, <1>8, <1>9, <1>10 DEF BoxInv, Honest
<1>12. BoxInv(d, f)
  BY <1>9, <1>11 DEF BoxInv, Settled
<1> QED BY <1>4, <1>9, <1>12

LEMMA AsksFacts ==
  ASSUME BoxInv(box, filter), Asks
  PROVE  StillKnown(box', filter')
<1>1. BoxInv(AnswerRadio, filter) /\ AnswerRadio.radio = box.radio
  BY AnswerRadioKeeps
<1>2. CASE QueryResume
  <2>1. filter' = filter
        /\ box' = IF Tuned(box.radio) THEN AnswerRadio ELSE AnswerCd(AnswerRadio)
    BY <1>2 DEF QueryResume, HuAct
  <2>2. BoxInv(AnswerCd(AnswerRadio), filter) /\ AnswerCd(AnswerRadio).radio = box.radio
    BY <1>1, AnswerCdKeeps
  <2> QED BY <1>1, <2>1, <2>2 DEF StillKnown, TextsKept
<1>3. CASE QueryTuner
  BY <1>1, <1>3 DEF QueryTuner, HuAct, StillKnown, TextsKept
<1>4. CASE QueryCd
  BY <1>4, AnswerCdKeeps DEF QueryCd, HuAct, StillKnown, TextsKept
<1>5. CASE Handshake
  <2> DEFINE d == Dirty(box, {"presets", "text", "audio"})
             b == PushMedia(d, filter)
             a == SendAudio(b)
             e == [a EXCEPT !.last.audio = b.audio]
             c == IF b.audio.valid THEN Cleared(e, "audio") ELSE b
  <2>1. box' = c /\ filter' = filter
    <3>1. c = IF b.audio.valid
              THEN Cleared([SendAudio(b) EXCEPT !.last.audio = b.audio], "audio") ELSE b
      OBVIOUS
    <3> HIDE DEF c
    <3> QED BY <1>5, <3>1 DEF Handshake, HuAct
  <2>2. {"presets", "text", "audio"} \in SUBSET Flags /\ "audio" \in Flags
    BY DEF Flags
  <2>3. d \in Box /\ Like(box, d) /\ d.dirty = box.dirty \cup {"presets", "text", "audio"}
        /\ d.audio = box.audio
    BY <2>2, FlagsType DEF BoxInv
  <2> HIDE DEF d
  <2>4. Honest(d) /\ d.radio = box.radio /\ d.audio = d.last.audio
        /\ d.dirty \subseteq {"presets", "text", "audio"}
    BY <2>3, LikeIsHonest DEF BoxInv, Like
  <2>5. BoxInv(b, filter) /\ b.radio = box.radio
    BY <2>3, <2>4, PushKeeps DEF BoxInv
  <2> HIDE DEF b
  <2>6. b \in Box /\ b.audio \in Audio /\ b.audio = b.last.audio /\ Honest(b)
    BY <2>5 DEF BoxInv, Box
  <2>7. a \in Box /\ Like(b, a) /\ a.dirty = b.dirty /\ a.audio = b.audio
    BY <2>6, SendAudioType, SendsAgain
  <2> HIDE DEF a
  <2>8. e \in Box /\ Like(a, e) /\ e.dirty = a.dirty /\ e.audio = a.audio
    BY <2>6, <2>7 DEF Box, Like
  <2> HIDE DEF e
  <2>9. BoxInv(e, filter) /\ e.radio = b.radio
    BY <2>5, <2>6, <2>7, <2>8, LikeChains, LikeKeeps
  <2>10. Cleared(e, "audio") \in Box /\ Like(e, Cleared(e, "audio"))
         /\ Cleared(e, "audio").dirty = e.dirty \ {"audio"}
         /\ Cleared(e, "audio").audio = e.audio
    BY <2>2, <2>8, FlagsType
  <2>11. Honest(Cleared(e, "audio")) /\ Settled(Cleared(e, "audio"), filter = "open")
         /\ Cleared(e, "audio").radio = e.radio
    <3>1. (filter = "open") \in BOOLEAN
      OBVIOUS
    <3> QED BY <2>9, <2>10, <3>1, LikeIsHonest DEF BoxInv, Like
  <2>12. BoxInv(Cleared(e, "audio"), filter)
    BY <2>9, <2>10, <2>11 DEF BoxInv, Like
  <2> QED BY <2>1, <2>5, <2>9, <2>11, <2>12 DEF StillKnown, TextsKept
<1>6. CASE \E f \in Filters : Select(f)
  <2>1. PICK f \in Filters : Select(f)
    BY <1>6
  <2>2. filter' = f
        /\ box' = IF f = "closed" /\ box.radio.present THEN box ELSE PushMedia(box, f)
    BY <2>1 DEF Select, HuAct
  <2>3. BoxInv(PushMedia(box, f), f) /\ PushMedia(box, f).radio = box.radio
    BY PushKeeps DEF BoxInv
  <2>4. f = "closed" => BoxInv(box, f)
    BY DEF BoxInv, Settled
  <2> QED BY <2>2, <2>3, <2>4 DEF StillKnown, TextsKept
<1> QED BY <1>2, <1>3, <1>4, <1>5, <1>6 DEF Asks, Filters

-----------------------------------------------------------------------------
(* Transfers.                                                              *)
Context == [active : BOOLEAN, got : Seq(Transferred)]
Transfer == [n : 0 .. MaxActs, sent : 0 .. Pieces - 1]

(* What a context collects is one transfer, the one under way once its     *)
(* first piece has passed.                                                 *)
OfOne(c, t) ==
  c.active => /\ c.got # <<>>
              /\ Whole(c.got)
              /\ t.sent > 0 => c.got[1] = t.n

TransferInv ==
  ~mdf => /\ Whole(box.radio.list) /\ Whole(box.radio.text)
          /\ \A k \in Kinds : OfOne(rx[k], wire[k])

LEMMA AssembledType ==
  ASSUME NEW c \in Context, NEW n \in Transferred, NEW i \in Nat
  PROVE  Assembled(c, n, i) \in Context
<1>1. c.active \in BOOLEAN /\ c.got \in Seq(Transferred)
  BY DEF Context
<1>2. <<n>> \in Seq(Transferred) /\ Append(c.got, n) \in Seq(Transferred)
  BY <1>1
<1>3. (i < Pieces) \in BOOLEAN
  OBVIOUS
<1>4. [active |-> TRUE, got |-> <<n>>] \in Context
      /\ [active |-> i < Pieces, got |-> Append(c.got, n)] \in Context
      /\ [c EXCEPT !.active = FALSE] \in Context
  BY <1>1, <1>2, <1>3 DEF Context
<1> QED BY <1>4 DEF Assembled

LEMMA AppendIsWhole ==
  ASSUME NEW q \in Seq(Transferred), q # <<>>, Whole(q), NEW n \in Transferred, q[1] = n
  PROVE  Append(q, n) # <<>> /\ Whole(Append(q, n)) /\ Append(q, n)[1] = n
<1> DEFINE a == Append(q, n)
<1>1. Len(q) \in Nat /\ Len(q) >= 1 /\ DOMAIN q = 1 .. Len(q)
  OBVIOUS
<1>2. Len(a) = Len(q) + 1 /\ DOMAIN a = 1 .. Len(a)
      /\ (\A i \in 1 .. Len(q) : a[i] = q[i]) /\ a[Len(q) + 1] = n
  OBVIOUS
<1>3. \A i \in 1 .. Len(q) : q[i] = n
  BY <1>1 DEF Whole
<1> HIDE DEF a
<1>4. \A i \in 1 .. Len(a) : a[i] = n
  BY <1>1, <1>2, <1>3
<1>5. a # <<>>
  BY <1>1, <1>2
<1> QED BY <1>1, <1>2, <1>4, <1>5 DEF a, Whole

LEMMA AssembledIsOne ==
  ASSUME NEW c \in Context, NEW t \in Transfer, t.n # 0, OfOne(c, t)
  PROVE  LET d == Assembled(c, t.n, t.sent + 1)
         IN  /\ d.active => d.got # <<>> /\ Whole(d.got) /\ d.got[1] = t.n
             /\ Complete(c, d) => Whole(d.got)
<1> DEFINE n == t.n
           i == t.sent + 1
           d == Assembled(c, n, i)
<1>1. c.active \in BOOLEAN /\ c.got \in Seq(Transferred) /\ n \in Transferred /\ t.sent \in Nat
  BY MediaAssumption DEF Context, Transfer, Transferred
<1>2. CASE i = 1
  <2>1. d = [active |-> TRUE, got |-> <<n>>]
    BY <1>2 DEF Assembled
  <2>2. <<n>> # <<>> /\ Whole(<<n>>) /\ <<n>>[1] = n
    BY DEF Whole
  <2>3. d.active = TRUE /\ d.got = <<n>>
    BY <2>1
  <2> HIDE DEF d
  <2> QED BY <2>2, <2>3 DEF d, Complete
<1>3. CASE i # 1 /\ ~c.active
  <2>1. d = c
    BY <1>3 DEF Assembled
  <2> QED BY <1>3, <2>1 DEF Complete
<1>4. CASE i # 1 /\ c.active /\ i = Len(c.got) + 1
  <2>1. d = [active |-> i < Pieces, got |-> Append(c.got, n)]
    BY <1>4 DEF Assembled
  <2>2. c.got # <<>> /\ Whole(c.got) /\ c.got[1] = n
    BY <1>1, <1>4 DEF OfOne
  <2>3. d.got = Append(c.got, n)
    BY <2>1
  <2>4. Append(c.got, n) # <<>> /\ Whole(Append(c.got, n)) /\ Append(c.got, n)[1] = n
    BY <1>1, <2>2, AppendIsWhole
  <2> HIDE DEF d
  <2> QED BY <2>3, <2>4 DEF d
<1>5. CASE i # 1 /\ c.active /\ i # Len(c.got) + 1
  <2>1. d = [c EXCEPT !.active = FALSE]
    BY <1>5 DEF Assembled
  <2>2. d.active = FALSE /\ d.got = c.got
    BY <2>1 DEF Context
  <2> HIDE DEF d
  <2> QED BY <1>5, <2>2 DEF d, OfOne
<1> QED BY <1>2, <1>3, <1>4, <1>5

LEMMA AdoptedFacts ==
  ASSUME BoxInv(box, filter), NEW k \in Kinds, NEW got \in Seq(Transferred),
         Hears(Adopted(k, got), filter)
  PROVE  /\ BoxInv(box', filter')
         /\ box'.radio.list \in {box.radio.list, got}
         /\ box'.radio.text \in {box.radio.text, got}
<1>1. box \in Box /\ box.radio \in Radio
  BY DEF BoxInv, Box
<1>2. CASE k = "list"
  <2> DEFINE s == [box.radio EXCEPT !.list = got]
             b == [box EXCEPT !.radio = s]
  <2>1. s \in Radio /\ s.source = box.radio.source /\ s.present = box.radio.present
        /\ s.list = got /\ s.text = box.radio.text
    BY <1>1 DEF Radio
  <2>2. b = [box EXCEPT !.radio.list = got]
    BY <1>1 DEF Box
  <2>3. Hears(Dirty(b, {"radio", "presets"}), filter)
    <3> HIDE DEF b
    <3> QED BY <1>2, <2>2 DEF Adopted
  <2> HIDE DEF s
  <2>4. b \in Box /\ b.radio = s /\ Honest(b) /\ SameSound(box, b)
    BY <1>1, <2>1 DEF BoxInv, Box, Honest, Copies, SameSound
  <2> HIDE DEF b
  <2>5. {"radio", "presets"} \in SUBSET Flags
    BY DEF Flags
  <2> QED BY <2>1, <2>3, <2>4, <2>5, RadioHears DEF BoxInv
<1>3. CASE k = "text"
  <2> DEFINE s == [box.radio EXCEPT !.text = got]
             b == [box EXCEPT !.radio = s]
             d == Dirty(b, {"text"})
  <2>1. s \in Radio /\ s.source = box.radio.source /\ s.present = box.radio.present
        /\ s.power = box.radio.power /\ s.text = got /\ s.list = box.radio.list
    BY <1>1 DEF Radio
  <2>2. b = [box EXCEPT !.radio.text = got]
    BY <1>1 DEF Box
  <2>3. Hears(d, filter)
    <3> HIDE DEF b
    <3> QED BY <1>3, <2>2 DEF Adopted
  <2> HIDE DEF s
  <2>4. b \in Box /\ b.radio = s /\ Honest(b) /\ Settled(b, filter = "open")
        /\ b.audio = b.last.audio
    BY <1>1, <2>1 DEF BoxInv, Box, Honest, Copies, Settled
  <2> HIDE DEF b
  <2>5. {"text"} \in SUBSET Flags /\ "text" \in Flags /\ (filter = "open") \in BOOLEAN
    BY DEF Flags
  <2>6. d \in Box /\ Like(b, d) /\ d.audio = b.audio
    BY <2>4, <2>5, FlagsType
  <2> HIDE DEF d
  <2>7. Honest(d) /\ Settled(d, filter = "open") /\ d.radio = s
        /\ d.audio = d.last.audio
    BY <2>4, <2>5, <2>6, LikeIsHonest DEF Like
  <2> QED BY <2>1, <2>3, <2>6, <2>7, HearsFacts DEF BoxInv
<1> QED BY <1>2, <1>3 DEF Kinds

(* The radio's frame with one more piece.                                  *)
LEMMA SendPieceFacts ==
  ASSUME OuterOK, BoxInv(box, filter), NEW k \in Kinds, SendPiece(k)
  PROVE  BoxInv(box', filter') /\ OuterOK' /\ (TransferInv => TransferInv')
<1> DEFINE t == wire[k]
           i == t.sent + 1
           c == rx[k]
           d == Assembled(c, t.n, i)
           t1 == IF i = Pieces THEN [t EXCEPT !.n = 0, !.sent = 0] ELSE [t EXCEPT !.sent = i]
           d1 == IF Complete(c, d) THEN NoContext ELSE d
<1>1. t \in Transfer /\ c \in Context /\ t.n # 0 /\ t.n \in Transferred
      /\ t.sent \in 0 .. Pieces - 1
      /\ Pieces \in Nat /\ i \in Nat
  BY MediaAssumption DEF OuterOK, Transfer, Context, SendPiece, Transferred
<1>2. wire' = [wire EXCEPT ![k] = t1] /\ rx' = [rx EXCEPT ![k] = d1]
      /\ Hears(IF Complete(c, d) THEN Adopted(k, d.got) ELSE box, filter)
      /\ UNCHANGED <<rd4, disc, mdf, scope, acts>> /\ asleep' = FALSE
  BY DEF SendPiece, Hears
<1>3. d \in Context
  BY <1>1, AssembledType
<1>4. d.got \in Seq(Transferred)
  BY <1>3 DEF Context
<1>5. t1 \in Transfer /\ (t1.sent > 0 => t1.n = t.n)
  <2>1. CASE i = Pieces
    <3>1. 0 \in 0 .. Pieces - 1 /\ 0 \in 0 .. MaxActs
      BY MediaAssumption
    <3>2. t1 = [t EXCEPT !.n = 0, !.sent = 0]
      BY <2>1
    <3>3. t1 \in Transfer /\ t1.sent = 0
      <4> HIDE DEF t1, t
      <4> QED BY <1>1, <3>1, <3>2 DEF Transfer
    <3> QED BY <3>3
  <2>2. CASE i # Pieces
    <3>1. i \in 0 .. Pieces - 1
      BY <1>1, <2>2
    <3>2. t1 = [t EXCEPT !.sent = i]
      BY <2>2
    <3>3. t1 \in Transfer /\ t1.n = t.n
      <4> HIDE DEF t1, t, i
      <4> QED BY <1>1, <3>1, <3>2 DEF Transfer
    <3> QED BY <3>3
  <2> QED BY <2>1, <2>2
<1>6. d1 \in Context
  <2>1. NoContext \in Context
    BY DEF NoContext, Context
  <2> HIDE DEF d
  <2> QED BY <1>3, <2>1
<1>7. OuterOK'
  <2> HIDE DEF t1, d1
  <2> QED BY <1>2, <1>5, <1>6 DEF OuterOK, Transfer, Context
<1>8. /\ BoxInv(box', filter')
      /\ Complete(c, d) => /\ box'.radio.list \in {box.radio.list, d.got}
                           /\ box'.radio.text \in {box.radio.text, d.got}
      /\ ~Complete(c, d) => TextsKept(box.radio, box'.radio)
  <2> HIDE DEF d, c
  <2> QED BY <1>2, <1>4, AdoptedFacts, SameHears DEF StillKnown
<1>9. ASSUME TransferInv PROVE TransferInv'
  <2> SUFFICES ASSUME ~mdf PROVE TransferInv'
    BY <1>2 DEF TransferInv
  <2>1. OfOne(c, t) /\ Whole(box.radio.list) /\ Whole(box.radio.text)
        /\ \A q \in Kinds : OfOne(rx[q], wire[q])
    BY <1>9 DEF TransferInv
  <2>2. /\ d.active => d.got # <<>> /\ Whole(d.got) /\ d.got[1] = t.n
        /\ Complete(c, d) => Whole(d.got)
    BY <1>1, <2>1, AssembledIsOne
  <2>3. Whole(<<>>)
    BY DEF Whole
  <2> HIDE DEF t, d, c, i
  <2>4. Whole(box'.radio.list) /\ Whole(box'.radio.text)
    BY <1>8, <2>1, <2>2, <2>3 DEF TextsKept
  <2>5. OfOne(d1, t1)
    BY <1>5, <2>2 DEF OfOne, NoContext
  <2> HIDE DEF d1, t1
  <2>6. \A q \in Kinds : OfOne(rx'[q], wire'[q])
    BY <1>2, <2>1, <2>5 DEF OuterOK
  <2> QED BY <2>4, <2>6 DEF TransferInv
<1> QED BY <1>7, <1>8, <1>9

(* Transfers begin, end and lose pieces; contexts are closed.              *)
LEMMA OthersKeepTransfers ==
  ASSUME TransferInv, mdf' = mdf, TextsKept(box.radio, box'.radio),
         \A k \in Kinds : \/ rx'[k].active = FALSE
                          \/ rx'[k] = rx[k] /\ wire'[k].sent = 0
                          \/ rx'[k] = rx[k] /\ wire[k].sent > 0 /\ wire'[k].n = wire[k].n
                          \/ rx'[k] = rx[k] /\ wire'[k] = wire[k]
  PROVE  TransferInv'
<1> SUFFICES ASSUME ~mdf PROVE TransferInv'
  BY DEF TransferInv
<1>1. Whole(<<>>)
  BY DEF Whole
<1>2. Whole(box'.radio.list) /\ Whole(box'.radio.text)
  BY <1>1 DEF TransferInv, TextsKept
<1>3. \A k \in Kinds : OfOne(rx'[k], wire'[k])
  BY DEF TransferInv, OfOne
<1> QED BY <1>2, <1>3 DEF TransferInv

-----------------------------------------------------------------------------
(* The radio and its driver leave the box alone.                           *)
LEMMA RadioDoesFacts ==
  ASSUME OuterOK, BoxInv(box, filter), NEW part, NEW r \in Rd4, NEW w \in [Kinds -> Transfer],
         RadioDoes(part, r, w)
  PROVE  /\ OuterOK' /\ StillKnown(box', filter')
         /\ mdf' = mdf /\ rx' = rx /\ wire' = w
<1>1. acts' \in 0 .. MaxActs
  BY MediaAssumption DEF RadioDoes, Act, OuterOK
<1>2. OuterOK'
  BY <1>1 DEF RadioDoes, Act, OuterOK, Transfer
<1>3. box' = box /\ filter' = filter
  BY DEF RadioDoes
<1> QED BY <1>2, <1>3 DEF RadioDoes, Act, StillKnown, TextsKept

LEMMA SilentType ==
  ASSUME NEW r \in Rd4
  PROVE  Silent(r) \in Rd4
<1> DEFINE s1 == [r EXCEPT !.mute = FALSE]
           s2 == [s1 EXCEPT !.seek = FALSE]
           s3 == [s2 EXCEPT !.knob = "idle"]
           s4 == [s3 EXCEPT !.menu = FALSE]
           s5 == [s4 EXCEPT !.play = IF r.play = "play" THEN "pause" ELSE r.play]
<1>1. s1 \in Rd4 /\ s1.play = r.play
  BY DEF Rd4
<1>2. s2 \in Rd4 /\ s2.play = r.play
  <2> HIDE DEF s1
  <2> QED BY <1>1 DEF Rd4
<1>3. s3 \in Rd4 /\ s3.play = r.play
  <2> HIDE DEF s2
  <2> QED BY <1>2 DEF Rd4
<1>4. s4 \in Rd4 /\ s4.play = r.play
  <2> HIDE DEF s3
  <2> QED BY <1>3 DEF Rd4
<1>5. r.play \in {"play", "pause", "stop"}
  BY DEF Rd4
<1>6. s5 \in Rd4
  <2> HIDE DEF s4
  <2> QED BY <1>4, <1>5 DEF Rd4
<1>7. Silent(r) = s5
  BY DEF Silent, Rd4
<1> QED BY <1>6, <1>7

LEMMA DriverFacts ==
  ASSUME OuterOK, BoxInv(box, filter),
         \/ PowerKnob \/ Seeks \/ OpensMenu \/ MovesDisc
         \/ \E s \in Installed : StepsSource(s)
         \/ \E f \in 1 .. 2, p \in BOOLEAN : Tunes(f, p)
         \/ \E k \in {"idle", "turning", "muted"}, v \in {0, Loud} : TurnsKnob(k, v)
  PROVE  /\ OuterOK' /\ StillKnown(box', filter')
         /\ mdf' = mdf /\ rx' = rx
         /\ wire' = wire \/ wire' = [k \in Kinds |-> NoTransfer]
<1>1. rd4 \in Rd4 /\ wire \in [Kinds -> Transfer]
      /\ [k \in Kinds |-> NoTransfer] \in [Kinds -> Transfer]
  BY MediaAssumption DEF OuterOK, Transfer, NoTransfer
<1>2. CASE PowerKnob
  <2>1. [rd4 EXCEPT !.on = ~@] \in Rd4
    BY <1>1 DEF Rd4
  <2> QED BY <1>1, <1>2, <2>1, SilentType, RadioDoesFacts DEF PowerKnob
<1>3. CASE Seeks
  <2>1. [rd4 EXCEPT !.seek = TRUE] \in Rd4
    BY <1>1 DEF Rd4
  <2> QED BY <1>1, <1>3, <2>1, RadioDoesFacts DEF Seeks
<1>4. CASE OpensMenu
  <2>1. [rd4 EXCEPT !.menu = ~@] \in Rd4
    BY <1>1 DEF Rd4
  <2> QED BY <1>1, <1>4, <2>1, RadioDoesFacts DEF OpensMenu
<1>5. CASE MovesDisc
  <2> DEFINE play == IF rd4.disc THEN "stop" ELSE "pause"
             r == [rd4 EXCEPT !.disc = ~@, !.play = play]
  <2>1. play \in {"play", "pause", "stop"}
    OBVIOUS
  <2>2. RadioDoes("cd", r, wire)
    BY <1>5 DEF MovesDisc
  <2> HIDE DEF play
  <2>3. r \in Rd4
    BY <1>1, <2>1 DEF Rd4
  <2> HIDE DEF r
  <2> QED BY <1>1, <2>2, <2>3, RadioDoesFacts
<1>6. CASE \E s \in Installed : StepsSource(s)
  <2>1. PICK s \in Installed : StepsSource(s)
    BY <1>6
  <2> DEFINE q == Silent(rd4)
             r == [q EXCEPT !.source = s, !.mute = TRUE]
  <2>2. RadioDoes("source", r, wire)
    BY <2>1 DEF StepsSource
  <2>3. q \in Rd4
    BY <1>1, SilentType
  <2> HIDE DEF q
  <2>4. r \in Rd4
    BY <2>1, <2>3 DEF Rd4
  <2> HIDE DEF r
  <2> QED BY <1>1, <2>2, <2>4, RadioDoesFacts
<1>7. CASE \E f \in 1 .. 2, p \in BOOLEAN : Tunes(f, p)
  <2>1. PICK f \in 1 .. 2, p \in BOOLEAN : Tunes(f, p)
    BY <1>7
  <2>2. [rd4 EXCEPT !.freq = f, !.preset = p] \in Rd4
    BY <1>1, <2>1 DEF Rd4
  <2> QED BY <1>1, <2>1, <2>2, RadioDoesFacts DEF Tunes
<1>8. CASE \E k \in {"idle", "turning", "muted"}, v \in {0, Loud} : TurnsKnob(k, v)
  <2>1. PICK k \in {"idle", "turning", "muted"}, v \in {0, Loud} : TurnsKnob(k, v)
    BY <1>8
  <2>2. [rd4 EXCEPT !.knob = k, !.vol = v] \in Rd4
    BY <1>1, <2>1 DEF Rd4
  <2> QED BY <1>1, <2>1, <2>2, RadioDoesFacts DEF TurnsKnob
<1> QED BY <1>2, <1>3, <1>4, <1>5, <1>6, <1>7, <1>8

LEMMA FinishFacts ==
  ASSUME OuterOK, BoxInv(box, filter), Finish
  PROVE  /\ OuterOK' /\ StillKnown(box', filter')
         /\ mdf' = mdf /\ rx' = rx /\ wire' = wire
<1>1. \E r \in Rd4 : Finishes(r)
  <2>1. rd4 \in Rd4
    BY DEF OuterOK
  <2>2. [rd4 EXCEPT !.mute = FALSE] \in Rd4 /\ [rd4 EXCEPT !.knob = "idle"] \in Rd4
        /\ [rd4 EXCEPT !.play = "play"] \in Rd4
    BY <2>1 DEF Rd4
  <2>3. \A f \in 1 .. 2 : [rd4 EXCEPT !.seek = FALSE, !.freq = f, !.preset = FALSE] \in Rd4
    BY <2>1 DEF Rd4
  <2> QED BY <2>2, <2>3 DEF Finish
<1>2. box' = box /\ filter' = filter /\ OuterOK'
  BY <1>1 DEF Finishes, OuterOK
<1> QED BY <1>1, <1>2 DEF Finishes, StillKnown, TextsKept

LEMMA TransfersFacts ==
  ASSUME OuterOK, BoxInv(box, filter), NEW k \in Kinds, Transfers(k) \/ LosesPiece(k)
  PROVE  OuterOK' /\ BoxInv(box', filter') /\ (TransferInv => TransferInv')
<1> DEFINE t == wire[k]
           i == t.sent + 1
<1>1. rd4 \in Rd4 /\ wire \in [Kinds -> Transfer] /\ t \in Transfer /\ NoTransfer \in Transfer
  BY MediaAssumption DEF OuterOK, Transfer, NoTransfer
<1>2. \E part \in {"list", "text"}, u \in Transfer :
        /\ RadioDoes(part, rd4, [wire EXCEPT ![k] = u])
        /\ u.sent = 0 \/ mdf \/ (t.sent > 0 /\ u.n = t.n)
  <2>1. CASE Transfers(k)
    <3> DEFINE u == IF t.n = 0 THEN [n |-> acts + 1, sent |-> 0] ELSE NoTransfer
    <3>1. RadioDoes(k, rd4, [wire EXCEPT ![k] = u])
      BY <1>1, <2>1 DEF Transfers
    <3>2. acts + 1 \in 0 .. MaxActs /\ 0 \in 0 .. Pieces - 1
      BY <3>1, MediaAssumption DEF RadioDoes, Act, OuterOK
    <3>3. u \in Transfer /\ u.sent = 0
      BY <1>1, <3>2 DEF Transfer, NoTransfer
    <3> HIDE DEF u
    <3> QED BY <3>1, <3>3 DEF Kinds
  <2>2. CASE LosesPiece(k)
    <3> DEFINE u == IF i = Pieces \/ (i = 1 /\ ~mdf) THEN NoTransfer ELSE [t EXCEPT !.sent = i]
    <3>1. RadioDoes(k, rd4, [wire EXCEPT ![k] = u])
      BY <1>1, <2>2 DEF LosesPiece
    <3>2. t.sent \in 0 .. Pieces - 1 /\ NoTransfer.sent = 0
      BY <1>1 DEF Transfer, NoTransfer
    <3>3. u \in Transfer /\ (u.sent = 0 \/ mdf \/ (t.sent > 0 /\ u.n = t.n))
      <4>1. CASE i = Pieces \/ (i = 1 /\ ~mdf)
        BY <1>1, <3>2, <4>1
      <4>2. CASE ~(i = Pieces \/ (i = 1 /\ ~mdf))
        <5>1. i \in 0 .. Pieces - 1 /\ (mdf \/ t.sent > 0)
          BY <3>2, <4>2, MediaAssumption
        <5>2. u = [t EXCEPT !.sent = i]
          BY <4>2
        <5>3. u \in Transfer /\ u.n = t.n
          <6> HIDE DEF u, t, i
          <6> QED BY <1>1, <5>1, <5>2 DEF Transfer
        <5> QED BY <5>1, <5>3
      <4> QED BY <4>1, <4>2
    <3> HIDE DEF u
    <3> QED BY <3>1, <3>3 DEF Kinds
  <2> QED BY <2>1, <2>2
<1>3. PICK part \in {"list", "text"}, u \in Transfer :
        /\ RadioDoes(part, rd4, [wire EXCEPT ![k] = u])
        /\ u.sent = 0 \/ mdf \/ (t.sent > 0 /\ u.n = t.n)
  BY <1>2
<1>4. [wire EXCEPT ![k] = u] \in [Kinds -> Transfer]
  BY <1>1
<1>5. OuterOK' /\ StillKnown(box', filter') /\ mdf' = mdf /\ rx' = rx
      /\ wire' = [wire EXCEPT ![k] = u]
  BY <1>1, <1>3, <1>4, RadioDoesFacts
<1>6. ASSUME TransferInv PROVE TransferInv'
  <2>1. CASE mdf
    BY <1>5, <2>1 DEF TransferInv
  <2>2. CASE ~mdf
    <3>1. \A q \in Kinds : \/ rx'[q] = rx[q] /\ wire'[q].sent = 0
                           \/ rx'[q] = rx[q] /\ wire[q].sent > 0 /\ wire'[q].n = wire[q].n
                           \/ rx'[q] = rx[q] /\ wire'[q] = wire[q]
      BY <1>1, <1>3, <1>5, <2>2
    <3> QED BY <1>5, <1>6, <3>1, OthersKeepTransfers DEF StillKnown
  <2> QED BY <2>1, <2>2
<1> QED BY <1>5, <1>6 DEF StillKnown

(* A frame that closes a context: the list is dismissed, or a text fits in *)
(* one frame.                                                              *)
LEMMA ClosedType ==
  ASSUME OuterOK, NEW k \in Kinds, rx' = [rx EXCEPT ![k].active = FALSE]
  PROVE  rx' \in [Kinds -> Context] /\ rx'[k].active = FALSE
         /\ \A q \in Kinds \ {k} : rx'[q] = rx[q]
<1> DEFINE c == [rx[k] EXCEPT !.active = FALSE]
<1>1. rx \in [Kinds -> Context]
  BY DEF OuterOK, Context
<1>2. c \in Context /\ c.active = FALSE
  BY <1>1 DEF Context
<1>3. rx' = [rx EXCEPT ![k] = c]
  BY <1>1
<1> HIDE DEF c
<1> QED BY <1>1, <1>2, <1>3

LEMMA DismissesListFacts ==
  ASSUME OuterOK, BoxInv(box, filter), DismissesList
  PROVE  OuterOK' /\ BoxInv(box', filter') /\ (TransferInv => TransferInv')
<1>1. /\ rx' = [rx EXCEPT !["list"].active = FALSE]
      /\ wire' = [wire EXCEPT !["list"] = NoTransfer]
      /\ Hears(box, filter) /\ Act("list") /\ UNCHANGED <<rd4, disc>>
  BY DEF DismissesList
<1>2. "list" \in Kinds /\ NoTransfer \in Transfer
  BY MediaAssumption DEF Kinds, NoTransfer, Transfer
<1>3. rx' \in [Kinds -> Context] /\ rx'["list"].active = FALSE
      /\ \A q \in Kinds \ {"list"} : rx'[q] = rx[q]
  BY <1>1, <1>2, ClosedType
<1>4. wire \in [Kinds -> Transfer]
  BY DEF OuterOK, Transfer
<1>5. wire' \in [Kinds -> Transfer] /\ \A q \in Kinds \ {"list"} : wire'[q] = wire[q]
  BY <1>1, <1>2, <1>4
<1>6. StillKnown(box', filter')
  BY <1>1, SameHears
<1>7. acts' \in 0 .. MaxActs /\ mdf' = mdf /\ scope' = scope /\ asleep' = FALSE
  BY <1>1, MediaAssumption DEF Act, OuterOK, Hears
<1>8. OuterOK'
  BY <1>1, <1>3, <1>5, <1>7 DEF OuterOK, Transfer, Context
<1>9. TransferInv => TransferInv'
  BY <1>3, <1>5, <1>6, <1>7, OthersKeepTransfers DEF StillKnown
<1> QED BY <1>6, <1>8, <1>9 DEF StillKnown

LEMMA ShortTextFacts ==
  ASSUME OuterOK, BoxInv(box, filter), ShortText
  PROVE  OuterOK' /\ BoxInv(box', filter') /\ (TransferInv => TransferInv')
<1> DEFINE got == <<acts + 1>>
<1>1. /\ rx' = [rx EXCEPT !["text"].active = FALSE]
      /\ Hears(Adopted("text", got), filter) /\ Act("text") /\ UNCHANGED <<rd4, wire, disc>>
  BY DEF ShortText
<1>2. "text" \in Kinds /\ acts + 1 \in Transferred /\ acts' \in 0 .. MaxActs
      /\ mdf' = mdf /\ scope' = scope /\ asleep' = FALSE
  BY <1>1, MediaAssumption DEF Kinds, Act, OuterOK, Transferred, Hears
<1>3. rx' \in [Kinds -> Context] /\ rx'["text"].active = FALSE
      /\ \A q \in Kinds \ {"text"} : rx'[q] = rx[q]
  BY <1>1, <1>2, ClosedType
<1>4. got \in Seq(Transferred) /\ Whole(got)
  BY <1>2 DEF Whole
<1>5. OuterOK'
  BY <1>1, <1>2, <1>3 DEF OuterOK, Context
<1> HIDE DEF got
<1>6. /\ BoxInv(box', filter')
      /\ box'.radio.list \in {box.radio.list, got} /\ box'.radio.text \in {box.radio.text, got}
  BY <1>1, <1>2, <1>4, AdoptedFacts
<1>7. TransferInv => TransferInv'
  BY <1>1, <1>2, <1>3, <1>4, <1>6 DEF TransferInv, OfOne
<1> QED BY <1>5, <1>6, <1>7

(* The box's own part in what comes about by itself, and sleep.            *)
LEMMA BoxStepFacts ==
  ASSUME OuterOK, BoxInv(box, filter),
         \/ Frame165 \/ Tuner \/ Drive \/ Sound \/ Settle \/ Resync
         \/ RepeatMenu \/ Header \/ BeatAudio \/ MediaFallsAsleep \/ Wake
  PROVE  /\ OuterOK' /\ StillKnown(box', filter')
         /\ mdf' = mdf /\ rx' = rx /\ wire' = wire
<1>1. CASE Frame165 \/ Tuner \/ Drive \/ Sound
  <2>1. StillKnown(box', filter')
    BY <1>1, Frame165Facts, Frame225Facts, Frame2A5Facts, DriveFacts, SoundFacts
       DEF Tuner, Drive, Sound
  <2>2. /\ UNCHANGED <<rd4, wire, rx, mdf, scope, acts>> /\ asleep' = FALSE
        /\ disc' \in BOOLEAN
    <3>1. CASE Frame165 \/ Tuner \/ Sound
      BY <3>1 DEF Frame165, Tuner, Frame225, Frame2A5, Sound, Frame1A5, Frame1E5, Plain,
                  Hears, OuterOK
    <3>2. CASE Drive
      BY <3>2 DEF Drive, Frame325, Frame365, Frame3A5, Frame3A6, Plain, Hears, OuterOK, Rd4
    <3> QED BY <1>1, <3>1, <3>2
  <2> QED BY <2>1, <2>2 DEF OuterOK
<1>2. CASE Settle \/ Resync \/ RepeatMenu \/ Header \/ BeatAudio
  <2>1. StillKnown(box', filter')
    BY <1>2, SettleFacts, SendsFacts
  <2>2. UNCHANGED <<rd4, wire, rx, disc, asleep, mdf, scope, acts>>
    BY <1>2 DEF Settle, Resync, RepeatMenu, Header, BeatAudio, Sends
  <2> QED BY <2>1, <2>2 DEF OuterOK
<1>3. CASE MediaFallsAsleep
  <2>1. box' = box
    <3>1. box \in Box /\ box.radio \in Radio /\ box.radio.source = "off" /\ box.radio.power = 0
      BY <1>3 DEF BoxInv, Box, MediaFallsAsleep
    <3>2. [box.radio EXCEPT !.power = 0, !.source = "off"] = box.radio
      BY <3>1 DEF Radio
    <3>3. box' = [box EXCEPT !.radio = [box.radio EXCEPT !.power = 0, !.source = "off"]]
      BY <1>3, <3>1 DEF MediaFallsAsleep, Box, Radio
    <3> QED BY <3>1, <3>2, <3>3 DEF Box
  <2>2. UNCHANGED <<rd4, wire, rx, disc, filter, mdf, scope, acts>> /\ asleep' = TRUE
    BY <1>3 DEF MediaFallsAsleep
  <2> QED BY <2>1, <2>2 DEF OuterOK, StillKnown, TextsKept
<1>4. CASE Wake
  BY <1>4 DEF Wake, OuterOK, StillKnown, TextsKept
<1> QED BY <1>1, <1>2, <1>3, <1>4

LEMMA AskStepFacts ==
  ASSUME OuterOK, BoxInv(box, filter), Asks
  PROVE  /\ OuterOK' /\ StillKnown(box', filter') /\ mdf' = mdf /\ wire' = wire
         /\ rx' = rx \/ rx' = [k \in Kinds |-> NoContext]
<1>1. StillKnown(box', filter')
  BY AsksFacts
<1>2. /\ Act("hu") /\ UNCHANGED <<rd4, wire, asleep>>
      /\ \/ rx' = rx /\ disc' = disc
         \/ rx' = [k \in Kinds |-> NoContext] /\ disc' = TRUE
  BY DEF Asks, QueryResume, QueryTuner, QueryCd, Handshake, Select, HuAct
<1>3. acts' \in 0 .. MaxActs /\ mdf' = mdf /\ scope' = scope
  BY <1>2, MediaAssumption DEF Act, OuterOK
<1>4. [k \in Kinds |-> NoContext] \in [Kinds -> Context]
  BY DEF NoContext, Context
<1>5. OuterOK'
  BY <1>2, <1>3, <1>4 DEF OuterOK, Context
<1> QED BY <1>1, <1>2, <1>3, <1>5

-----------------------------------------------------------------------------
MediaInv == OuterOK /\ BoxInv(box, filter) /\ TransferInv

LEMMA MediaInitInv == MediaInit => MediaInv
<1> SUFFICES ASSUME MediaInit PROVE MediaInv
  OBVIOUS
<1>1. <<>> \in Seq(Transferred) /\ <<>> \in Seq(Nat) /\ <<>> \in Seq(Radio) /\ <<>> \in Seq(Cdc)
      /\ "off" \in Sources
  BY DEF Sources
<1>2. Radio0 \in Radio
  BY <1>1 DEF Radio0, Radio
<1>3. Cdc0 \in Cdc /\ Audio0 \in Audio
  BY DEF Cdc0, Cdc, Playing, Audio0, Audio
<1>4. [source |-> "off", power |-> 0, freq |-> 0, name |-> 0, presets |-> <<>>, text |-> <<>>,
       play |-> "none", early |-> FALSE, audio |-> Audio0] \in Display
  BY <1>1, <1>3 DEF Display, Playing
<1>5. box \in Box /\ box.radio = Radio0 /\ box.last.radio = Radio0 /\ box.dirty = {}
      /\ box.cached.radio = <<>> /\ box.cached.cdc = <<>> /\ box.hu.play = "none"
      /\ box.audio = Audio0 /\ box.last.audio = Audio0 /\ box.hu.audio = Audio0
  <2> HIDE DEF Radio0, Cdc0, Audio0
  <2> QED BY <1>1, <1>2, <1>3, <1>4 DEF MediaInit, Box
<1>6. Radio0.source = "off" /\ Radio0.list = <<>> /\ Radio0.text = <<>>
  BY DEF Radio0
<1>7. BoxInv(box, filter)
  BY <1>5, <1>6 DEF BoxInv, Honest, Copies, Settled, MediaInit, Filters
<1>8. rd4 \in Rd4
  <2>1. rd4 \in [on : BOOLEAN, source : Installed, mute : {FALSE}, freq : {1}, preset : {TRUE},
                 seek : {FALSE}, vol : {Loud}, knob : {"idle"}, menu : {FALSE},
                 play : {"pause"}, disc : {TRUE}]
    BY DEF MediaInit
  <2>2. /\ rd4.on \in BOOLEAN /\ rd4.source \in Installed /\ rd4.mute = FALSE
        /\ rd4.freq = 1 /\ rd4.preset = TRUE /\ rd4.seek = FALSE
        /\ rd4.vol = Loud /\ rd4.knob = "idle" /\ rd4.menu = FALSE
        /\ rd4.play = "pause" /\ rd4.disc = TRUE
    BY <2>1
  <2>3. rd4 = [on |-> rd4.on, source |-> rd4.source, mute |-> rd4.mute, freq |-> rd4.freq,
               preset |-> rd4.preset, seek |-> rd4.seek, vol |-> rd4.vol, knob |-> rd4.knob,
               menu |-> rd4.menu, play |-> rd4.play, disc |-> rd4.disc]
    BY <2>1
  <2>4. 1 \in 1 .. 2 /\ TRUE \in BOOLEAN /\ FALSE \in BOOLEAN
    OBVIOUS
  <2> QED BY <2>2, <2>3, <2>4 DEF Rd4
<1>9. wire \in [Kinds -> Transfer] /\ rx \in [Kinds -> Context]
      /\ \A k \in Kinds : rx[k].active = FALSE
  BY <1>1, MediaAssumption DEF MediaInit, NoTransfer, NoContext, Transfer, Context
<1>10. OuterOK
  <2>1. disc \in BOOLEAN /\ asleep \in BOOLEAN /\ mdf \in BOOLEAN /\ scope \in Scopes
    BY DEF MediaInit
  <2>2. acts \in 0 .. MaxActs
    BY MediaAssumption DEF MediaInit
  <2> QED BY <1>8, <1>9, <2>1, <2>2 DEF OuterOK, Transfer, Context
<1>11. TransferInv
  BY <1>5, <1>6, <1>9 DEF TransferInv, OfOne, Whole
<1> QED BY <1>7, <1>10, <1>11 DEF MediaInv

LEMMA MediaNextInv == MediaInv /\ [MediaNext]_mediaVars => MediaInv'
<1> SUFFICES ASSUME MediaInv, [MediaNext]_mediaVars PROVE MediaInv'
  OBVIOUS
<1>1. OuterOK /\ BoxInv(box, filter) /\ TransferInv
  BY DEF MediaInv
<1>2. CASE \/ Frame165 \/ Tuner \/ Drive \/ Sound \/ Settle \/ Resync
           \/ RepeatMenu \/ Header \/ BeatAudio \/ MediaFallsAsleep \/ Wake
  <2>1. /\ OuterOK' /\ StillKnown(box', filter')
        /\ mdf' = mdf /\ rx' = rx /\ wire' = wire
    BY <1>1, <1>2, BoxStepFacts
  <2>2. TransferInv'
    BY <1>1, <2>1, OthersKeepTransfers DEF StillKnown
  <2> QED BY <2>1, <2>2 DEF MediaInv, StillKnown
<1>3. CASE \E k \in Kinds : SendPiece(k)
  BY <1>1, <1>3, SendPieceFacts DEF MediaInv
<1>4. CASE Finish
  <2>1. /\ OuterOK' /\ StillKnown(box', filter')
        /\ mdf' = mdf /\ rx' = rx /\ wire' = wire
    BY <1>1, <1>4, FinishFacts
  <2>2. TransferInv'
    BY <1>1, <2>1, OthersKeepTransfers DEF StillKnown
  <2> QED BY <2>1, <2>2 DEF MediaInv, StillKnown
<1>5. CASE Asks
  <2>1. /\ OuterOK' /\ StillKnown(box', filter') /\ mdf' = mdf /\ wire' = wire
        /\ rx' = rx \/ rx' = [k \in Kinds |-> NoContext]
    BY <1>1, <1>5, AskStepFacts
  <2>2. TransferInv'
    <3>1. \A k \in Kinds : rx'[k].active = FALSE \/ (rx'[k] = rx[k] /\ wire'[k] = wire[k])
      BY <2>1 DEF NoContext
    <3> QED BY <1>1, <2>1, <3>1, OthersKeepTransfers DEF StillKnown
  <2> QED BY <2>1, <2>2 DEF MediaInv, StillKnown
<1>6. CASE DismissesList
  BY <1>1, <1>6, DismissesListFacts DEF MediaInv
<1>7. CASE ShortText
  BY <1>1, <1>7, ShortTextFacts DEF MediaInv
<1>8. CASE \E k \in Kinds : Transfers(k) \/ LosesPiece(k)
  BY <1>1, <1>8, TransfersFacts DEF MediaInv
<1>9. CASE \/ PowerKnob \/ Seeks \/ OpensMenu \/ MovesDisc
           \/ \E s \in Installed : StepsSource(s)
           \/ \E f \in 1 .. 2, p \in BOOLEAN : Tunes(f, p)
           \/ \E k \in {"idle", "turning", "muted"}, v \in {0, Loud} : TurnsKnob(k, v)
  <2>1. /\ OuterOK' /\ StillKnown(box', filter') /\ mdf' = mdf /\ rx' = rx
        /\ wire' = wire \/ wire' = [k \in Kinds |-> NoTransfer]
    BY <1>1, <1>9, DriverFacts
  <2>2. TransferInv'
    <3>1. \A k \in Kinds : rx'[k] = rx[k] /\ (wire'[k].sent = 0 \/ wire'[k] = wire[k])
      BY <2>1 DEF NoTransfer
    <3> QED BY <1>1, <2>1, <3>1, OthersKeepTransfers DEF StillKnown
  <2> QED BY <2>1, <2>2 DEF MediaInv, StillKnown
<1>10. CASE UNCHANGED mediaVars
  BY <1>1, <1>10 DEF mediaVars, MediaInv, OuterOK, BoxInv, TransferInv
<1> QED BY <1>2, <1>3, <1>4, <1>5, <1>6, <1>7, <1>8, <1>9, <1>10 DEF MediaNext, Owed, Does

(* Radio, box and head unit keep their types in every behaviour.           *)
THEOREM MediaTypeCorrect == MediaSpec => []MediaTypeOK
<1>1. MediaInv => MediaTypeOK
  BY DEF MediaInv, OuterOK, BoxInv, MediaTypeOK, Filters
<1> QED BY MediaInitInv, MediaNextInv, <1>1, PTL DEF MediaSpec

(* No CD plays on display beside another source, in whatever order frames, *)
(* answers, pushes and switches of the source come.                        *)
THEOREM NoGhostShown == MediaSpec => []NoGhostPlayback
<1>1. MediaInv => NoGhostPlayback
  BY DEF MediaInv, BoxInv, Honest, NoGhostPlayback
<1> QED BY MediaInitInv, MediaNextInv, <1>1, PTL DEF MediaSpec

(* No list or text is pieced together from two transfers, for transfers of *)
(* any length and any number of lost frames.                               *)
THEOREM TransfersAreWhole == MediaSpec => []WholeTransfers
<1>1. MediaInv => WholeTransfers
  BY DEF MediaInv, TransferInv, WholeTransfers
<1> QED BY MediaInitInv, MediaNextInv, <1>1, PTL DEF MediaSpec

-----------------------------------------------------------------------------
(* What a resync makes the head unit show.                                 *)
LEMMA SendMediaShows ==
  ASSUME NEW b \in Box, b.radio.power # 0
  PROVE  LET d == SendMedia(b)
         IN  /\ d.hu.source = b.radio.source /\ d.hu.power = b.radio.power
             /\ Tuned(b.radio) => /\ d.hu.presets = Presets(b.radio)
                                  /\ d.hu.freq = b.radio.freq /\ d.hu.name = b.radio.name
<1> DEFINE c == SendRadio(b, b.radio)
           p == SendPresets(c, b.radio)
           t == SendText(p)
<1>1. c \in Box /\ b.radio \in Radio
      /\ c.hu.source = b.radio.source /\ c.hu.power = b.radio.power
      /\ (Tuned(b.radio) => c.hu.freq = b.radio.freq /\ c.hu.name = b.radio.name)
  <2>1. b.radio \in Radio
    BY DEF Box
  <2> QED BY <2>1, SendRadioType
<1>2. SendMedia(b) = IF Tuned(b.radio) THEN t
                     ELSE IF b.radio.source = "CD" THEN SendCd(c) ELSE c
  BY DEF SendMedia
<1> HIDE DEF c
<1>3. p \in Box /\ p.hu.source = c.hu.source /\ p.hu.power = c.hu.power
      /\ p.hu.freq = c.hu.freq /\ p.hu.name = c.hu.name
      /\ (Tuned(b.radio) => p.hu.presets = Presets(b.radio))
  <2>1. p \in Box
    BY <1>1, SendPresetsType
  <2> QED BY <1>1, <2>1 DEF SendPresets, Box, Display
<1> HIDE DEF p
<1>4. t.hu.source = p.hu.source /\ t.hu.power = p.hu.power /\ t.hu.presets = p.hu.presets
      /\ t.hu.freq = p.hu.freq /\ t.hu.name = p.hu.name
  BY <1>3 DEF SendText, Box, Display
<1>5. SendCd(c).hu.source = c.hu.source /\ SendCd(c).hu.power = c.hu.power
  BY <1>1, SendCdType
<1> QED BY <1>1, <1>2, <1>3, <1>4, <1>5

LEMMA RestIsTruthful ==
  ASSUME OuterOK, BoxInv(box, filter), Calm, AtRest
  PROVE  Truthful
<1>1. /\ box \in Box /\ filter = "open" /\ filter \in Filters
      /\ box.radio.source = rd4.source /\ box.radio.power = 1
      /\ rd4.on /\ rd4.seek = FALSE /\ rd4.knob # "turning"
  BY DEF Calm, BoxInv, OuterOK, Rd4
(* The resync has nothing to tell.                                         *)
<1>2. /\ box.hu.source = rd4.source /\ box.hu.power = 1
      /\ rd4.source = "tuner" => /\ box.hu.presets = Presets(box.radio)
                                 /\ box.hu.freq = box.radio.freq
                                 /\ box.hu.name = box.radio.name
  <2> DEFINE b == IF box.audio.mode = 0 THEN SendAudio(box) ELSE box
  <2>1. b \in Box /\ b.radio = box.radio
    BY <1>1, SendAudioType
  <2>2. box = IF filter = "open" /\ b.radio.power # 0 THEN SendMedia(b) ELSE b
    BY DEF AtRest, Resynced
  <2> HIDE DEF b
  <2>3. box = SendMedia(b)
    BY <1>1, <2>1, <2>2
  <2> QED BY <1>1, <2>1, <2>3, SendMediaShows DEF Tuned
(* Nor have the frames of the station.                                     *)
<1>3. ASSUME "station" \in scope, rd4.source = "tuner"
      PROVE  box.radio.freq = rd4.freq /\ box.radio.name = rd4.freq
  <2>1. Unmoved(Decoded225) /\ Unmoved(Decoded2A5)
    BY <1>3 DEF AtRest
  <2> QED BY <1>1, <2>1, Decoded225Facts, Decoded2A5Facts, ReadyFacts
(* Nor those of the volume and the tone settings.                          *)
<1>4. ASSUME "sound" \in scope
      PROVE  /\ box.hu.audio.vol = rd4.vol /\ box.hu.audio.muted = (rd4.knob = "muted")
             /\ box.hu.audio.mode = 0 \/ box.hu.audio.muted \/ rd4.menu
  <2>1. Unmoved(Decoded1A5) /\ Unmoved(Decoded1E5)
    BY <1>4 DEF AtRest
  <2>2. Heard1A5[1] = rd4.knob /\ Heard1A5[2] = rd4.vol
    BY <1>1 DEF Heard1A5
  <2>3. ~Idle(box.radio)
    BY <1>1 DEF Idle
  <2>4. box.audio = Turned
    BY <1>1, <2>1, <2>2, Decoded1A5Facts, ReadyFacts
  <2>5. box.audio.mode = MenuMode(box.audio.mode)
    BY <1>1, <2>1, <2>3, Decoded1E5Facts, ReadyFacts
  <2>6. /\ box.audio.valid /\ box.audio.vol = rd4.vol
        /\ box.audio.muted = (rd4.knob = "muted")
        /\ box.audio.mode = VolumeMode(rd4.knob, box.audio.mode)
    BY <2>2, <2>4 DEF Turned
  <2>7. box.hu.audio = box.audio
    BY <2>6 DEF BoxInv, Honest
  <2>8. box.audio.mode = 0 \/ rd4.knob = "muted" \/ rd4.menu
    <3>1. box.audio.mode \in 0 .. 2 /\ rd4.knob \in {"idle", "turning", "muted"}
      BY <1>1 DEF Box, Audio, OuterOK, Rd4
    <3> QED BY <1>1, <2>5, <2>6, <3>1 DEF MenuMode, VolumeMode
  <2> QED BY <2>6, <2>7, <2>8
<1> QED BY <1>2, <1>3, <1>4 DEF Truthful

(* At rest the head unit shows what the radio does, whatever was held back *)
(* by the filter, not believed, or overtaken on the way there.             *)
THEOREM TruthfulWhenAtRest == MediaSpec => []TruthfulAtRest
<1>1. MediaInv => TruthfulAtRest
  BY RestIsTruthful DEF MediaInv, TruthfulAtRest
<1> QED BY MediaInitInv, MediaNextInv, <1>1, PTL DEF MediaSpec

(***************************************************************************)
(* The heartbeat of the Hiworld link.                                      *)
(***************************************************************************)
USE LinkAssumption, PunctualAssumption

(* The quarters the last c heartbeats were answered with, the next being   *)
(* rr.                                                                     *)
Recent(rr, c) ==
  {q \in 0 .. 3 : \/ rr > q /\ rr - q <= c
                  \/ rr <= q /\ rr + 4 - q <= c}

(* The last answers without a loss between them still hold.                *)
RecentFresh ==
  /\ ~hu.up => clean = 0
  /\ \A q \in Recent(link.rr, clean) : stale \cap TopicsOf(q) = {}

(* With no fault since the last answer the link knows the head unit, and   *)
(* counts its silence no longer than the head unit does.                   *)
InTouch ==
  hu.up /\ ~excuse => /\ link.active /\ link.model = hu.want
                      /\ link.silence <= hu.beat

-----------------------------------------------------------------------------
(* What is pushed is known, so no push makes an unknown topic stale.       *)
LEMMA PushType ==
  ASSUME TypeOK, NEW sent, sent \subseteq Known', Known \subseteq Known',
         NEW lost \in Losses(sent), Push(sent, lost)
  PROVE  /\ stale' \subseteq Known'
         /\ faults' \in 0 .. MaxFaults
<1>1. lost \subseteq sent  BY DEF Losses
<1>2. stale' \subseteq Known'  BY <1>1 DEF Push, Displayed, TypeOK
<1>3. lost # {} => faults < MaxFaults  BY DEF Losses
<1>4. faults' \in 0 .. MaxFaults  BY <1>3 DEF Push, TypeOK
<1> QED  BY <1>2, <1>4

LEMMA CountedType ==
  ASSUME clean \in 0 .. 4, NEW lost, Counted(lost)
  PROVE  clean' \in 0 .. 4 /\ excuse' = FALSE
<1>1. clean' = IF lost # {} THEN 0 ELSE IF clean < 4 THEN clean + 1 ELSE 4
  BY DEF Counted
<1>2. clean' \in 0 .. 4  BY <1>1
<1> QED  BY <1>2 DEF Counted

(* Every value stays in its range (of the integers of the code: the        *)
(* rotation in two bits, the timers below their periods), and only what    *)
(* the router knows can be stale.                                          *)
THEOREM TypeCorrect == Spec => []TypeOK
<1>1. Init => TypeOK
  <2> SUFFICES ASSUME Init PROVE TypeOK  OBVIOUS
  <2>0. BeatUnits \in 0 .. LateUnits  OBVIOUS
  <2>1. hu \in [up : BOOLEAN, beat : 0 .. LateUnits, want : Models]
    BY <2>0 DEF Init
  <2>2. car \in [heard : SUBSET Unheard, open : BOOLEAN, audio : AudioModes, asleep : BOOLEAN]
    BY DEF Init, AudioModes
  <2>3. stale \subseteq Known  BY DEF Init, Known
  <2> QED  BY <2>1, <2>2, <2>3 DEF Init, TypeOK
<1>2. TypeOK /\ [Next]_vars => TypeOK'
  <2> SUFFICES ASSUME TypeOK, [Next]_vars PROVE TypeOK'  OBVIOUS
  <2>1. CASE Announce
    <3>0. /\ car' = car /\ Known' = Known
          /\ hu' \in [up : BOOLEAN, beat : 0 .. LateUnits, want : Models]
      BY <2>1 DEF Announce, AnswerReboot, AnswerSteady, linkVars, Known, TypeOK
    <3>1. CASE AnswerReboot(hu.want)
      <4>1. PICK lost \in Losses(FullPush) : Push(FullPush, lost) /\ Counted(lost)
        BY <3>1 DEF AnswerReboot
      <4>2. stale' \subseteq Known' /\ faults' \in 0 .. MaxFaults
        BY <3>0, <4>1, PushType DEF FullPush
      <4>3. clean' \in 0 .. 4 /\ excuse' \in BOOLEAN  BY <4>1, CountedType DEF TypeOK
      <4>4. /\ link' \in [active : BOOLEAN, model : Models \cup {NoModel},
                         silence : 0 .. GapUnits + 1, rr : 0 .. 3]
            /\ timer' \in [resync : 0 .. ResyncUnits - 1, tpms : 0 .. TpmsUnits - 1]
        BY <3>1 DEF AnswerReboot, TypeOK
      <4> QED  BY <3>0, <4>2, <4>3, <4>4 DEF TypeOK
    <3>2. CASE AnswerSteady(hu.want)
      <4>1. PICK lost \in Losses(Quarter(link.rr)) : Push(Quarter(link.rr), lost) /\ Counted(lost)
        BY <3>2 DEF AnswerSteady
      <4>2. stale' \subseteq Known' /\ faults' \in 0 .. MaxFaults
        BY <3>0, <4>1, PushType DEF Quarter
      <4>3. clean' \in 0 .. 4 /\ excuse' \in BOOLEAN  BY <4>1, CountedType DEF TypeOK
      <4>4. link' \in [active : BOOLEAN, model : Models \cup {NoModel},
                       silence : 0 .. GapUnits + 1, rr : 0 .. 3]
        <5>1. NextQuarter(link.rr) \in 0 .. 3  BY DEF NextQuarter, TypeOK
        <5>2. link' = [link EXCEPT !.silence = 0, !.rr = NextQuarter(link.rr)]
          BY <3>2 DEF AnswerSteady
        <5>3. link' = [active |-> link.active, model |-> link.model,
                       silence |-> 0, rr |-> NextQuarter(link.rr)]
          BY <5>2 DEF TypeOK
        <5>4. link.active \in BOOLEAN /\ link.model \in Models \cup {NoModel}
          BY DEF TypeOK
        <5>5. 0 \in 0 .. GapUnits + 1  OBVIOUS
        <5> QED  BY <5>1, <5>3, <5>4, <5>5
      <4>5. timer' = timer  BY <3>2 DEF AnswerSteady
      <4> QED  BY <3>0, <4>2, <4>3, <4>4, <4>5 DEF TypeOK
    <3>3. CASE /\ faults < MaxFaults
               /\ faults' = faults + 1
               /\ excuse' = TRUE
               /\ UNCHANGED <<linkVars, stale, clean>>
      BY <2>1, <3>0, <3>3 DEF Announce, linkVars, TypeOK
    <3> QED  BY <2>1, <3>1, <3>2, <3>3 DEF Announce
  <2>2. CASE Tick
    <3>0. car' = car /\ Known' = Known /\ excuse' = excuse  BY <2>2 DEF Tick, Known
    <3>1. link' \in [active : BOOLEAN, model : Models \cup {NoModel},
                     silence : 0 .. GapUnits + 1, rr : 0 .. 3]
      BY <2>2 DEF Tick, TypeOK
    <3>2. hu' \in [up : BOOLEAN, beat : 0 .. LateUnits, want : Models]
      BY <2>2 DEF Tick, TypeOK
    <3>3. CASE car.asleep
      BY <2>2, <3>0, <3>1, <3>2, <3>3 DEF Tick, TypeOK
    <3>4. CASE ~car.asleep
      <4>1. PICK lost \in Losses(Repeats) :
              Push(Repeats, lost) /\ clean' = IF lost # {} THEN 0 ELSE clean
        BY <2>2, <3>4 DEF Tick
      <4>2. stale' \subseteq Known' /\ faults' \in 0 .. MaxFaults
        BY <3>0, <4>1, PushType DEF Repeats
      <4>3. timer' \in [resync : 0 .. ResyncUnits - 1, tpms : 0 .. TpmsUnits - 1]
        BY <2>2, <3>4 DEF Tick, TypeOK
      <4>4. clean' \in 0 .. 4  BY <4>1 DEF TypeOK
      <4> QED  BY <3>0, <3>1, <3>2, <4>2, <4>3, <4>4 DEF TypeOK
    <3> QED  BY <3>3, <3>4
  <2>3. CASE FallAsleep
    <3>1. /\ car' \in [heard : SUBSET Unheard, open : BOOLEAN, audio : AudioModes, asleep : BOOLEAN]
          /\ hu' \in [up : BOOLEAN, beat : 0 .. LateUnits, want : Models]
          /\ Known' = Known
      BY <2>3 DEF FallAsleep, TypeOK, Known
    <3>2. stale' \subseteq Known'  BY <2>3, <3>1 DEF FallAsleep, TypeOK
    <3> QED  BY <2>3, <3>1, <3>2 DEF FallAsleep, TypeOK
  <2>4. CASE BoxRestarts
    BY <2>4 DEF BoxRestarts, TypeOK, Known, Topics, Unheard, AudioModes, NoModel
  <2>5. CASE CanWakes
    BY <2>5 DEF CanWakes, TypeOK, Known
  <2>6. ASSUME NEW t \in Topics \ {"discovery"}, CanChange(t) PROVE TypeOK'
    <3>1. car' \in [heard : SUBSET Unheard, open : BOOLEAN, audio : AudioModes, asleep : BOOLEAN]
      BY <2>6 DEF CanChange, TypeOK
    <3>2. car'.heard = car.heard \cup ({t} \cap Unheard)  BY <2>6 DEF CanChange
    <3>3. {t} \subseteq Known' /\ Known \subseteq Known'  BY <3>2 DEF Known
    <3>4. PICK lost \in Losses({t}) :
            Push({t}, lost) /\ clean' = IF lost # {} THEN 0 ELSE clean
      BY <2>6 DEF CanChange
    <3>5. stale' \subseteq Known' /\ faults' \in 0 .. MaxFaults
      BY <3>3, <3>4, PushType
    <3>6. clean' \in 0 .. 4  BY <3>4 DEF TypeOK
    <3> QED  BY <2>6, <3>1, <3>5, <3>6 DEF CanChange, TypeOK
  <2>7. CASE HuStops
    <3>1. hu' = [hu EXCEPT !.up = FALSE] /\ faults' \in 0 .. MaxFaults
      BY <2>7 DEF HuStops, TypeOK
    <3>3. hu' \in [up : BOOLEAN, beat : 0 .. LateUnits, want : Models]
      BY <3>1 DEF TypeOK
    <3>2. stale' \subseteq Known'  BY <2>7 DEF HuStops, TypeOK, Known, linkVars
    <3> QED  BY <2>7, <3>1, <3>2, <3>3 DEF HuStops, linkVars, TypeOK
  <2>8. CASE HuBoots
    <3>0. BeatUnits \in 0 .. LateUnits  OBVIOUS
    <3>1. hu' \in [up : BOOLEAN, beat : 0 .. LateUnits, want : Models]
      BY <2>8, <3>0 DEF HuBoots, TypeOK
    <3>2. stale' \subseteq Known'  BY <2>8 DEF HuBoots, TypeOK, Known, linkVars
    <3> QED  BY <2>8, <3>1, <3>2 DEF HuBoots, linkVars, TypeOK
  <2>9. ASSUME NEW m \in Models, HuSelects(m) PROVE TypeOK'
    BY <2>9 DEF HuSelects, TypeOK, Known, linkVars
  <2>10. CASE UNCHANGED vars
    BY <2>10 DEF vars, linkVars, TypeOK, Known
  <2> QED  BY <2>1, <2>2, <2>3, <2>4, <2>5, <2>6, <2>7, <2>8, <2>9, <2>10 DEF Next
<1> QED  BY <1>1, <1>2, PTL DEF Spec

-----------------------------------------------------------------------------
(* In touch with the head unit, the link takes nothing for a reboot.       *)
InTouchAtWork ==
  /\ ~hu.up => excuse
  /\ InTouch

(* A punctual head unit that keeps its model and whose announcements       *)
(* arrive is never taken for rebooted (the answer to command 0x24).        *)
THEOREM BurstsHaveReasons == Spec => []BurstHasReason
<1>1. Init => InTouchAtWork  BY DEF Init, InTouchAtWork, InTouch
<1>2. TypeOK /\ InTouchAtWork /\ [Next]_vars => InTouchAtWork'
  <2> SUFFICES ASSUME TypeOK, InTouchAtWork, [Next]_vars PROVE InTouchAtWork'  OBVIOUS
  <2> USE DEF InTouchAtWork, InTouch
  <2>1. CASE Announce
    <3>1. hu' = [hu EXCEPT !.beat = 0] /\ hu.up  BY <2>1 DEF Announce
    <3>2. hu'.up /\ hu'.beat = 0 /\ hu'.want = hu.want  BY <3>1 DEF TypeOK
    <3>3. CASE AnswerReboot(hu.want)
      BY <3>2, <3>3 DEF AnswerReboot
    <3>4. CASE AnswerSteady(hu.want)
      <4>1. link' = [link EXCEPT !.silence = 0, !.rr = NextQuarter(link.rr)]
        BY <3>4 DEF AnswerSteady
      <4>2. link.active /\ link.model = hu.want
        BY <3>4 DEF AnswerSteady, RebootAssumed
      <4>3. link'.active /\ link'.model = hu.want /\ link'.silence = 0
        BY <4>1, <4>2 DEF TypeOK
      <4> QED  BY <3>2, <4>3
    <3>5. CASE excuse' = TRUE
      BY <3>5
    <3> QED  BY <2>1, <3>3, <3>4, <3>5 DEF Announce
  <2>2. CASE Tick
    <3>1. excuse' = excuse  BY <2>2 DEF Tick
    <3>2. hu' = [hu EXCEPT !.beat = IF @ < LateUnits THEN @ + 1 ELSE @]  BY <2>2 DEF Tick
    <3>3. hu'.up = hu.up /\ hu'.want = hu.want  BY <3>2 DEF TypeOK
    <3>4. PICK aged \in BOOLEAN :
            link' = [link EXCEPT !.silence = IF aged /\ @ <= GapUnits THEN @ + 1 ELSE @]
      BY <2>2 DEF Tick
    <3>5. link'.active = link.active /\ link'.model = link.model
      BY <3>4 DEF TypeOK
    <3>6. link'.silence <= link.silence + 1
      BY <3>4 DEF TypeOK
    <3>7. hu.up => hu'.beat = hu.beat + 1
      BY <2>2, <3>2 DEF Tick, TypeOK
    <3>8. hu.up /\ ~excuse => link'.silence <= hu'.beat
      <4>1. link.silence \in Nat /\ hu.beat \in Nat /\ link'.silence \in Nat
        BY <3>4 DEF TypeOK
      <4> QED  BY <3>6, <3>7, <4>1
    <3> QED  BY <3>1, <3>3, <3>5, <3>8
  <2>3. CASE FallAsleep
    BY <2>3 DEF FallAsleep
  <2>4. CASE BoxRestarts
    BY <2>4 DEF BoxRestarts
  <2>5. CASE CanWakes
    BY <2>5 DEF CanWakes
  <2>6. ASSUME NEW t \in Topics \ {"discovery"}, CanChange(t) PROVE InTouchAtWork'
    BY <2>6 DEF CanChange
  <2>7. CASE HuStops
    BY <2>7 DEF HuStops
  <2>8. CASE HuBoots
    BY <2>8 DEF HuBoots
  <2>9. ASSUME NEW m \in Models, HuSelects(m) PROVE InTouchAtWork'
    BY <2>9 DEF HuSelects
  <2>10. CASE UNCHANGED vars
    BY <2>10 DEF vars, linkVars
  <2> QED  BY <2>1, <2>2, <2>3, <2>4, <2>5, <2>6, <2>7, <2>8, <2>9, <2>10 DEF Next
<1>3. TypeOK /\ InTouchAtWork => BurstHasReason
  <2> SUFFICES ASSUME TypeOK, InTouchAtWork, hu.up, ~excuse PROVE ~RebootAssumed(hu.want)
    BY DEF BurstHasReason
  <2>1. link.active /\ link.model = hu.want /\ link.silence <= hu.beat
    BY DEF InTouchAtWork, InTouch
  <2>2. link.silence \in Nat /\ hu.beat \in Nat /\ hu.beat <= LateUnits  BY DEF TypeOK
  <2>3. ~(link.silence > GapUnits)  BY <2>1, <2>2
  <2> QED  BY <2>1, <2>3 DEF RebootAssumed
<1> QED  BY <1>1, <1>2, <1>3, TypeCorrect, PTL DEF Spec

-----------------------------------------------------------------------------
LEMMA NothingRecent == ASSUME NEW rr \in 0 .. 3 PROVE Recent(rr, 0) = {}
  BY DEF Recent

(* The next answer adds the quarter it sends to the recent ones.           *)
LEMMA Rotation ==
  ASSUME NEW rr \in 0 .. 3, NEW c \in 0 .. 4,
         NEW d \in 0 .. 4, d <= c + 1
  PROVE  Recent(NextQuarter(rr), d) \subseteq Recent(rr, c) \cup {rr}
<1>1. CASE rr = 0
  <2>1. NextQuarter(rr) = 1  BY <1>1 DEF NextQuarter
  <2> QED  BY <1>1, <2>1 DEF Recent
<1>2. CASE rr = 1
  <2>1. NextQuarter(rr) = 2  BY <1>2 DEF NextQuarter
  <2> QED  BY <1>2, <2>1 DEF Recent
<1>3. CASE rr = 2
  <2>1. NextQuarter(rr) = 3  BY <1>3 DEF NextQuarter
  <2> QED  BY <1>3, <2>1 DEF Recent
<1>4. CASE rr = 3
  <2>1. NextQuarter(rr) = 0  BY <1>4 DEF NextQuarter
  <2> QED  BY <1>4, <2>1 DEF Recent
<1> QED  BY <1>1, <1>2, <1>3, <1>4

(* A step that makes nothing stale, or starts counting anew.               *)
LEMMA Undisturbed ==
  ASSUME TypeOK, TypeOK', RecentFresh,
         \/ clean' = 0
         \/ /\ clean' = clean /\ link'.rr = link.rr
            /\ stale' \subseteq stale
            /\ hu'.up = hu.up
  PROVE  RecentFresh'
<1>1. CASE clean' = 0
  <2>1. Recent(link'.rr, clean') = {}  BY <1>1, NothingRecent DEF TypeOK
  <2> QED  BY <1>1, <2>1 DEF RecentFresh
<1>2. CASE /\ clean' = clean /\ link'.rr = link.rr
           /\ stale' \subseteq stale
           /\ hu'.up = hu.up
  <2>1. Recent(link'.rr, clean') = Recent(link.rr, clean)  BY <1>2
  <2>2. ASSUME NEW q \in Recent(link.rr, clean) PROVE stale' \cap TopicsOf(q) = {}
    BY <1>2, <2>2 DEF RecentFresh
  <2> QED  BY <1>2, <2>1, <2>2 DEF RecentFresh
<1> QED  BY <1>1, <1>2

(* A push to a head unit that listens, of which nothing is lost.           *)
LEMMA Received ==
  ASSUME NEW sent, Push(sent, {}), hu.up
  PROVE  stale' = stale \ sent
  BY DEF Push, Displayed

(* All that is ever stale of the rotation is in the full push.             *)
LEMMA FullPushHeals ==
  ASSUME TypeOK, hu.up, Push(FullPush, {})
  PROVE  stale' \cap Rotated = {}
  BY Received DEF FullPush, Rotated, TypeOK

LEMMA TopicsRotated ==
  ASSUME NEW q \in 0 .. 3
  PROVE  TopicsOf(q) \subseteq Rotated
  BY DEF TopicsOf, Rotated

THEOREM RotationHeals == Spec => []RecentFresh
<1>1. Init => RecentFresh
  <2> SUFFICES ASSUME Init PROVE RecentFresh  OBVIOUS
  <2>1. Recent(0, 0) = {}  BY NothingRecent
  <2> QED  BY <2>1 DEF Init, RecentFresh
<1>2. TypeOK /\ TypeOK' /\ RecentFresh /\ [Next]_vars => RecentFresh'
  <2> SUFFICES ASSUME TypeOK, TypeOK', RecentFresh, [Next]_vars PROVE RecentFresh'  OBVIOUS
  <2>1. CASE Announce
    <3>1. hu.up /\ hu'.up = hu.up  BY <2>1 DEF Announce, TypeOK
    <3>2. CASE AnswerReboot(hu.want)
      <4>1. PICK lost \in Losses(FullPush) : Push(FullPush, lost) /\ Counted(lost)
        BY <3>2 DEF AnswerReboot
      <4>2. CASE lost = {}
        <5>1. stale' \cap Rotated = {}  BY <3>1, <4>1, <4>2, FullPushHeals
        <5>2. \A q \in 0 .. 3 : stale' \cap TopicsOf(q) = {}  BY <5>1, TopicsRotated
        <5> QED  BY <3>1, <5>2 DEF RecentFresh, Recent
      <4>3. CASE lost # {}
        BY <4>1, <4>3, Undisturbed DEF Counted
      <4> QED  BY <4>2, <4>3
    <3>3. CASE AnswerSteady(hu.want)
      <4>1. PICK lost \in Losses(Quarter(link.rr)) : Push(Quarter(link.rr), lost) /\ Counted(lost)
        BY <3>3 DEF AnswerSteady
      <4>2. CASE lost = {}
        <5>0. link.rr \in 0 .. 3 /\ clean \in 0 .. 4 /\ clean' \in 0 .. 4  BY DEF TypeOK
        <5>1. stale' = stale \ Quarter(link.rr)  BY <3>1, <4>1, <4>2, Received
        <5>2. Quarter(link.rr) = Known \cap TopicsOf(link.rr)
          BY <5>0 DEF Quarter, TopicsOf
        <5>3. stale' \cap TopicsOf(link.rr) = {}  BY <5>1, <5>2 DEF TypeOK
        <5>4. clean' <= clean + 1  BY <4>1, <4>2, <5>0 DEF Counted
        <5>5. link'.rr = NextQuarter(link.rr)  BY <3>3 DEF AnswerSteady, TypeOK
        <5>6. Recent(link'.rr, clean') \subseteq Recent(link.rr, clean) \cup {link.rr}
          BY <5>0, <5>4, <5>5, Rotation
        <5>7. \A q \in Recent(link.rr, clean) : stale' \cap TopicsOf(q) = {}
          BY <5>1 DEF RecentFresh
        <5> QED  BY <3>1, <5>3, <5>6, <5>7 DEF RecentFresh
      <4>3. CASE lost # {}
        BY <4>1, <4>3, Undisturbed DEF Counted
      <4> QED  BY <4>2, <4>3
    <3>4. CASE UNCHANGED <<linkVars, stale, clean>>
      BY <3>1, <3>4, Undisturbed DEF linkVars
    <3> QED  BY <2>1, <3>2, <3>3, <3>4 DEF Announce
  <2>2. CASE Tick
    <3>1. hu'.up = hu.up /\ link'.rr = link.rr  BY <2>2 DEF Tick, TypeOK
    <3>2. CASE car.asleep
      BY <2>2, <3>1, <3>2, Undisturbed DEF Tick
    <3>3. CASE ~car.asleep
      <4>1. PICK lost \in Losses(Repeats) :
              Push(Repeats, lost) /\ clean' = IF lost # {} THEN 0 ELSE clean
        BY <2>2, <3>3 DEF Tick
      <4>2. CASE lost # {}  BY <4>1, <4>2, Undisturbed
      <4>3. CASE lost = {} /\ hu.up
        <5>1. stale' \subseteq stale /\ clean' = clean  BY <4>1, <4>3, Received
        <5> QED  BY <3>1, <5>1, Undisturbed
      <4>4. CASE lost = {} /\ ~hu.up
        BY <4>1, <4>4, Undisturbed DEF RecentFresh
      <4> QED  BY <4>2, <4>3, <4>4
    <3> QED  BY <3>2, <3>3
  <2>3. CASE FallAsleep
    BY <2>3, Undisturbed DEF FallAsleep
  <2>4. CASE BoxRestarts
    BY <2>4, Undisturbed DEF BoxRestarts
  <2>5. CASE CanWakes
    BY <2>5, Undisturbed DEF CanWakes
  <2>6. ASSUME NEW t \in Topics \ {"discovery"}, CanChange(t) PROVE RecentFresh'
    <3>1. PICK lost \in Losses({t}) :
            Push({t}, lost) /\ clean' = IF lost # {} THEN 0 ELSE clean
      BY <2>6 DEF CanChange
    <3>2. link' = link /\ hu' = hu  BY <2>6 DEF CanChange
    <3>3. CASE lost # {}  BY <3>1, <3>3, Undisturbed
    <3>4. CASE lost = {} /\ hu.up
      <4>1. stale' \subseteq stale /\ clean' = clean  BY <3>1, <3>4, Received
      <4> QED  BY <3>2, <4>1, Undisturbed
    <3>5. CASE lost = {} /\ ~hu.up
      BY <3>1, <3>5, Undisturbed DEF RecentFresh
    <3> QED  BY <3>3, <3>4, <3>5
  <2>7. CASE HuStops
    BY <2>7, Undisturbed DEF HuStops
  <2>8. CASE HuBoots
    BY <2>8, Undisturbed DEF HuBoots, RecentFresh
  <2>9. ASSUME NEW m \in Models, HuSelects(m) PROVE RecentFresh'
    <3>1. hu'.up = hu.up  BY <2>9 DEF HuSelects, TypeOK
    <3> QED  BY <2>9, <3>1, Undisturbed DEF HuSelects, linkVars
  <2>10. CASE UNCHANGED vars
    BY <2>10, Undisturbed DEF vars, linkVars
  <2> QED  BY <2>1, <2>2, <2>3, <2>4, <2>5, <2>6, <2>7, <2>8, <2>9, <2>10 DEF Next
<1> QED  BY <1>1, <1>2, TypeCorrect, PTL DEF Spec

(* After four answers without a fault nothing of the rotation is stale.    *)
THEOREM FourBeatsSuffice == Spec => []FourBeatsHeal
<1>1. TypeOK /\ RecentFresh => FourBeatsHeal
  <2> SUFFICES ASSUME TypeOK, RecentFresh, clean = 4 PROVE stale \cap Rotated = {}
    BY DEF FourBeatsHeal
  <2>1. \A q \in 0 .. 3 : q \in Recent(link.rr, clean)  BY DEF Recent, TypeOK
  <2>2. \A q \in 0 .. 3 : stale \cap TopicsOf(q) = {}  BY <2>1 DEF RecentFresh
  <2>3. /\ stale \cap TopicsOf(0) = {} /\ stale \cap TopicsOf(1) = {}
        /\ stale \cap TopicsOf(2) = {}
    BY <2>2
  <2>4. Rotated = TopicsOf(0) \cup TopicsOf(1) \cup TopicsOf(2)  BY DEF Rotated, TopicsOf, Topics
  <2> QED  BY <2>3, <2>4
<1> QED  BY <1>1, TypeCorrect, RotationHeals, PTL

(* The answer to a head unit taken for rebooted heals the whole rotation   *)
(* at once, unless some of it is lost.                                     *)
THEOREM RebootsHeal == Spec => RebootHeals
<1>1. TypeOK /\ [Next]_vars =>
        [ RebootAssumed(hu.want) /\ link'.active /\ link'.silence = 0 /\ faults' = faults
            => stale' \cap Rotated = {} ]_link
  <2> SUFFICES ASSUME TypeOK, [Next]_vars, link' # link, RebootAssumed(hu.want),
                      link'.active, link'.silence = 0, faults' = faults
               PROVE  stale' \cap Rotated = {}
    OBVIOUS
  <2>0. faults # faults + 1  BY DEF TypeOK
  <2>1. CASE Announce
    <3>1. AnswerReboot(hu.want) /\ hu.up
      BY <2>0, <2>1 DEF Announce, AnswerSteady
    <3>2. PICK lost \in Losses(FullPush) : Push(FullPush, lost)  BY <3>1 DEF AnswerReboot
    <3>3. lost = {}  BY <2>0, <3>2 DEF Push
    <3> QED  BY <3>1, <3>2, <3>3, FullPushHeals
  <2>2. CASE Tick
    <3>1. PICK aged \in BOOLEAN :
            link' = [link EXCEPT !.silence = IF aged /\ @ <= GapUnits THEN @ + 1 ELSE @]
      BY <2>2 DEF Tick
    <3>2. link.silence \in Nat  BY DEF TypeOK
    <3>3. link'.silence # 0 \/ link' = link  BY <3>1, <3>2 DEF TypeOK
    <3> QED  BY <3>3
  <2>3. CASE BoxRestarts
    BY <2>3 DEF BoxRestarts
  <2>4. CASE link' = link
    BY <2>4
  <2>5. ASSUME NEW t \in Topics \ {"discovery"}, CanChange(t) PROVE link' = link
    BY <2>5 DEF CanChange
  <2>6. ASSUME NEW m \in Models, HuSelects(m) PROVE link' = link
    BY <2>6 DEF HuSelects, linkVars
  <2> QED
    BY <2>1, <2>2, <2>3, <2>4, <2>5, <2>6
    DEF Next, FallAsleep, CanWakes, HuStops, HuBoots, linkVars, vars
<1> QED  BY <1>1, TypeCorrect, PTL DEF Spec, RebootHeals
=============================================================================
