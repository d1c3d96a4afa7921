----------------------------- MODULE CarConfig -----------------------------
(***************************************************************************)
(* The car's settings between head unit and body computer (BSI).  The box  *)
(* keeps the BSI's status frame 0x260 in a cache, writes a setting of the  *)
(* head unit into that cache and sends all of it to the BSI as request     *)
(* 0x15B (psa_407_car_config.c).  What the head unit displays is decoded   *)
(* from the cache.  With the car's own display (MDF) on the bus every      *)
(* 0x260 overwrites the cache, without it only the first one.              *)
(*                                                                         *)
(* While the bus sleeps every setting is refused before it touches any of  *)
(* this, and no frame arrives: sleep is a stutter here.                    *)
(***************************************************************************)
EXTENDS Naturals

CONSTANTS Settings,   \* the settings that are a bit of their own in the frame
          MdfUnits,   \* an MDF unheard for so long is absent (3 s)
          MaxActs     \* bound: settings, profile choices, handshakes

ASSUME ConfigAssumption == MdfUnits \in Nat \ {0} /\ MaxActs \in Nat

(* The low half of byte 2 as the set of its bits; two settings share it.   *)
Bits == {1, 2, 4, 8}
Profiles == {1, 2}       \* 1 is the user's; the box looks at no other one
Status == [id : Profiles, on : SUBSET Settings, follow : BOOLEAN, nibble : SUBSET Bits]
Decoded == [on : SUBSET Settings, delay : {0, 15, 30, 60}]

VARIABLES cache,      \* s_cached_profile1_raw
          valid,      \* s_cached_profile1_valid
          cfg,        \* s_current_state.config, always sent on at once
          mdf,        \* time since 0x525, at most MdfUnits: absent
          bsi,        \* the BSI's settings
          plugged,    \* the car has an MDF
          chosen,     \* what the user chose last, per setting
          session,    \* the settings chosen since the handshake or an MDF's frame
          refused,    \* the last request could not be sent
          acts

box == <<cache, valid, cfg, mdf>>
ghosts == <<chosen, session, refused>>
vars == <<box, bsi, plugged, ghosts, acts>>

Factory(on) == [id |-> 1, on |-> on, follow |-> TRUE, nibble |-> {1}]

(* psa_car_config_init *)
DefaultCache == Factory({})

Init ==
  /\ cache = DefaultCache /\ valid = FALSE
  /\ cfg = [on |-> {}, delay |-> 0]
  /\ mdf = MdfUnits
  /\ bsi \in {Factory({}), Factory(Settings)}
  /\ plugged \in BOOLEAN
  /\ chosen = [s \in Settings |-> "none"] /\ session = {} /\ refused = FALSE
  /\ acts = 0

-----------------------------------------------------------------------------
(* delay_code_to_sec *)
DelaySec(n) ==
  IF 4 \in n \/ {1, 2} \subseteq n THEN 60 ELSE IF 2 \in n THEN 30 ELSE 15

(* psa_decode_config_0x260: nothing is taken from another profile.         *)
Decode(c, old) ==
  IF c.id # 1 THEN old
  ELSE [on |-> c.on, delay |-> IF c.follow THEN DelaySec(c.nibble) ELSE 0]

MdfPresent == mdf < MdfUnits

(* Mutant: the cached status is taken for good with an MDF present too.    *)
AdoptsFirstOnly == ~valid
Adopts == MdfPresent \/ ~valid

(* 0x260: psa_car_config_update_from_bsi, then psa_car_config_get_cached.  *)
(* Mutant: the displayed configuration is not derived again.               *)
TakeStatusOnly(c) ==
  /\ IF c.id = 1 THEN cache' = c /\ valid' = TRUE ELSE UNCHANGED <<cache, valid>>
  /\ UNCHANGED cfg

TakeStatus(c) ==
  /\ IF c.id = 1 THEN cache' = c /\ valid' = TRUE ELSE UNCHANGED <<cache, valid>>
  /\ cfg' = IF valid' THEN Decode(cache', cfg) ELSE cfg

Adopt260 ==
  /\ Adopts
  /\ TakeStatus(bsi)
  /\ IF bsi.id = 1
     THEN session' = {} /\ refused' = FALSE
     ELSE UNCHANGED <<session, refused>>
  /\ UNCHANGED <<mdf, bsi, plugged, chosen, acts>>

Ignore260 == ~Adopts /\ UNCHANGED vars

Frame260 == Adopt260 \/ Ignore260

Frame525 ==
  /\ plugged
  /\ mdf' = 0
  /\ UNCHANGED <<cache, valid, cfg, bsi, plugged, ghosts, acts>>

Older(m) == IF m < MdfUnits THEN m + 1 ELSE m

(* An MDF that is plugged in and was heard speaks often enough.            *)
Tick ==
  /\ plugged /\ MdfPresent => mdf + 1 < MdfUnits
  /\ mdf' = Older(mdf)
  /\ UNCHANGED <<cache, valid, cfg, bsi, plugged, ghosts, acts>>

-----------------------------------------------------------------------------
(* psa_car_config_apply_downlink: the request, made from the cache.        *)
(* Mutant: made from the defaults.                                         *)
ToggledFresh(s, val) ==
  [DefaultCache EXCEPT !.on = IF val THEN @ \cup {s} ELSE @ \ {s}]
Toggled(s, val) ==
  [cache EXCEPT !.id = 1, !.on = IF val THEN @ \cup {s} ELSE @ \ {s}]

(* Follow-me-home: off (the bit of 15 s stays), 15, 30 or 60 s.            *)
FollowMe(bit) ==
  [cache EXCEPT !.id = 1, !.follow = bit # 0,
                !.nibble = (@ \ {1, 2, 4}) \cup (IF bit = 0 THEN {1} ELSE {bit})]

Brightness(bits) == [cache EXCEPT !.id = 1, !.nibble = bits]
Profile(p) == [cache EXCEPT !.id = p]

(* The cache takes the request before it is sent; what is displayed        *)
(* changes only if it could be sent (psa_set_car_config and                *)
(* can_router_set_car_config).  The BSI may accept it or not.              *)
Send(req) ==
  /\ cache' = req /\ valid' = TRUE
  /\ \/ /\ cfg' = Decode(req, cfg)
        /\ refused' = FALSE
        /\ bsi' \in {bsi, req}
     \/ /\ refused' = TRUE
        /\ UNCHANGED <<cfg, bsi>>
  /\ UNCHANGED <<mdf, plugged>>

Act == acts < MaxActs /\ acts' = acts + 1

SetToggle(s, val) ==
  /\ Act
  /\ Send(Toggled(s, val))
  /\ chosen' = [chosen EXCEPT ![s] = IF val THEN "on" ELSE "off"]
  /\ session' = session \cup {s}

SetFollowMe(bit) == Act /\ Send(FollowMe(bit)) /\ UNCHANGED <<chosen, session>>
SetBrightness(bits) == Act /\ Send(Brightness(bits)) /\ UNCHANGED <<chosen, session>>
SelectProfile(p) == Act /\ Send(Profile(p)) /\ UNCHANGED <<chosen, session>>

(* The head unit announces itself anew (psa_init).                         *)
Handshake ==
  /\ Act
  /\ cache' = DefaultCache /\ valid' = FALSE
  /\ mdf' = MdfUnits
  /\ session' = {} /\ refused' = FALSE
  /\ UNCHANGED <<cfg, bsi, plugged, chosen>>

(* A setting made elsewhere: on the MDF, or a profile chosen with the key. *)
BsiChanges ==
  /\ Act
  /\ bsi' \in {Factory({}), Factory(Settings), [bsi EXCEPT !.id = 3 - bsi.id]}
  /\ UNCHANGED <<box, plugged, ghosts>>

Next ==
  \/ Frame260 \/ Frame525 \/ Tick \/ Handshake \/ BsiChanges
  \/ \E s \in Settings, val \in BOOLEAN : SetToggle(s, val)
  \/ \E bit \in {0, 1, 2, 4} : SetFollowMe(bit)
  \/ \E bits \in {{}, {1, 2}, Bits} : SetBrightness(bits)
  \/ \E p \in Profiles : SelectProfile(p)

(* The BSI and the MDF, if there is one, keep broadcasting.                *)
Spec == Init /\ [][Next]_vars /\ WF_vars(Frame260) /\ WF_vars(Frame525)

-----------------------------------------------------------------------------
TypeOK ==
  /\ cache \in Status /\ valid \in BOOLEAN /\ cfg \in Decoded
  /\ mdf \in 0 .. MdfUnits
  /\ bsi \in Status /\ plugged \in BOOLEAN
  /\ chosen \in [Settings -> {"none", "on", "off"}]
  /\ session \subseteq Settings /\ refused \in BOOLEAN
  /\ acts \in 0 .. MaxActs

(* Every setting chosen since the box last adopted the BSI's status is in  *)
(* the next request too, whatever was set, refused or selected in between. *)
NoChoiceLost ==
  \A s \in session : s \in cache.on <=> chosen[s] = "on"

(* The head unit displays what the next request will say, unless the last  *)
(* request was refused by the controller, or is of another profile.        *)
StaleOnlyAfterRefusal ==
  valid /\ ~refused => cfg = Decode(cache, cfg)

(* Once nobody sets anything any more, a car with an MDF and the user's    *)
(* profile makes the head unit display the BSI's settings.                 *)
EventuallyAdopted ==
  <>[](plugged /\ bsi.id = 1) => <>[](cfg = Decode(bsi, cfg))

(* Comment of psa_decode_bsi_profiles_0x260_profile: without an MDF the    *)
(* BSI's status is ignored, "so user settings are never reverted".         *)
NeverReverted ==
  [][ ~MdfPresent /\ Frame260 =>
        \A s \in Settings : chosen[s] # "none" => (s \in cfg'.on <=> s \in cfg.on) ]_cfg
=============================================================================
