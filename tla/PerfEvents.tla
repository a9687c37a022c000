------------------------------ MODULE PerfEvents ------------------------------
(***************************************************************************)
(* The events a monitored forward pass records and the times read from them*)
(* (TransformerEvents of worker/layers/transformer_layer.py, ModelEvents   *)
(* and ModelPerfResult of worker/model.py).  Event objects are kept from   *)
(* one iteration to the next, so a time is of an iteration only if both    *)
(* of its ends were recorded in it.  An event is <<name>> of the model, or *)
(* <<layer, stage, name>>.                                                 *)
(***************************************************************************)
EXTENDS Integers, Sequences, SequencesExt

CONSTANT NumLayers          \* layers of the model

ASSUME LayersAssumption == NumLayers \in Nat \ {0}

ModelEvents == {<<n>> : n \in {"frwd_s", "fstg_s", "mnbd_s", "mnbd_e", "lstg_e", "frwd_e"}}

TransformerEvents ==
    (0..(NumLayers - 1)) \X (0..1) \X
        {"stage_s", "linr_e", "pref_e", "gdec_e", "lnch_s", "lnch_m", "cdec_s", "cdec_e", "lnch_e"}

Events == ModelEvents \cup TransformerEvents

(* An event that was never recorded, or holds the 0.0 of __init__. *)
Never == <<>>

NoEvents == [e \in Events |-> Never]

(* mutant: without CPU decodes the time stamps of the host are left as they are *)
AttentionEventsHostSkipped(l, cdecs) ==
    <<{<<l, 0, "pref_e">>}, {<<l, 0, "gdec_e">>}>> \o
    IF cdecs THEN <<{<<l, 0, "lnch_m">>}, {<<l, 0, "cdec_s">>}, {<<l, 0, "cdec_e">>}>> ELSE <<>>

(* _attention of a batch with or without CPU decodes; each step records a set of events at one  *)
(* time, and pf_time_nocpu records three.                                                       *)
AttentionEvents(l, cdecs) ==
    <<{<<l, 0, "pref_e">>}, {<<l, 0, "gdec_e">>}>> \o
    IF cdecs THEN <<{<<l, 0, "lnch_m">>}, {<<l, 0, "cdec_s">>}, {<<l, 0, "cdec_e">>}>>
    ELSE <<{<<l, 0, n>> : n \in {"lnch_m", "cdec_s", "cdec_e"}}>>

(* forward of a layer *)
ForwardEvents(l, cdecs) ==
    <<{<<l, 0, "stage_s">>}, {<<l, 0, "lnch_s">>}, {<<l, 0, "linr_e">>}>> \o
    AttentionEvents(l, cdecs) \o
    <<{<<l, 1, "stage_s">>}, {<<l, 0, "lnch_e">>}, {<<l, 1, "linr_e">>}>>

(* _forward_batches for one batch *)
IterationEvents(cdecs) ==
    <<{<<"frwd_s">>}, {<<"fstg_s">>}, {<<"mnbd_s">>}>> \o
    FlattenSeq([i \in 1..NumLayers |-> ForwardEvents(i - 1, cdecs)]) \o
    <<{<<"mnbd_e">>}, {<<"lstg_e">>}, {<<"frwd_e">>}>>

(* pf_record and pf_time, in iteration it: events are overwritten, the others stay. *)
Recorded(events, steps, it) ==
    [e \in Events |-> IF \E i \in DOMAIN steps : e \in steps[i]
                      THEN <<it, CHOOSE i \in DOMAIN steps : e \in steps[i]>> ELSE events[e]]

(* The ends of the times of a ModelPerfResult of one batch. *)
LayerTimes(l) ==
    {<<<<l, 0, "stage_s">>, <<l, 0, "linr_e">>>>, <<<<l, 1, "stage_s">>, <<l, 1, "linr_e">>>>,
     <<<<l, 0, "linr_e">>, <<l, 0, "pref_e">>>>, <<<<l, 0, "pref_e">>, <<l, 0, "gdec_e">>>>,
     <<<<l, 0, "cdec_s">>, <<l, 0, "cdec_e">>>>,
     <<<<l, 0, "lnch_s">>, <<l, 0, "lnch_m">>>>, <<<<l, 0, "cdec_e">>, <<l, 0, "lnch_e">>>>}

ModelTimes ==
    {<<<<"frwd_s">>, <<"fstg_s">>>>, <<<<"fstg_s">>, <<"mnbd_s">>>>, <<<<"mnbd_s">>, <<"mnbd_e">>>>,
     <<<<"mnbd_e">>, <<"lstg_e">>>>, <<<<"lstg_e">>, <<"frwd_e">>>>}

PerfTimes == ModelTimes \cup UNION {LayerTimes(l) : l \in 0..(NumLayers - 1)}

(* Every time read was begun and ended, in this order, in iteration it. *)
TimesOf(events, it) ==
    \A t \in PerfTimes :
        LET start == events[t[1]]  end == events[t[2]]
        IN  /\ Never \notin {start, end}
            /\ start[1] = it /\ end[1] = it
            /\ start[2] <= end[2]
===============================================================================
