------------------------------ MODULE Stability ------------------------------
(***************************************************************************)
(* The arithmetic of pipeline/steady.py: how far a classifier's labels for  *)
(* rewordings of one message differ, and the gate over it.                  *)
(*                                                                          *)
(* A family is a sequence of variants [language, label], the label NoLabel  *)
(* where none was read.  Labels are numbers, which order them as their      *)
(* names are ordered.  A rate is kept as the fraction it is, <<part,        *)
(* whole>>, and a gate is one too.                                          *)
(***************************************************************************)
EXTENDS Integers, Sequences, SequencesExt, FiniteSets, FiniteSetsExt

NoLabel == 0

total_pairs(count) == (count * (count - 1)) \div 2

Known(labels) == SelectSeq(labels, LAMBDA l : l # NoLabel)

_counts(labels, label) == Len(SelectSeq(labels, LAMBDA l : l = label))

(* Mutant: a missing label is a label like any other. *)
FlipsOfAll(labels) ==
    LET same(label) == total_pairs(_counts(labels, label))
    IN  total_pairs(Len(labels)) - MapThenSumSet(same, Range(labels))

(* Pairs whose labels differ; a missing label is not a flip. *)
flipped_pairs(labels) ==
    LET known == Known(labels)
        same(label) == total_pairs(_counts(known, label))
    IN  IF Len(known) < 2 THEN 0
        ELSE total_pairs(Len(known)) - MapThenSumSet(same, Range(known))

(* Mutant: the majority is whichever label was read first. *)
FirstLabel(labels) == IF Known(labels) = <<>> THEN NoLabel ELSE Known(labels)[1]

(* The most common label, ties broken by name. *)
majority_label(labels) ==
    LET known == Known(labels)
        most == {l \in Range(known) :
                    \A m \in Range(known) : _counts(known, m) <= _counts(known, l)}
    IN  IF known = <<>> THEN NoLabel ELSE Min(most)

-----------------------------------------------------------------------------
LabelsOf(family) == [i \in DOMAIN family |-> family[i].label]

(* The pairs of labelled variants, and those whose labels differ. *)
LabelledPairs(family) ==
    LET known == {i \in DOMAIN family : family[i].label # NoLabel}
    IN  {p \in known \X known : p[1] < p[2]}
Flips(family) == {p \in LabelledPairs(family) : family[p[1]].label # family[p[2]].label}

(* same-language pairs, their flips, cross-language pairs, their flips *)
_pair_split(family) ==
    LET same == {p \in LabelledPairs(family) : family[p[1]].language = family[p[2]].language}
        cross == LabelledPairs(family) \ same
    IN  [same        |-> Cardinality(same),
         same_flips  |-> Cardinality(same \cap Flips(family)),
         cross       |-> Cardinality(cross),
         cross_flips |-> Cardinality(cross \cap Flips(family))]

judge_family(family) ==
    LET labels == LabelsOf(family)
        majority == majority_label(labels)
        labelled == Len(Known(labels))
    IN  [variants   |-> Len(family),
         labelled   |-> labelled,
         majority   |-> majority,
         dissenters |-> {i \in DOMAIN family : labels[i] \notin {NoLabel, majority}},
         pairs      |-> total_pairs(labelled),
         flips      |-> flipped_pairs(labels)]

-----------------------------------------------------------------------------
(* StabilityReport *)

dissent_rate(families) ==
    LET dissenters(k) == Cardinality(judge_family(families[k]).dissenters)
        labelled(k) == judge_family(families[k]).labelled
    IN  <<MapThenSumSet(dissenters, DOMAIN families), MapThenSumSet(labelled, DOMAIN families)>>

flip_rate(families) ==
    LET flips(k) == judge_family(families[k]).flips
        pairs(k) == judge_family(families[k]).pairs
    IN  <<MapThenSumSet(flips, DOMAIN families), MapThenSumSet(pairs, DOMAIN families)>>

Defined(rate) == rate[2] # 0
Over(rate, most) == rate[1] * most[2] > most[1] * rate[2]

unlabelled_families(families) ==
    {k \in DOMAIN families : judge_family(families[k]).labelled # Len(families[k])}

(* The one label every measured family read, when two or more were. *)
constant_label(families) ==
    LET measured == {k \in DOMAIN families : judge_family(families[k]).labelled > 0}
        labels == UNION {Range(Known(LabelsOf(families[k]))) : k \in DOMAIN families}
    IN  IF Cardinality(measured) >= 2 /\ Cardinality(labels) = 1 THEN Min(labels) ELSE NoLabel

(* One minus the share of the most common label among the repeats of one   *)
(* payload; undefined unless every repeat came back labelled.              *)
repeat_instability(labels, repeats) ==
    LET known == Known(labels)
    IN  IF repeats < 2 \/ Len(known) < repeats THEN <<0, 0>>
        ELSE <<repeats - Max({_counts(known, l) : l \in Range(known)}), repeats>>

verdict_for(families) ==
    LET rate == dissent_rate(families)
    IN  IF ~Defined(rate) THEN "NOTHING MEASURED"
        ELSE IF rate[1] = 0 THEN "STABLE"
        ELSE IF ~Over(rate, <<1, 20>>) THEN "MOSTLY STABLE"
        ELSE "UNSTABLE"

(* Whether the gate fails: nothing measured, partly measured, and over a   *)
(* threshold all do.  No gate on flips is <<>>.                            *)
gate(families, max_dissent, max_flips) ==
    \/ ~Defined(dissent_rate(families))
    \/ unlabelled_families(families) # {}
    \/ Over(dissent_rate(families), max_dissent)
    \/ max_flips # <<>> /\ Defined(flip_rate(families)) /\ Over(flip_rate(families), max_flips)

(* read_label: from the first record only. *)
read_label(records) ==
    IF records = <<>> THEN [label |-> NoLabel, state |-> "no-record"]
    ELSE IF "label" \notin records[1].fields THEN [label |-> NoLabel, state |-> "not-visible"]
    ELSE IF records[1].label = NoLabel THEN [label |-> NoLabel, state |-> "null"]
    ELSE [label |-> records[1].label, state |-> "labelled"]
=============================================================================
