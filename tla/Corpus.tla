------------------------------- MODULE Corpus -------------------------------
(***************************************************************************)
(* blast/corpus.py: the plan of a corpus, what of it a run artifact        *)
(* records, and the plan that is rebuilt from there.                       *)
(*                                                                         *)
(* A weight of the mix is a whole number of grains, Full of them 100%; the *)
(* artifact keeps multiples of Place grains (six decimal places of a       *)
(* percentage).  A payload is what its bytes depend on: the seed, the      *)
(* categories drawn so far, and the attachments.                           *)
(***************************************************************************)
EXTENDS Naturals, Sequences, SequencesExt, FiniteSetsExt

CONSTANTS
    Full,   \* grains in 100%
    Place   \* grains in the last place an artifact records

ASSUME CorpusAssumption == {Full, Place} \subseteq Nat \ {0}

CATEGORIES == <<"clean", "messy-but-valid", "multilingual-gibberish",
                "structurally-malformed", "degenerate">>

NoMix == <<>>

(* What the plan was refused for. *)
CorpusError == <<>>

(* parse_mix, of weights that are numbers and whose names are known.  What *)
(* the code forgives a sum, 1e-9, is far less than a grain.                *)
parse_mix(mix) ==
    IF MapThenSumSet(LAMBDA i : mix[i], DOMAIN mix) = Full THEN <<mix>> ELSE CorpusError

(* round(weight * 100, 6), halves to even. *)
Rounded(grains) ==
    LET below == grains \div Place
        over == 2 * (grains % Place)
    IN  Place * (IF over > Place \/ (over = Place /\ below % 2 = 1) THEN below + 1 ELSE below)

(* Mutant: an artifact that records no attachments gets today's default. *)
DefaultAttachments(config) == IF config.attachments = "absent" THEN "seeded" ELSE config.attachments

(* LEGACY_ATTACHMENTS: what an artifact from before modes was built with.  *)
recorded_attachments(config) ==
    IF config.attachments = "absent" THEN "none" ELSE config.attachments

(* CorpusPlan.config.  A catalog's plan records its cases; a mix names its *)
(* categories and their percentages.                                       *)
config_of(plan, default_mix) ==
    LET mix == IF plan.mix = NoMix THEN default_mix ELSE plan.mix
    IN  IF plan.catalog # <<>>
        THEN [seed |-> plan.seed, count |-> Len(plan.catalog), mix |-> {},
              mix_percent |-> NoMix, attachments |-> "absent", catalog |-> plan.catalog]
        ELSE [seed |-> plan.seed, count |-> plan.count,
              mix |-> {i \in DOMAIN mix : mix[i] > 0},
              mix_percent |-> [i \in DOMAIN mix |-> Rounded(mix[i])],
              attachments |-> plan.attachments, catalog |-> <<>>]

ATTACHMENT_MODES == {"none", "seeded", "adversarial"}

(* CorpusPlan.__post_init__ *)
CorpusPlan(plan) ==
    IF plan.count >= 0 /\ plan.attachments \in ATTACHMENT_MODES THEN <<plan>> ELSE CorpusError

(* CorpusPlan.from_config: the plan, or CorpusError. *)
from_config(seed, config) ==
    LET mix == IF config.mix_percent = NoMix THEN <<NoMix>> ELSE parse_mix(config.mix_percent)
    IN  IF config.catalog # <<>>
        THEN CorpusPlan([seed |-> seed, count |-> Len(config.catalog), mix |-> NoMix,
                         attachments |-> "seeded", catalog |-> config.catalog])
        ELSE IF mix = CorpusError THEN CorpusError
        ELSE CorpusPlan([seed |-> seed, count |-> config.count, mix |-> mix[1],
                         attachments |-> recorded_attachments(config), catalog |-> <<>>])

(* random.Random(seed).choices: some draw that the seed and the place fix. *)
Draw(seed, i) == (11 * seed + 17 * i) % Full

(* The category whose share of the weights the draw falls in. *)
Drawn(mix, draw) ==
    CATEGORIES[Min({i \in DOMAIN mix :
                       MapThenSumSet(LAMBDA j : mix[j], 1..i) > draw} \cup {Len(mix)})]

(* CorpusPlan.build: the payload and the category of each message. *)
build(plan, default_mix, case_category) ==
    LET mix == IF plan.mix = NoMix THEN default_mix ELSE plan.mix
        drawn == [i \in 1..plan.count |-> Drawn(mix, Draw(plan.seed, i))]
    IN  IF plan.catalog # <<>>
        THEN [i \in DOMAIN plan.catalog |->
                [payload  |-> <<plan.seed, <<plan.catalog[i]>>, "catalog">>,
                 category |-> case_category[plan.catalog[i]]]]
        ELSE [i \in 1..plan.count |->
                [payload  |-> <<plan.seed, SubSeq(drawn, 1, i), plan.attachments>>,
                 category |-> drawn[i]]]
=============================================================================
