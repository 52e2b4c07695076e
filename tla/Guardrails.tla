----------------------------- MODULE Guardrails -----------------------------
(***************************************************************************)
(* core/guardrails.py and core/targets.py: what may be fired, and at which  *)
(* host.  A host is what its name says it is and the addresses it resolves  *)
(* to; an address header is the sequence of addresses it parses to.         *)
(***************************************************************************)
EXTENDS Naturals, Sequences, SequencesExt

HostNames == {"reserved", "bare", "private literal", "public literal", "name"}
Addresses == {"private", "public"}

(* Dry run is the default: sending needs the flag. *)
evaluate_send(send) == send

_is_reserved_or_private_host(host) ==
    host.name \in {"reserved", "bare", "private literal"}

(* Mutant: one private address makes a name private. *)
AnyAddressPrivate(host) ==
    \/ _is_reserved_or_private_host(host)
    \/ host.name # "public literal" /\ "private" \in host.addresses

(* A name that does not resolve, or resolves to any public address, is     *)
(* public.                                                                 *)
is_private_host(host) ==
    \/ _is_reserved_or_private_host(host)
    \/ host.name # "public literal" /\ host.addresses = {"private"}

(* resolve_target.  A target is <<>> when none was named. *)
resolve_target(target, configured, allow_public_target, load_tool) ==
    /\ target # <<>>
    /\ target \in configured
    /\ ~is_private_host(target.host) =>
            /\ allow_public_target
            /\ load_tool => target.public

(* A field with nothing in it is skipped; of the rest every address of     *)
(* every field must be synthetic, and finding none at all refuses.         *)
require_synthetic_content(fields) ==
    LET kept == SelectSeq(fields, LAMBDA f : f # <<"blank">>)
        addresses == FlattenSeq(kept)
    IN  /\ addresses # <<>>
        /\ Range(addresses) = {"synthetic"}
=============================================================================
