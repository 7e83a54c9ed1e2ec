------------------------------- MODULE Images -------------------------------
(***************************************************************************)
(* What the image proxy's modules share: registered keys and the versions  *)
(* of an image.  A version is its number; it stands for the bytes, their   *)
(* sha256 and the validator made of them (the upstream's ETag, or the hash *)
(* when there is none), so a validator fits the bytes of the same number.  *)
(***************************************************************************)
EXTENDS Integers, Sequences, FiniteSets

CONSTANTS Keys,    \* registry keys, source.name
          MaxBody, \* bound: versions of an image
          Size,    \* Size[b]: bytes of version b
          Tagged   \* versions the upstream serves with an ETag

Bodies == 1..MaxBody

ASSUME ImagesAssumption ==
    /\ IsFiniteSet(Keys)
    /\ MaxBody \in Nat \ {0}
    /\ Size \in [Bodies -> Nat \ {0}]
    /\ Tagged \subseteq Bodies

None == 0  \* no version, no validator, no file
=============================================================================
