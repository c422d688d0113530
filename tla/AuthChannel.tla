---------------------------- MODULE AuthChannel ----------------------------
(***************************************************************************)
(* What the unified API promises the two ends of the covert channel        *)
(* (unified-api/stego_sig.h): a verifier that is told STEGO_OK has a pHash *)
(* that the holder of the verifying key signed.  Nothing is promised of    *)
(* payloads that are refused: the channel may lose, damage or repeat them. *)
(***************************************************************************)
CONSTANTS
  PublicKeys,
  PHashes

VARIABLES
  authorised,   \* the pairs <<public key, pHash>> that were signed
  accepted      \* what the last verification vouched for: a set of at most
                \* one such pair

avars == <<authorised, accepted>>

AInit == authorised = {} /\ accepted = {}

ASign(pk, phash) ==
  /\ authorised' = authorised \cup {<<pk, phash>>}
  /\ accepted' = {}

AAccept(pk, phash) ==
  /\ <<pk, phash>> \in authorised
  /\ accepted' = {<<pk, phash>>}
  /\ UNCHANGED authorised

ARefuse ==
  /\ accepted' = {}
  /\ UNCHANGED authorised

ANext ==
  \/ \E pk \in PublicKeys, phash \in PHashes : ASign(pk, phash) \/ AAccept(pk, phash)
  \/ ARefuse

ASpec == AInit /\ [][ANext]_avars
=============================================================================
