--------------------------- MODULE MCAttachments ----------------------------
(***************************************************************************)
(* A small instance of Attachments for TLC: of a campaign to a chat, one   *)
(* to a community and a firing to that community, any two are under way,   *)
(* each with a photo and a clip.                                           *)
(* Attachments is instantiated under names that Campaign does not use:     *)
(* CampaignProofs reasons about both.                                      *)
(***************************************************************************)
EXTENDS Naturals, Sequences

CONSTANTS VkGroups, MaxGroups, Campaigns, Firings, Deliveries, Order, Videos, MaxTries, MaxMishaps

VARIABLES kind, token, post, deliveryRow, queued, tries, step, asKind, refs, found, inHand,
          holdsToken, cache, made, cleared, refused, mishaps

A == INSTANCE Attachments WITH MaxFaults <- MaxMishaps, row <- deliveryRow, faults <- mishaps

ASSUME SendingAssumption == A!AttachmentsAssumption

AttachmentsSpec == A!Spec

\* A message has the right files in their order, in the right form, and no video that
\* is still processed, unless it is overdue (Attachments).
ReferencesSound == A!ReferencesSound

\* Who was cleared as having all files is not stopped by a dead token (Attachments).
ClearedNeedNoToken == A!ClearedNeedNoToken

\* Trying again uploads nothing that was uploaded and kept (Attachments).
RetriesReuse == A!RetriesReuse

-----------------------------------------------------------------------------
CONSTANTS aCampaign, another, aFiring, aCommunity, aChat, aClip, aPhoto

TwoFiles == <<aPhoto, aClip>>
Targets == {<<aCampaign, aChat>>, <<another, aCommunity>>, <<aFiring, aCommunity>>}

\* Bound: one of the three posts has not begun.
TwoPosts == \E p \in Campaigns \cup Firings : post[p] \in {"none", "draft"}
=============================================================================
