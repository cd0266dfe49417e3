----------------------------- MODULE OtaUpdate -----------------------------
(***************************************************************************)
(* What an over-the-air update promises the device: an image is installed  *)
(* only after it was complete in storage and was proposed to the server,   *)
(* and a proposed image is not taken out of storage before that.  Servers, *)
(* blocks, errors and timers are OtaBootloadClient's business.             *)
(***************************************************************************)
CONSTANTS Images, NoImage

VARIABLES
  complete,   \* the images that are complete in storage
  candidate,  \* the image that was proposed to the server, or NoImage
  installed   \* the image the device runs

update == <<complete, candidate, installed>>

Empty == complete = {} /\ candidate = NoImage /\ installed = NoImage

Fetch(image) ==
  /\ candidate = NoImage
  /\ complete' = complete \cup {image}
  /\ UNCHANGED <<candidate, installed>>

Discard(image) ==
  /\ candidate = NoImage
  /\ complete' = complete \ {image}
  /\ UNCHANGED <<candidate, installed>>

Propose(image) ==
  /\ candidate = NoImage /\ image \in complete
  /\ candidate' = image
  /\ UNCHANGED <<complete, installed>>

\* The server has nothing for this image, or the device starts over.
Withdraw == candidate' = NoImage /\ UNCHANGED <<complete, installed>>

Install ==
  /\ candidate \in complete
  /\ installed' = candidate
  /\ candidate' = NoImage
  /\ UNCHANGED complete

Next ==
  \/ \E image \in Images : Fetch(image) \/ Discard(image) \/ Propose(image)
  \/ Withdraw
  \/ Install

Spec == Empty /\ [][Next]_update
=============================================================================
