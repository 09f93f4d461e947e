---- MODULE Codec ----
(***************************************************************************)
(* How a cell, a colour and the kind of an entry travel: the ids and codes *)
(* that internal/tbclient builds, and the ways back from them to a byte of *)
(* the canvas: the confirm, the fold of the history and the change stream. *)
(* A 128-bit id is a pair <<high, low>> of 64-bit words.                   *)
(***************************************************************************)
EXTENDS Integers

CONSTANTS
    Word,           \* 2^32
    ColorRange,     \* 256: a colour is a uint8
    GridW, GridH

ASSUME CodecAssumption ==
    /\ {Word, ColorRange, GridW, GridH} \subseteq Nat \ {0}
    /\ GridW <= Word /\ GridH <= Word /\ Word > 1

MaxColor == 15
TransferCodeClaim == 1000
TransferCodeRefund == 1001

SystemPoolID == <<0, 1>>
PixelIDMarker == 1
fundMarker == 61453

Packed(x, y) == x * Word + y
PixelID(x, y) == <<PixelIDMarker, Packed(x, y)>>
FundID(x, y) == <<fundMarker, Packed(x, y)>>

IsPixelID(id) == id[1] = PixelIDMarker
UnpackPixelID(id) == <<id[2] \div Word, id[2] % Word>>

Clamped(color) == IF color > MaxColor THEN MaxColor ELSE color

Transfer(debit, credit, code, flags) ==
    [debit |-> debit, credit |-> credit, code |-> code, flags |-> flags]

ClaimTransfer(x, y, color) ==
    Transfer(PixelID(x, y), SystemPoolID, TransferCodeClaim + Clamped(color), {"pending"})

(* BuildPost leaves the accounts and the code to TigerBeetle, which copies *)
(* them from the pending transfer.                                         *)
Posted(t) == [t EXCEPT !.flags = {"post", "linked"}]
Voided(t) == [t EXCEPT !.flags = {"void"}]
Refund(x, y) == Transfer(SystemPoolID, PixelID(x, y), TransferCodeRefund, {})
FundTransfer(x, y) == Refund(x, y)

(* Mutated form of IsPostedClaim: told by the code alone.                  *)
IsClaimByCode(t) ==
    /\ IsPixelID(t.debit) \/ IsPixelID(t.credit)
    /\ t.code >= TransferCodeClaim

IsPostedClaim(t) ==
    /\ "post" \in t.flags
    /\ IsPixelID(t.debit)
    /\ UnpackPixelID(t.debit)[1] < GridW /\ UnpackPixelID(t.debit)[2] < GridH
    /\ t.code >= TransferCodeClaim

ColorOfCode(t) == (t.code - TransferCodeClaim) % ColorRange

(* ParseMessage: the kind of event is the database's word for the flags,   *)
(* and a claim's event has the account it debits, or (0,0).                *)
EventOf(t) ==
    LET claim == t.flags \cap {"pending", "post"} # {} /\ IsPixelID(t.debit) IN
    [type  |-> CASE "pending" \in t.flags -> "two_phase_pending"
                 [] "post" \in t.flags -> "two_phase_posted"
                 [] "void" \in t.flags -> "two_phase_voided"
                 [] OTHER -> "single_phase",
     cell  |-> IF claim THEN UnpackPixelID(t.debit) ELSE <<0, 0>>,
     color |-> IF claim /\ t.code >= TransferCodeClaim THEN ColorOfCode(t) ELSE 0]

(* What becomes of a colour in the bitmap, wherever it comes from.         *)
ByteOf(color) == (color % 16) + 1

(* Mutated form of Accepts: the colour is not looked at.                   *)
AcceptsAnyColor(x, y, color) == color \in 0..ColorRange - 1 /\ x < GridW /\ y < GridH

(* The server's checks of a claim: handleClaim's colour, Claim's bounds.   *)
Accepts(x, y, color) == color <= MaxColor /\ x < GridW /\ y < GridH
====
