------------------------------- MODULE Codec -------------------------------
(***************************************************************************)
(* aftermath_runtime/codec.py NativeCodec: a price or a size as a person   *)
(* writes it, and as the venue counts it.  A decimal has more places than  *)
(* the unit (1e-9), and the venue takes multiples of a tick or a lot only. *)
(***************************************************************************)
EXTENDS Integers

CONSTANTS
    Places,         \* a decimal is so many parts of a unit
    Quanta,         \* tick_size_native, lot_size_native
    MaxDecimal      \* bound: of a decimal

VARIABLES
    quantum,        \* the market's
    decimal         \* what was asked for, in parts of a unit

Roundings == {"floor", "ceiling"}

\* Mutant: the first stage rounds to the nearest unit.
ToUnitsNearest(d, rounding) == (2 * d + Places) \div (2 * Places)

\* to_integral_value(rounding)
ToUnits(d, rounding) ==
    IF rounding = "floor" THEN d \div Places ELSE (d + Places - 1) \div Places

\* Mutant: the second stage rounds down whatever the side.
ToQuantumDown(native, rounding) == native - (native % quantum)

ToQuantum(native, rounding) ==
    LET remainder == native % quantum
    IN  (native - remainder) + (IF remainder # 0 /\ rounding = "ceiling" THEN quantum ELSE 0)

\* _quantized_native; nothing positive is an error.
Native(d, rounding) == ToQuantum(ToUnits(d, rounding), rounding)

Refused(d, rounding) == d =< 0 \/ Native(d, rounding) =< 0

Bid(d)  == Native(d, "floor")
Ask(d)  == Native(d, "ceiling")
Size(d) == Native(d, "floor")

\* price_from_native, size_from_native
Aligned(native) == native > 0 /\ native % quantum = 0

Decimal(native) == native * Places

Init ==
    /\ quantum \in Quanta
    /\ decimal \in 0 .. MaxDecimal

Next ==
    /\ decimal' \in 0 .. MaxDecimal
    /\ UNCHANGED quantum

(***************************************************************************)
(* Properties.                                                             *)
(***************************************************************************)

\* A bid and a size are never more than asked for, an ask never less, and each
\* is the nearest multiple of the quantum on that side ("Bids round down; asks
\* round up": rounding "could move a bid above the caller's limit").
NeverWorse ==
    /\ Decimal(Bid(decimal)) =< decimal
    /\ decimal < Decimal(Bid(decimal) + quantum)
    /\ decimal =< Decimal(Ask(decimal))
    /\ Decimal(Ask(decimal) - quantum) < decimal

\* What the codec answers with is read back, and answers with itself on either
\* side; only what is less than a quantum is refused, and an ask never.
RoundTrips ==
    \A rounding \in Roundings :
        LET native == Native(decimal, rounding)
        IN  IF Refused(decimal, rounding)
            THEN decimal = 0 \/ (rounding = "floor" /\ decimal < Decimal(quantum))
            ELSE /\ Aligned(native)
                 /\ \A again \in Roundings : Native(Decimal(native), again) = native
=============================================================================
