----------------------------- MODULE MCCalendars -----------------------------
(* Two markets, one of them with two names; one bespoke and one bad name.  *)
(* Each market has a day of rest the other one has not.                    *)
EXTENDS Calendars

MCNames == {"TARGET", "UnitedStates", "UnitedStates/Settlement", "Bespoke",
            "Atlantis"}
MCMarkets == {"TARGET", "US"}
MCDays == 1..3
MCRegular == [m \in MCMarkets |-> IF m = "TARGET" THEN {1, 2} ELSE {2, 3}]
MCLookup ==
    [n \in MCNames |-> CASE n = "TARGET" -> "TARGET"
                         [] n = "Bespoke" -> Bespoke
                         [] n = "Atlantis" -> Unknown
                         [] OTHER -> "US"]
=============================================================================
