---------------------------- MODULE MCSchedules ----------------------------
(***************************************************************************)
(* Small values for Schedules: requests whose values meet a tie, a bound   *)
(* and the cap from either side; rules whose ratio falls between, on and   *)
(* below the allowed cadences; and records built by hand, some of them     *)
(* refused.                                                                *)
(***************************************************************************)
EXTENDS Schedules

Coefficient(p, q) == [num |-> p, den |-> q]

Metallic(coefficient, seed, grain, minimum, maximum, rounding) ==
  [kind |-> "metallic_recurrence", coefficient |-> coefficient, seed |-> seed,
   grain |-> grain, minimum |-> minimum, maximum |-> maximum, rounding |-> rounding]

Ladder(count, minimum, maximum, grain, rounding) ==
  [kind |-> "log_spaced", count |-> count, minimum |-> minimum, maximum |-> maximum,
   grain |-> grain, rounding |-> rounding]

MetallicRequests ==
  {[role |-> "windows",
    spec |-> Metallic(c, seed, grain, minimum, maximum, rounding)] :
     c \in {Coefficient(1, 2), Coefficient(1, 1), Coefficient(2, 1)},
     seed \in {1, 10, 14}, grain \in {1, 4, 10}, minimum \in {NoMinimum, 10, 12},
     maximum \in {9, 20, 62}, rounding \in Roundings}

LadderRequests ==
  {[role |-> "horizons", spec |-> Ladder(count, minimum, maximum, grain, rounding)] :
     count \in {2, 3, 4}, minimum \in {2, 10}, maximum \in {10, 24}, grain \in {1, 3, 4},
     rounding \in Roundings}

(* One term below the cap, and one above it.                               *)
SlowRequests ==
  {[role |-> "windows",
    spec |-> Metallic(Coefficient(1, 2), 10, 1, NoMinimum, maximum, "nearest_ties_away")] :
     maximum \in {131, 168}}

OtherRequests ==
  {[role |-> role, spec |-> spec] :
     role \in {"windows", "horizons", "periods"},
     spec \in {Metallic(Coefficient(1, 1), 10, 10, NoMinimum, 20, "nearest_ties_even"),
               Metallic(Coefficient(1, 1), 14, 3, 14, 62, "nearest_ties_away"),
               Ladder(3, 12, 24, 3, "nearest_ties_even"),
               Ladder(1, 12, 24, 3, "nearest_ties_even"),
               Ladder(3, 24, 12, 3, "nearest_ties_even"),
               Metallic(Coefficient(0, 1), 10, 10, NoMinimum, 20, "nearest_ties_even"),
               Metallic(Coefficient(1, 1), 10, 10, 0, 20, "nearest_ties_even")}}

MCRequests == MetallicRequests \cup SlowRequests \cup LadderRequests \cup OtherRequests

WOverK(divisor, allowed, source) ==
  [kind |-> "w_over_k", divisor |-> divisor, allowed |-> allowed, source |-> source]

MCRuleRequests ==
  {[windows |-> windows, spec |-> WOverK(divisor, allowed, source)] :
     windows \in {<<60>>, <<6, 12, 60>>, <<24, 18>>, <<6, 6>>, <<0>>, <<>>},
     divisor \in {0, 1, 2, 3}, allowed \in SUBSET {2, 6, 12}, source \in {2, 6, 24}}

Stated(role, members) ==
  [role |-> role, members |-> members,
   spec |-> IF role = "periods" THEN [kind |-> "explicit", periods |-> members]
            ELSE [kind |-> "explicit", name |-> "mine"]]

Lists == {<<>>, <<0>>, <<5, 5>>, <<90, 60>>, <<694861>>, <<86399, 3600, 604800>>,
          [i \in 1 .. MaxTerms |-> i], [i \in 1 .. MaxTerms + 1 |-> i]}

ByHand ==
  {[role |-> role, members |-> members,
    spec |-> Metallic(Coefficient(1, 1), 10, 5, minimum, 60, "nearest_ties_even")] :
     role \in {"windows", "periods"}, minimum \in {NoMinimum, 10, 12},
     members \in {<<10, 60>>, <<5>>, <<65>>, <<12>>, <<60, 20>>}}
  \cup {[role |-> "horizons", members |-> members, spec |-> Ladder(3, 12, 24, grain, "nearest_ties_away")] :
          members \in {<<12, 24>>, <<15>>, <<27>>, <<9>>}, grain \in {3, 5}}
  \cup {[role |-> "periods", members |-> <<7, 8>>,
         spec |-> [kind |-> "explicit", periods |-> <<7>>]]}

Pairs ==
  {[role |-> "pairs", members |-> members, spec |-> spec] :
     members \in {<<[window |-> 60, emit |-> 6]>>,
                  <<[window |-> 60, emit |-> 6], [window |-> 24, emit |-> 2]>>,
                  <<[window |-> 60, emit |-> 0]>>,
                  <<[window |-> 60, emit |-> 6], [window |-> 60, emit |-> 2]>>},
     spec \in {WOverK(2, {2, 6, 12}, 6), WOverK(2, {12}, 6),
               [kind |-> "explicit_pairs", name |-> "mine"]}}

MCGiven ==
  {Stated(role, list) : role \in Roles \ {"pairs"}, list \in Lists} \cup ByHand \cup Pairs

MCEditValues == {0, 60}

=============================================================================
