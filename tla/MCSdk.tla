-------------------------------- MODULE MCSdk --------------------------------
EXTENDS Sdk

(* All methods, or those that show what becomes of the gas of a registered     *)
(* tool.                                                                       *)
MCOfferedMethods == UNION {DOMAIN Catalogue[arg] : arg \in DOMAIN Catalogue}
MCToolGasMethods == {"register_one_tool", "enable_expiry_extension"}

(* Amounts of money around nothing, around one MIST of gas with its fee, where *)
(* divisions leave a rest, and around the largest number; priorities around    *)
(* the ends of their range.                                                    *)
MCBudgets == {0, 1, 2, 10, 11, 12, 119, 120, MaxWord - 1, MaxWord}
MCPercentages == {Omitted, 0, 9, 10, 11, 33, 100, 9999, 10000, 10001, MaxWord}
MCAmounts == {0, 1, 2, 3, 5}

(* One value that is small, one that is too large, of two payloads.           *)
MCValues ==
    { [payloads |-> <<"x">>, many |-> FALSE, size |-> 3],
      [payloads |-> <<"x", "y">>, many |-> TRUE, size |-> 4] }

(* Leaders are alike.                                                         *)
LeaderSymmetry == Permutations(Leaders)
=============================================================================
