--------------------------- MODULE MCPlanScatter ---------------------------
(***************************************************************************)
(* Numbers of three bits.                                                  *)
(***************************************************************************)
EXTENDS PlanScatter

Whole == [object : {1}, if_match : {0}, window_offset : {0}, window_length : {MaxInt},
          offset : {0, 1, 3, 6, 7}, length : {1, 2, 5}]
WithCondition == [object : {1}, if_match : {1}, window_offset : {0},
                  window_length : {MaxInt}, offset : {0, 3}, length : {1, 2}]
Windowed == [object : {1}, if_match : {0}, window_offset : {2}, window_length : {3},
             offset : {0, 2}, length : {1, 3}]
\* The window ends one past the largest number.
HighWindow == [object : {1}, if_match : {0}, window_offset : {5}, window_length : {3},
               offset : {0, 2, 6}, length : {1, 3}]
File == [object : {2}, if_match : {0}, window_offset : {0}, window_length : {MaxInt},
         offset : {0, 3}, length : {2, 6}]
FileWithCondition == [object : {2}, if_match : {1}, window_offset : {0},
                      window_length : {MaxInt}, offset : {0}, length : {2}]
\* The offset alone may leave the numbers.
OpenWindow == [object : {1}, if_match : {0}, window_offset : {4}, window_length : {MaxInt},
               offset : {1, 5}, length : {1}]
Mixed ==
    Whole \cup WithCondition \cup Windowed \cup HighWindow \cup OpenWindow
        \cup File \cup FileWithCondition

\* Merges that meet every limit, merges that meet hardly one, and none.
Settings ==
    {[coalesce_gap |-> 1, coalesce_limit |-> 6, coalesce_parts |-> 2,
      coalesce_amplification |-> 2],
     [coalesce_gap |-> 2, coalesce_limit |-> MaxInt, coalesce_parts |-> 3,
      coalesce_amplification |-> 3],
     [coalesce_gap |-> 0, coalesce_limit |-> 6, coalesce_parts |-> 2,
      coalesce_amplification |-> 2]}
=============================================================================
