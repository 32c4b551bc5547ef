---------------------------------- MODULE MCSorts ----------------------------------
(* Sorts for TLC: compareFun is any relation on up to four elements, and any ranking,  *)
(* ties included, of more.                                                             *)
EXTENDS Sorts

CONSTANT MaxNested  \* bound: elements of the two sorts with nested loops

AnyRelation(k) == SUBSET {pair \in Positions(k) \X Positions(k) : pair[1] # pair[2]}
Rankings(k) == {{pair \in Positions(k) \X Positions(k) : rank[pair[1]] > rank[pair[2]]} :
                    rank \in [Positions(k) -> Positions(k)]}
MCComparators(k) == IF k <= 4 THEN AnyRelation(k) ELSE Rankings(k)
MCOneRanking(k) == {{pair \in Positions(k) \X Positions(k) : pair[1] > pair[2]}}

MCInit == Init /\ (sort # "heap" => number_of_elements <= MaxNested)

MCSpec == MCInit /\ [][Next]_vars /\ WF_vars(Next)
====================================================================================
