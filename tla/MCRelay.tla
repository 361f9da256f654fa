------------------------------ MODULE MCRelay ------------------------------
(* One branch; commits c0 <- c1 <- c2, and d on top of c0 beside c1.       *)
EXTENDS Relay, TLC

CONSTANTS c0, c1, c2, d

Tree == {<<c, c>> : c \in Commits}
            \cup ({<<c0, c1>>, <<c0, c2>>, <<c1, c2>>, <<c0, d>>} \cap (Commits \X Commits))

Times(any, foreign, fault, read, refuse, full, crash, manualCalls, syncs, aligns) ==
    [kind \in Kinds |-> CASE kind = "foreign" -> foreign [] kind = "fault" -> fault
                          [] kind = "read" -> read [] kind = "refuse" -> refuse [] kind = "full" -> full
                          [] kind = "crash" -> crash [] kind = "manual" -> manualCalls
                          [] kind = "sync" -> syncs [] kind = "align" -> aligns
                          [] kind = "any" -> any]

SafetyBudget == Times(2, 1, 2, 1, 1, 1, 1, 1, 1, 1)
DeliveryBudget == Times(3, 0, 2, 1, 0, 0, 1, 0, 0, 0)
SyncBudget == Times(1, 0, 0, 0, 0, 0, 0, 0, 1, 0)

(* c1 and d are the same to Descends, when c2 is not a commit.             *)
Symmetric == Permutations(Pushes) \cup Permutations(Tasks) \cup Permutations({c1, d})
=============================================================================
