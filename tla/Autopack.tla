------------------------------ MODULE Autopack ------------------------------
(***************************************************************************)
(* The autopack planner of RepositoryPackCollection                        *)
(* (src/bzrlib/repofmt/pack_repo.py): _max_pack_count, pack_distribution   *)
(* and plan_autopack_combinations, as pure operators.                      *)
(*                                                                         *)
(* A pack offered to the planner is a record [count |-> revisions in its   *)
(* revision index, pack |-> the pack].  The planner's input is the         *)
(* sequence of such records sorted by count, largest first, as             *)
(* existing_packs.sort(reverse=True) leaves it.                            *)
(***************************************************************************)
EXTENDS Naturals, Sequences

\* str(total_revisions) is read in decimal.
Base == 10

RECURSIVE DigitSum(_)
DigitSum(n) == IF n = 0 THEN 0 ELSE (n % Base) + DigitSum(n \div Base)

(* _max_pack_count: 1 for an empty repository, else the digit sum.        *)
MaxPackCount(total_revisions) ==
    IF total_revisions = 0 THEN 1 ELSE DigitSum(total_revisions)

RECURSIVE Power(_, _)
Power(b, e) == IF e = 0 THEN 1 ELSE b * Power(b, e - 1)

(* Mutation of Buckets: bucket sizes counted from exponent one.          *)
RECURSIVE BucketsFromTen(_, _)
BucketsFromTen(n, e) ==
    IF n = 0 THEN << >>
    ELSE BucketsFromTen(n \div Base, e + 1)
           \o [i \in 1..(n % Base) |-> Power(Base, e + 1)]

(* The buckets of the digits of n from exponent e upwards, largest first:  *)
(* the reversed(result) of pack_distribution.                              *)
RECURSIVE Buckets(_, _)
Buckets(n, e) ==
    IF n = 0 THEN << >>
    ELSE Buckets(n \div Base, e + 1)
           \o [i \in 1..(n % Base) |-> Power(Base, e)]

(* pack_distribution: [0] for an empty repository.                         *)
PackDistribution(total_revisions) ==
    IF total_revisions = 0 THEN <<0>> ELSE Buckets(total_revisions, 0)

(* Mutation of ConsumeBuckets: a bucket is consumed only when strictly     *)
(* exceeded (> 0 for >= 0).                                                *)
RECURSIVE ConsumeBucketsStrict(_, _)
ConsumeBucketsStrict(count, dist) ==
    IF count <= 0 THEN [ok |-> TRUE, dist |-> dist]
    ELSE IF dist = << >> THEN [ok |-> FALSE, dist |-> dist]
    ELSE IF count - Head(dist) > 0
         THEN ConsumeBucketsStrict(count - Head(dist), Tail(dist))
         ELSE [ok |-> TRUE, dist |-> [dist EXCEPT ![1] = Head(dist) - count]]

(* Mutation of ConsumeBuckets: the part of a bucket left over is set to   *)
(* next_pack_rev_count without its negation.                               *)
RECURSIVE ConsumeBucketsUnnegated(_, _)
ConsumeBucketsUnnegated(count, dist) ==
    IF count <= 0 THEN [ok |-> TRUE, dist |-> dist]
    ELSE IF dist = << >> THEN [ok |-> FALSE, dist |-> dist]
    ELSE IF count - Head(dist) >= 0
         THEN ConsumeBucketsUnnegated(count - Head(dist), Tail(dist))
         ELSE [ok |-> TRUE, dist |-> [dist EXCEPT ![1] = count - Head(dist)]]

(* The inner while loop of the "already packed better" branch: take count  *)
(* revisions off the head of the distribution.  Reading the head of an    *)
(* empty distribution is the IndexError of pack_distribution[0]; ok is     *)
(* FALSE then.                                                             *)
RECURSIVE ConsumeBuckets(_, _)
ConsumeBuckets(count, dist) ==
    IF count <= 0 THEN [ok |-> TRUE, dist |-> dist]
    ELSE IF dist = << >> THEN [ok |-> FALSE, dist |-> dist]
    ELSE IF count - Head(dist) >= 0
         THEN ConsumeBuckets(count - Head(dist), Tail(dist))
         ELSE [ok |-> TRUE, dist |-> [dist EXCEPT ![1] = Head(dist) - count]]

NewOperation == [revs |-> 0, packs |-> << >>]

(* One iteration of the outer while loop per recursive call: pop the       *)
(* largest pack; leave it alone and consume buckets if it is at least the  *)
(* head bucket, else add it to the last pack operation and open a new      *)
(* operation once that one reaches the head bucket.                        *)
RECURSIVE PlanLoop(_, _, _)
PlanLoop(existing, dist, ops) ==
    IF existing = << >> THEN [ok |-> TRUE, ops |-> ops]
    ELSE IF dist = << >> THEN [ok |-> FALSE, ops |-> ops]
    ELSE
      LET next == Head(existing)
          last == ops[Len(ops)]
          grown == [revs  |-> last.revs + next.count,
                    packs |-> Append(last.packs, next.pack)]
      IN IF next.count >= Head(dist)
         THEN LET left == ConsumeBuckets(next.count, dist)
              IN IF left.ok THEN PlanLoop(Tail(existing), left.dist, ops)
                 ELSE [ok |-> FALSE, ops |-> ops]
         ELSE IF grown.revs >= Head(dist)
              THEN PlanLoop(Tail(existing), Tail(dist),
                            Append([ops EXCEPT ![Len(ops)] = grown], NewOperation))
              ELSE PlanLoop(Tail(existing), dist, [ops EXCEPT ![Len(ops)] = grown])

(* plan_autopack_combinations: no operations when there are no more packs  *)
(* than buckets.  ok is FALSE when the code would raise IndexError.        *)
PlanAutopackCombinations(existing, pack_distribution) ==
    IF Len(existing) <= Len(pack_distribution)
    THEN [ok |-> TRUE, ops |-> << >>]
    ELSE PlanLoop(existing, pack_distribution, <<NewOperation>>)

(* The operations _execute_pack_operations acts on: it skips empty ones.   *)
PackOperations(plan) == {op \in {plan.ops[i] : i \in DOMAIN plan.ops} : op.packs # << >>}

=============================================================================
