-------------------------- MODULE MCAuthScheduler --------------------------
(* Small instances of AuthScheduler, with the record of SchedulerRotation, *)
(* for TLC.                                                                *)
EXTENDS SchedulerRotation, TLC

(* Per-model states that MarkResult leaves: untouched, rate limited with a *)
(* recovery time, failed for another reason, failed after a rate limit.    *)
Clean == [disabled |-> FALSE, unavailable |-> FALSE, exceeded |-> FALSE,
          nextRetryAfter |-> None, nextRecoverAt |-> None]

Quota(t) == [Clean EXCEPT !.unavailable = TRUE, !.exceeded = TRUE,
                          !.nextRetryAfter = t, !.nextRecoverAt = t]

Failed(t) == [Clean EXCEPT !.unavailable = TRUE, !.nextRetryAfter = t]

FailedAfterQuota(t, recover) ==
    [Quota(recover) EXCEPT !.nextRetryAfter = t]

Plain(p) ==
    [provider |-> p, disabled |-> FALSE, status |-> "active", priority |-> 0,
     parent |-> None, ws |-> FALSE, states |-> [m \in ModelKeys |-> Clean]]

In(auth, state) == [auth EXCEPT !.states = [m \in ModelKeys |-> state]]

(* One provider: transports, parents, priorities and waiting auths.        *)
ShardSnapshots ==
    LET plain == Plain("codex")
    IN  1 :> {[plain EXCEPT !.parent = 1], In(plain, Quota(1)),
              [In(plain, FailedAfterQuota(1, 2)) EXCEPT !.priority = 1]}
     @@ 2 :> {[plain EXCEPT !.ws = TRUE, !.parent = 1],
              [plain EXCEPT !.parent = 2],
              [plain EXCEPT !.priority = 1, !.status = "disabled"]}
     @@ 3 :> {[plain EXCEPT !.parent = 2, !.ws = TRUE],
              [plain EXCEPT !.parent = 2],
              [In(plain, Failed(2)) EXCEPT !.priority = 1],
              [plain EXCEPT !.disabled = TRUE]}

(* Two providers: auths that move between them, wait, and differ in         *)
(* priority.                                                               *)
MixedSnapshots ==
    LET p == Plain("codex")
        q == Plain("gemini")
    IN  1 :> {p, q, In(p, Quota(1))}
     @@ 2 :> {p, [q EXCEPT !.priority = 1]}
     @@ 3 :> {In(q, Failed(1))}

OneList == {<<"codex", "gemini">>}
NoLists == {}
=============================================================================
