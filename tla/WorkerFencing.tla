--------------------------- MODULE WorkerFencing ----------------------------
(***************************************************************************)
(* The broker with the workers that use it.  A worker remembers every      *)
(* claim reply it was sent, and any command built from one may reach the   *)
(* broker late, twice or out of order: after the lease expired and was     *)
(* granted again, after the group's membership changed, after a term       *)
(* change or a restart.  Lease ids may be used again once released.        *)
(***************************************************************************)
EXTENDS BrokerStateMachine

VARIABLES
  held,     \* claim replies, each usable by its worker at any later time
  current,  \* the grant each task was last leased under
  acted     \* the grant and fences of the last renewal or completion, or None

workers == <<held, current, acted>>
allVars == <<vars, workers>>

NoAction == [task |-> None]

\* What a claim reply tells its worker (task_claim_result): the lease's epoch,
\* and the group's generation and the broker's term at the time of the reply.
Reply(t, g, m, l, epoch) ==
  [task |-> t, group |-> g, member |-> m, lease |-> l, epoch |-> epoch,
   generation |-> groups[g].generation, term |-> term]

WInit ==
  /\ Init
  /\ held = {}
  /\ current = [t \in Tasks |-> None]
  /\ acted = NoAction

Grant(g, m, l, now, d) ==
  /\ ClaimTask(g, m, term, groups[g].generation, l, now, d)
  /\ LET t == active_lease_tasks'[l]
         reply == Reply(t, g, m, l, tasks'[t].lease_epoch)
     IN  held' = held \cup {reply} /\ current' = [current EXCEPT ![t] = reply]
  /\ acted' = NoAction

\* A claim retried under an active lease id answers its holder again, with
\* the generation of now and not the one the lease was granted under.
RetryClaim(g, m, l) ==
  LET t == active_lease_tasks[l] IN
  /\ RequireGroupMember(g, m, groups[g].generation)
  /\ t # None
  /\ tasks[t].owner = m /\ tasks[t].group = g
  /\ held' = held \cup {Reply(t, g, m, l, tasks[t].lease_epoch)}
  /\ acted' = NoAction
  /\ UNCHANGED <<vars, current>>

\* A worker combines a reply with any generation and term it may have learnt
\* since from join and heartbeat replies.
Fences(reply) ==
  [generation : reply.generation .. groups[reply.group].generation,
   term : reply.term .. term]

Renew(reply, fence, now, d) ==
  /\ RenewTaskLease(reply.task, reply.group, reply.member, fence.term,
                    fence.generation, reply.epoch, reply.lease, now, d)
  /\ acted' = reply
  /\ UNCHANGED <<held, current>>

Complete(reply, fence, r, now) ==
  /\ CompleteTask(reply.task, reply.group, reply.member, fence.term,
                  fence.generation, reply.epoch, reply.lease, r, now)
  /\ acted' = reply
  /\ UNCHANGED <<held, current>>

WNext ==
  \/ \E g \in Groups, m \in Members, l \in LeaseIds :
       \/ RetryClaim(g, m, l)
       \/ \E now \in Clock, d \in Durations : Grant(g, m, l, now, d)
  \/ \E reply \in held, now \in Clock : \E fence \in Fences(reply) :
       \/ \E d \in Durations : Renew(reply, fence, now, d)
       \/ \E r \in Results : Complete(reply, fence, r, now)
  \/ /\ \/ Register \/ Membership \/ Maintain \/ FromCheckpoint
        \/ \E new_term \in 1..MaxTerm : AdvanceTerm(term, new_term)
        \/ \E g \in Groups, m \in Members, l \in LeaseIds, now \in Clock :
             ClaimNothing(g, m, term, groups[g].generation, l, now)
     /\ acted' = NoAction
     /\ UNCHANGED <<held, current>>

WSpec == WInit /\ [][WNext]_allVars

\* Only the latest grant of a task renews or completes it, however late an
\* earlier holder's command arrives, and only while the group's membership
\* is the one the lease was granted under.
OnlyCurrentGrantActs ==
  acted # NoAction =>
    LET grant == current[acted.task] IN
    /\ <<grant.group, grant.member, grant.lease, grant.epoch>> =
         <<acted.group, acted.member, acted.lease, acted.epoch>>
    /\ grant.generation = groups[grant.group].generation
    /\ grant.member \in groups[grant.group].members

\* A completed task keeps its result: no late renewal, completion, expiry or
\* member removal reopens it, and it disappears only when it is pruned.
CompletionIsFinal ==
  [][\A t \in Tasks : tasks[t].status = "completed" =>
       tasks'[t] = tasks[t] \/ t \in changes'.deleted_tasks]_allVars
=============================================================================
