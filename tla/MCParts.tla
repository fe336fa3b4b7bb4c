---- MODULE MCParts ----
(*****************************************************************************)
(* Small instances of the parts of the system that share no state with each  *)
(* other: the Machines' connections, the Client on its host and its          *)
(* enrollment, the rate limiters, sign-ins and Agents, the CLI's             *)
(* credentials.  One run checks them side by side: `part` chooses, once, the *)
(* part that moves.  The others rest in their initial states, where nothing  *)
(* the gateway's fairness speaks of is enabled.                              *)
(*****************************************************************************)
EXTENDS Gateway, LocalClient, RateLimits, Access, CliAuth

CONSTANTS w1, w2, m1, d1, p1, n1, n2, t1, t2, u1, u2, u3, u4, o1, o2,
          h1, h2, q1, q2, r1, r2, a1, a2, i1, i2, v1, v2

OneMachine == [s \in Sockets |-> m1]
OneTarget == [r \in Revocations |-> m1]
V1 == <<1, 0, 0>>
NewReleases == {<<1, 0, 1>>, <<1, 1, 0>>, <<0, 9, 9>>}
OrganizationOfUser == (u1 :> o1) @@ (u2 :> o1) @@ (u3 :> o1) @@ (u4 :> o2)
HumanOfClient == (q1 :> h1) @@ (q2 :> h1)

VARIABLE part

PartsInit ==
    /\ part \in {"gateway", "local", "limits", "access", "cli"}
    /\ GatewayInit /\ LocalInit /\ LimitsInit /\ AccessInit /\ CliInit
    /\ part # "local" => platform = "linux"

PartsNext ==
    /\ part' = part
    /\ \/ /\ part = "gateway" /\ GatewayNext
          /\ UNCHANGED <<localVars, limitsVars, accessVars, cliVars>>
       \/ /\ part = "local" /\ LocalNext
          /\ UNCHANGED <<gatewayVars, limitsVars, accessVars, cliVars>>
       \/ /\ part = "limits" /\ LimitsNext
          /\ UNCHANGED <<gatewayVars, localVars, accessVars, cliVars>>
       \/ /\ part = "access" /\ AccessNext
          /\ UNCHANGED <<gatewayVars, localVars, limitsVars, cliVars>>
       \/ /\ part = "cli" /\ CliNext
          /\ UNCHANGED <<gatewayVars, localVars, limitsVars, accessVars>>

PartsSpec ==
    /\ PartsInit
    /\ [][PartsNext]_<<part, gatewayVars, localVars, limitsVars, accessVars, cliVars>>
    /\ GatewayFairness

\* What the variables of each part hold.
PartsTypeOK ==
    /\ part = "gateway" => GatewayTypeOK
    /\ part = "local" => LocalTypeOK
    /\ part = "limits" => LimitsTypeOK
    /\ part = "access" => AccessTypeOK
    /\ part = "cli" => CliTypeOK
====
