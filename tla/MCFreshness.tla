---------------------------- MODULE MCFreshness ----------------------------
(* The parts that act on what may have been overtaken: an owner's request,   *)
(* evidence and a price, by their age, on one clock; and a vault's key file, *)
(* which trails the chain.  They share nothing else, so each behaviour       *)
(* exercises one of them, the scene.                                         *)
EXTENDS OwnerAuth, PriceOracle, MCOffBoxSigner, VaultOwner

CONSTANTS r1, r2, g1, g2, g3, t1, t2

VARIABLE scene

freshVars == <<clock, ownerVars, oracleVars, signerVars, vars, scene>>

Symmetry == Permutations(Attempts) \cup Permutations(Terminals)

\* Bound: the last instant of each scene.
Horizon == [owner |-> 3, oracle |-> 5, signer |-> 1, vault |-> 0]

FreshInit ==
  /\ clock = 0
  /\ scene \in DOMAIN Horizon
  /\ OwnerInit /\ OracleInit /\ SignerInit /\ Init

FreshNext ==
  /\ UNCHANGED scene
  /\ \/ scene = "owner" /\ OwnerNext /\ UNCHANGED <<oracleVars, signerVars, vars>>
     \/ scene = "oracle" /\ OracleNext /\ UNCHANGED <<ownerVars, signerVars, vars>>
     \/ scene = "signer" /\ SignerNext /\ UNCHANGED <<ownerVars, oracleVars, vars>>
     \/ scene = "vault" /\ Next /\ UNCHANGED <<clock, ownerVars, oracleVars, signerVars>>
  /\ clock' <= Horizon[scene]

FreshSpec == FreshInit /\ [][FreshNext]_freshVars
=============================================================================
