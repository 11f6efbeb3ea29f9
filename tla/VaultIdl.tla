------------------------------ MODULE VaultIdl ------------------------------
(***************************************************************************)
(* The binary interface of the on-chain vault program, as                  *)
(* packages/vault/src/idl/idl.ts declares it: which account signs an       *)
(* instruction and whether it must be the one the vault names, the layout  *)
(* of its arguments, and the layout of the Vault account.                  *)
(*                                                                         *)
(* A layout is a sequence of fields, one after the other with no padding   *)
(* (borsh).  Bytes are not modelled: a field is known by its offset and    *)
(* its width, and whoever reads at another offset, or another width, reads *)
(* something else.                                                         *)
(***************************************************************************)
EXTENDS Naturals, Sequences, FiniteSets

Field(name, width) == [name |-> name, width |-> width]

Pubkey(name) == Field(name, 32)
Bytes32(name) == Field(name, 32)
U64(name) == Field(name, 8)
I64(name) == Field(name, 8)
U16(name) == Field(name, 2)
U8(name) == Field(name, 1)
Bool(name) == Field(name, 1)

\* An instruction: its accounts in order, the one that signs, whether the vault account names
\* that signer (a "relation", which the program enforces before its handler runs), its arguments.
Instruction(accounts, signer, related, args) ==
  [accounts |-> accounts, signer |-> signer, related |-> related, args |-> args]

CloseVaultIx == Instruction(<<"vault", "owner">>, "owner", TRUE, <<>>)
DepositIx == Instruction(<<"vault", "depositor", "system">>, "depositor", FALSE, <<U64("amount")>>)
InitVaultIx ==
  Instruction(<<"vault", "owner", "system">>, "owner", FALSE,
              <<Bytes32("agentSeed"), Pubkey("delegate"), U64("maxTrade"), U64("dailyLimit")>>)
SetDelegateIx == Instruction(<<"vault", "owner">>, "owner", TRUE, <<Pubkey("newDelegate")>>)

\* A vector: its length in four bytes, then its elements.
SetRoutesIx ==
  Instruction(<<"vault", "owner">>, "owner", TRUE, <<Field("length", 4), Pubkey("program")>>)
SetRuleIx ==
  Instruction(<<"vault", "owner">>, "owner", TRUE,
              <<Pubkey("oracle"), Bytes32("feed"), U8("op"), I64("threshold"), I64("maxAge"),
                Pubkey("inMint"), Pubkey("outMint"), U16("maxSlippageBps")>>)
\* Mutant of TradeIx: the signer need not be the vault's delegate.
TradeIxUnrelated ==
  Instruction(<<"vault", "delegate", "vaultInput", "vaultOutput", "swap", "token", "instructions">>,
              "delegate", FALSE, <<U64("amountIn"), U64("minOut"), Field("swapData", 4)>>)

TradeIx ==
  Instruction(<<"vault", "delegate", "vaultInput", "vaultOutput", "swap", "token", "instructions">>,
              "delegate", TRUE, <<U64("amountIn"), U64("minOut"), Field("swapData", 4)>>)
UnwrapSolIx == Instruction(<<"vault", "actor", "wsol", "token">>, "actor", FALSE, <<>>)
UpdateConfigIx ==
  Instruction(<<"vault", "owner">>, "owner", TRUE, <<U64("maxTrade"), U64("dailyLimit"), Bool("paused")>>)
WithdrawIx == Instruction(<<"vault", "owner">>, "owner", TRUE, <<U64("amount")>>)
WrapSolIx == Instruction(<<"vault", "actor", "wsol", "token", "system">>, "actor", FALSE, <<U64("amount")>>)

\* The Vault account after its discriminator.
VaultStruct ==
  <<Pubkey("owner"), Pubkey("delegate"), Bytes32("agentSeed"), U64("maxTrade"), U64("dailyLimit"),
    I64("dayStart"), U64("daySpent"), I64("lastTrade"), U64("epoch"), Bool("paused"),
    Pubkey("oracle"), Bytes32("ruleFeed"), U8("ruleOp"), I64("ruleThreshold"), I64("ruleMaxAge"),
    Pubkey("ruleInMint"), Pubkey("ruleOutMint"), U16("maxSlippageBps"),
    Pubkey("route1"), Pubkey("route2"), Pubkey("route3"), Pubkey("route4"), U8("bump")>>

-----------------------------------------------------------------------------
(* Reading.                                                                *)

\* The bytes of the j-th field, and the offset of the i-th: the bytes before it.
Bytes(layout, j) == {j} \X (1..layout[j].width)
Offset(layout, i) == Cardinality(UNION {Bytes(layout, j) : j \in 1..(i - 1)})

Garbled == 1000

\* For each field of a reader's layout, the fields of the writer's it touches, and whether it
\* covers exactly one of them.
Alignment(reader, writer) ==
  [name \in {reader[i].name : i \in DOMAIN reader} |->
     LET i == CHOOSE k \in DOMAIN reader : reader[k].name = name
         from == Offset(reader, i)
         touched == {j \in DOMAIN writer :
                       /\ Offset(writer, j) < from + reader[i].width
                       /\ from < Offset(writer, j) + writer[j].width}
     IN [fields |-> {writer[j].name : j \in touched},
         exact |-> \E j \in touched : Offset(writer, j) = from /\ writer[j].width = reader[i].width]]

\* What the reader gets when the writer's fields hold the given values: a field, if it reads
\* exactly that; zero, if all it touches is zero; or garbage.
Decode(alignment, value) ==
  [name \in DOMAIN alignment |->
     IF alignment[name].exact THEN value[CHOOSE f \in alignment[name].fields : TRUE]
     ELSE IF \A f \in alignment[name].fields : value[f] = 0 THEN 0
     ELSE Garbled]
=============================================================================
