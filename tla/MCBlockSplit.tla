----------------------------- MODULE MCBlockSplit -----------------------------
(* BlockSplit with two parents that share the block type CDF, one sub-type   *)
(* each, a section of its own, a header field and a key no block claims.     *)
EXTENDS BlockSplit, TLC

MCPlain == {"Buyers", "Status", "Tail"}
MCPlainType == "Buyers" :> "PARTIES" @@ "Status" :> "ORDER" @@ "Tail" :> "MISC"
MCPlainSub == "Buyers" :> "BUYERS" @@ "Status" :> "HEADER" @@ "Tail" :> "MAIN"
MCParents == {"CDFs", "CDFAmounts"}
MCTypeOf == [p \in MCParents |-> "CDF"]
MCMainSub == "CDFs" :> "MAIN" @@ "CDFAmounts" :> "AMOUNTS"
MCRawSub == "CDFs" :> "CDFS_RAW" @@ "CDFAmounts" :> "CDFAMOUNTS_RAW"
MCSubOf ==
  "CDFs" :> ("OriginationChargeSection" :> "ORIGINATION" @@ "Guid" :> "rest") @@
  "CDFAmounts" :> ("Disbursements" :> "DISBURSEMENTS" @@ "Guid" :> "rest")

=============================================================================
