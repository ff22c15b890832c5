------------------------------- MODULE Session -------------------------------
(***************************************************************************)
(* A backend whose clients call the functions on serial numbers, rounding, *)
(* random strings and check sums one after another, while scans of         *)
(* get_yydoy_id_from_sn are open: what lies between two rows of a scan is  *)
(* any number of other calls.                                              *)
(***************************************************************************)
EXTENDS SerialNumber, Rounding, RandString, Crc32

sessionVars == <<call, scan, randVars, crcVars>>

SessionInit == Init /\ RandInit /\ CrcInit

\* An error takes the open scans with it, whatever function raised it.
ScansAfter == scan' = IF call'.status = "error" THEN [s \in Scans |-> Closed] ELSE scan

SessionNext ==
  \/ Next /\ UNCHANGED <<randVars, crcVars>>
  \/ RoundNext /\ ScansAfter /\ UNCHANGED <<randVars, crcVars>>
  \/ RandNext /\ ScansAfter /\ UNCHANGED crcVars
  \/ CrcNext /\ ScansAfter /\ UNCHANGED randVars

SessionSpec == SessionInit /\ [][SessionNext]_sessionVars
=============================================================================
