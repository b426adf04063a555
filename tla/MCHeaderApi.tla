---------------------------- MODULE MCHeaderApi ----------------------------
(***************************************************************************)
(* HeaderApi with a handful of fields: good and bad ones, one that may be  *)
(* repeated, several that may not, and the two required ones.              *)
(***************************************************************************)
EXTENDS HeaderApi

MCNames == {""}
MCLocalparts == {"", "a"}
MCDomains == {"", "x"}
MCToTitle(s) == s

good == NewAddress("", "a", "x")
bounce == NewAddress("", "", "")

MCParsedFields ==
    {[name |-> "From", err |-> "", val |-> <<good>>],
     [name |-> "From", err |-> "No-bounce", val |-> <<bounce>>],
     [name |-> "To", err |-> "", val |-> <<good>>],
     [name |-> "Date", err |-> "", val |-> 0],
     [name |-> "Date", err |-> "bad", val |-> NoTime],
     [name |-> "MIME-Version", err |-> "", val |-> "1.0"],
     [name |-> "Received", err |-> "", val |-> 0]}

MCFieldNames == {"From", "To", "Date", "MIME-Version"}
MCModes == {"RFC5322", "MIME"}

=============================================================================
