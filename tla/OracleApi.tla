----------------------------- MODULE OracleApi -----------------------------
(***************************************************************************)
(* A request to the API process (src/api-serverless/src/oracle.db.ts),     *)
(* beside the runs of the service that write the tables (TdhTables).  An   *)
(* answer is put together from several queries, each on its own: the       *)
(* block, the Merkle root stored for it, the rows asked for, the TDH of    *)
(* the NFTs or seasons.                                                    *)
(*                                                                         *)
(* A request is for the totals, for the first entries of the table, for    *)
(* the NFTs, or for the TDH of a wallet.                                   *)
(***************************************************************************)
EXTENDS TdhTables

VARIABLES request,
          quiet    \* no run was under way since before the request (history)

apiVars == <<vars, request, quiet>>

Endpoint == {"total", "cutoff", "nfts"} \cup Wallet

ASSUME NamesAssumption == Wallet \cap {"total", "cutoff", "nfts"} = {}

\* The queries of an endpoint after the block, in order.  The TDH of seasons
\* comes from a function of the module that is an endpoint of its own: it
\* queries block, row and root anew, and its block and root are not used.
Queries(endpoint) ==
  IF endpoint = "nfts" THEN <<"root", "nfts">>
  ELSE IF endpoint = "cutoff" THEN <<"root", "rows">>
  ELSE IF endpoint = "total" THEN <<"root", "rows", "blockAgain", "rootAgain", "nfts">>
  ELSE <<"rows", "root", "blockAgain", "rowsAgain", "rootAgain", "nfts">>

\* of: the block whose root is asked for; seasons: the row the TDH of a wallet
\* in each season is taken from.
NoRequest == [pc |-> "none", endpoint |-> "nfts", left |-> << >>, block |-> 0, of |-> 0,
              root |-> {}, rows |-> {}, seasons |-> {}, nfts |-> {}]

ApiInit == Init /\ request = NoRequest /\ quiet = FALSE

\* Mutant of Latest: the oldest rows decide.
Earliest(rows) == IF rows = {} THEN 0 ELSE CHOOSE b \in {c.block : c \in rows} : \A c \in rows : b <= c.block

\* SELECT MAX(block), 0 in an empty table.
Latest(rows) == MaxOf({c.block : c \in rows})

\* The request arrives and getBlock is answered.
GetBlock(endpoint) ==
  /\ request.pc \in {"none", "answered", "failed"}
  /\ LET block == Latest(cons)
     IN request' = [NoRequest EXCEPT !.pc = "open", !.endpoint = endpoint,
                                     !.left = Queries(endpoint), !.block = block, !.of = block]
  /\ quiet' = (Resting /\ clean /\ rooted)
  /\ UNCHANGED vars

Asks(query) == request.pc = "open" /\ request.left # << >> /\ Head(request.left) = query

GetBlockAgain ==
  /\ Asks("blockAgain")
  /\ request' = [request EXCEPT !.of = Latest(cons), !.left = Tail(@)]
  /\ UNCHANGED <<vars, quiet>>

\* getMerkleRoot: without a row for the block it throws a TypeError.
RootMissing == \A b \in blocks : b.block # request.of

GetMerkleRoot ==
  /\ Asks("root") \/ Asks("rootAgain")
  /\ \/ \E b \in blocks :
          /\ b.block = request.of
          /\ request' = [request EXCEPT !.root = IF Asks("root") THEN b.root ELSE @, !.left = Tail(@)]
     \/ RootMissing /\ request' = [request EXCEPT !.pc = "failed"]
  /\ UNCHANGED <<vars, quiet>>

\* The rows of tdh_consolidation.  fetchTDHCutoff throws on an empty table.
GetRows ==
  /\ Asks("rows") /\ request.endpoint \notin Wallet
  /\ request' = IF request.endpoint = "cutoff" /\ cons = {}
                THEN [request EXCEPT !.pc = "failed"]
                ELSE [request EXCEPT !.rows = Content(cons), !.left = Tail(@)]
  /\ UNCHANGED <<vars, quiet>>

\* Of the rows that hold the wallet asked for, the first one, whichever that is.
FirstRows(wallet) ==
  LET mine == {c \in cons : wallet \in c.key}
  IN IF mine = {} THEN {{}} ELSE {Content({c}) : c \in mine}

GetRowOfWallet ==
  /\ request.endpoint \in Wallet
  /\ \E row \in FirstRows(request.endpoint) :
       \/ Asks("rows") /\ request' = [request EXCEPT !.rows = row, !.left = Tail(@)]
       \/ Asks("rowsAgain") /\ request' = [request EXCEPT !.seasons = row, !.left = Tail(@)]
  /\ UNCHANGED <<vars, quiet>>

\* The TDH of NFTs or of seasons, which is summed up from nfts.
GetNfts ==
  /\ Asks("nfts")
  /\ request' = [request EXCEPT !.nfts = nfts, !.left = Tail(@)]
  /\ UNCHANGED <<vars, quiet>>

Answer ==
  /\ request.pc = "open" /\ request.left = << >>
  /\ request' = [request EXCEPT !.pc = "answered"]
  /\ UNCHANGED <<vars, quiet>>

\* A step of the service, which knows nothing of requests.
ServiceStep ==
  /\ Next
  /\ quiet' = FALSE
  /\ UNCHANGED request

ApiNext ==
  \/ ServiceStep
  \/ \E endpoint \in Endpoint : GetBlock(endpoint)
  \/ GetBlockAgain \/ GetMerkleRoot \/ GetRows \/ GetRowOfWallet \/ GetNfts \/ Answer

ApiSpec == ApiInit /\ [][ApiNext]_apiVars

-----------------------------------------------------------------------------
(* Properties.                                                             *)

Answered(endpoints) == request.pc = "answered" /\ request.endpoint \in endpoints

\* While no run is under way, after one that ended, requests are answered; the
\* root in the answer is that of the rows it reports, the TDH of the NFTs was
\* calculated from those rows too, and the TDH of a wallet and of its seasons
\* are those of one of them.  After a partial run two rows can list a wallet,
\* see TdhTables; which of them a query takes is then left open.
QuietAnswers ==
  quiet =>
    /\ request.pc # "failed"
    /\ Answered({"total"}) => request.root = request.rows /\ request.nfts = request.rows
    /\ Answered({"cutoff"}) => request.root = request.rows
    /\ Answered({"nfts"}) => request.nfts = request.root
    /\ Answered(Wallet) =>
         /\ request.rows \subseteq request.root /\ request.seasons \subseteq request.root
         /\ (\A c, d \in cons : request.endpoint \in c.key \cap d.key => c = d) =>
              request.seasons = request.rows

-----------------------------------------------------------------------------
(* The inductive invariant.                                                *)

Query == {"root", "rows", "nfts", "blockAgain", "rootAgain", "rowsAgain"}

RequestTypeOK ==
  /\ request \in [pc : {"none", "open", "answered", "failed"}, endpoint : Endpoint, left : Seq(Query),
                  block : Block, of : Block, root : SUBSET ContentRow, rows : SUBSET ContentRow,
                  seasons : SUBSET ContentRow, nfts : SUBSET ContentRow]
  /\ quiet \in BOOLEAN

\* A query that is still to come.
ToCome(query) == \E i \in DOMAIN request.left : request.left[i] = query

\* What the queries of a request got while the tables rest.
RequestInv ==
  quiet =>
    LET wallet == request.endpoint \in Wallet IN
    /\ clean /\ rooted
    /\ request.pc \in {"open", "answered"} /\ request.of = Latest(cons)
    /\ request.pc = "answered" => request.left = << >>
    /\ ToCome("root") \/ request.root = Content(cons)
    /\ ToCome("nfts") \/ request.endpoint = "cutoff" \/ request.nfts = Content(cons)
    /\ ToCome("rows") \/ request.endpoint = "nfts"
         \/ (IF wallet THEN request.rows \in FirstRows(request.endpoint) ELSE request.rows = Content(cons))
    /\ ToCome("rowsAgain") \/ ~ wallet \/ request.seasons \in FirstRows(request.endpoint)

ApiInv == TablesInv /\ RequestTypeOK /\ RequestInv
=============================================================================
