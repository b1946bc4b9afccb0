----------------------------- MODULE MCScanTools -----------------------------
(* A deployment with one host of its own and the instance-metadata range in its
   default networks, a client with two servers of which one also has an IPv6
   address, and somebody else's server. *)
EXTENDS ScanTools

AllAddresses == {"own", "meta", "web", "db", "web6", "other"}
V6 == {"web6"}
Names == {"srv"}
LocalNames == {"here"}
MetadataRange == {"meta"}
InwardAddresses == {"own", "meta"}

OwnNetworks == {{"own"}, {"meta"}}
ClientRange == {"web", "db"}
TooWide == {"web", "db", "other"}
Networks == {ClientRange, {"web"}, {"web6"}, {"other"}}
Targets == {ClientRange, TooWide, {"meta"}, {}}

\* The name answers for its servers, for a stranger's, for the metadata range,
\* or not at all.
SomeAnswers ==
  {[h \in {"srv", "here"} |-> IF h = "srv" THEN answer ELSE <<"own">>] :
     answer \in {<<"web6", "web">>, <<"other", "web">>, <<"web", "meta">>, <<>>}}

ServiceScan(host, ports) ==
  [tool |-> "service", hosts |-> <<host>>, range |-> {}, ports |-> ports]
Discovery(range) ==
  [tool |-> "discovery", hosts |-> <<>>, range |-> range, ports |-> "default"]
SweepScan(hosts, ports) ==
  [tool |-> "sweep", hosts |-> hosts, range |-> {}, ports |-> ports]
Fetch(host) ==
  [tool |-> "fetch", hosts |-> <<host>>, range |-> {}, ports |-> "default"]

SomeAsks ==
  {ServiceScan("srv", "default"), ServiceScan("db", "malformed"),
   ServiceScan("here", "default"), ServiceScan(NoHost, "default"),
   Discovery(ClientRange), Discovery({"meta"}),
   SweepScan(<<"web", "other">>, "default"), SweepScan(<<"srv", "own">>, "given"),
   SweepScan(<<>>, "default"),
   Fetch("srv"), Fetch("here")}

Redirects == {"srv", "meta", "here", NoHost}

\* The client's range and one of its servers, each unknown, active or revoked.
StoredTables ==
  {table \in [Networks -> RowState] :
     \A network \in Networks : table[network] # "absent" => network \subseteq ClientRange}
=============================================================================
