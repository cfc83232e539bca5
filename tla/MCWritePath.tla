------------------------------- MODULE MCWritePath -------------------------------
EXTENDS WritePath

V4(d) == [version |-> 4, parts |-> <<198, 51, d, 7>>]

V6 == [version |-> 6, head |-> <<8193, 3512>>, tail |-> <<1>>, dotted |-> <<>>]

Long6 == [version |-> 6, head |-> <<8193>>, tail |-> <<1, 2, 3, 4, 5, 6>>, dotted |-> <<>>]

\* One with a short end, and one where the bytes decide how many zeros there
\* are in front of the third hextet.
Mapped6 == [version |-> 6, head |-> <<>>, tail |-> <<65535>>, dotted |-> <<203, 0, 113, 9>>]
Dotted6 == [version |-> 6, head |-> <<8193>>, tail |-> <<7, 9, 3, 4>>, dotted |-> <<192, 0, 2, 1>>]

MCCutTo == [session |-> 64, version |-> 256, username |-> 256, password |-> 256,
            input |-> 4096, url |-> 2048, outfile |-> 2048]

MCMaxLength == [session |-> 64, client_version |-> 256, username |-> 256, password |-> 256,
                command |-> 4096, url |-> 2048]

MCSensor == [len |-> 7, ctl |-> 0]

MCCountryOf(ip) == "IS"
MCAsnOf(ip) == 64496
MCSizeOf(w) == IF w.type = "command" THEN 700 ELSE 200

MCNow == 1000

GoodLogin == [eventid |-> "cowrie.login.success", src_ip |-> V4(100), timestamp |-> 990,
          username |-> Text(300, 0), password |-> Text(5, 2)]
Command == [eventid |-> "cowrie.command.input", src_ip |-> V6, timestamp |-> Other,
            session |-> Text(8, 0), input |-> Text(9, 1)]
Connect == [eventid |-> "cowrie.session.connect", src_ip |-> V4(101), timestamp |-> 991,
            protocol |-> "telnet"]
Future == [eventid |-> "cowrie.session.closed", src_ip |-> V4(100), timestamp |-> 2000,
           duration |-> 3]
Noise == [eventid |-> "cowrie.log.closed", src_ip |-> V4(100)]

\* One of each kind that is as odd as it can be.
Odd == {
    [eventid |-> "cowrie.login.failed", src_ip |-> V4(1), password |-> Text(257, 0)],
    [eventid |-> "cowrie.client.kex", src_ip |-> V4(1), version |-> Text(400, 3)],
    [eventid |-> "cowrie.client.version", src_ip |-> V4(1), version |-> Other],
    [eventid |-> "cowrie.command.failed", src_ip |-> Long6, input |-> Text(5000, 4200)],
    [eventid |-> "cowrie.session.file_upload", src_ip |-> Mapped6, outfile |-> Text(3000, 0)],
    [eventid |-> "cowrie.session.file_download", src_ip |-> V4(1), url |-> Other,
     session |-> Text(65, 0)],
    [eventid |-> "cowrie.session.closed", src_ip |-> Dotted6, duration |-> Other],
    [eventid |-> "cowrie.session.closed", src_ip |-> V4(1), duration |-> 700000],
    [eventid |-> "cowrie.session.connect", src_ip |-> NotAnAddress, protocol |-> "tcp"],
    [eventid |-> "cowrie.session.connect", src_ip |-> Other]}

\* A batch that is full by count and one that is full by bytes; repeated
\* lines; a refused event among good ones, and in front of one; a line that
\* the tool dies of.
MCFiles == {<<GoodLogin, Connect, GoodLogin, Connect>>, <<Connect, Command, NotJson>>,
            <<Noise, GoodLogin, Future, Connect>>, <<Future, GoodLogin>>,
            <<Connect, JsonNull>>}
           \cup {<<e>> : e \in Odd}

OneConnect == {<<Connect>>}

Request(method, path, auth, json, size, body) ==
    [method |-> method, url |-> "good", path |-> path, auth |-> auth, json |-> json,
     declared |-> size, size |-> size, body |-> body]

MCProbes == {
    Request("POST", "/v1/events", "nothing", TRUE, 300, "batch"),
    Request("POST", "/v1/events", RollupsToken, TRUE, 2000, "no json"),
    Request("POST", "/v1/events", CronSecret, FALSE, 5000, "unreadable"),
    Request("PUT", "/v1/events", "nothing", TRUE, 300, "batch"),
    Request("GET", "/healthz", "nothing", FALSE, 0, "none"),
    Request("DELETE", "/healthz", "nothing", FALSE, 0, "none"),
    Request("GET", "/v1/rollups", "nothing", FALSE, 0, "none"),
    Request("TRACE", "/v1/events", "nothing", FALSE, 0, "none"),
    [Request("POST", "/v1/events", "nothing", TRUE, 300, "batch") EXCEPT !.url = "bad"]}

MCCasts == {{"tool"}, {"reader", "cron", "stranger"}}

OnlyReader == {{"reader"}}

MCGeoConfigured == [country |-> "absent", asn |-> "absent"]
MCGeoBundled == [country |-> "good", asn |-> "absent"]

\* The theorem on DiesForCause is about these instances, too.
ASSUME Instances == Configured

===============================================================================
