----------------------------- MODULE MCBodyView -----------------------------
EXTENDS BodyView
Doc(media, coding, nd, js, textOk) ==
  [media |-> media, coding |-> coding, nd |-> nd, js |-> js, textOk |-> textOk]
DocsMC ==
  {Doc("ndjson", "good", "none", "cut", FALSE), Doc("json", "plain", "none", "null", TRUE),
   Doc("html", "plain", "none", "none", TRUE), Doc("image", "bad", "none", "none", FALSE)}
=============================================================================
