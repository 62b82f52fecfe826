\* One message, of either, with or without attachments, reactions and receipts;
\* or two and a page of one: the second makes the first an old one, whatever
\* is deleted.  The freelancer's window is followed, whose events are the ones
\* that a failed emission drops first.
CONSTANTS
  client = client  freelancer = freelancer
  Client = client
  Freelancer = freelancer
  MaxMessages = 2
  Page = 1
  Extras = {"reactions"}
  Watching = {freelancer}
SPECIFICATION ChatSpec
INVARIANTS ViewSettles ReceiptIsKept
