---------------------------- MODULE AddressText ----------------------------
(***************************************************************************)
(* Texts that are to be IP addresses, and the two judgements the program   *)
(* passes on them: the regular expressions of is_ip_address(), and         *)
(* inet_pton(), on which IPAddress and Socket::bind() rely.  A text is     *)
(* what the two look at:                                                   *)
(*   - four decimal fields up to 255, one of them with a leading zero, or  *)
(*     none;                                                               *)
(*   - groups of hexadecimal digits, all of them before a "::" or without  *)
(*     one, or some before and some after it;                              *)
(*   - or anything else: a zone, a blank at the end, a dotted tail.        *)
(***************************************************************************)
EXTENDS Naturals

\* More groups than any of the two accepts on one side of a "::"
MaxGroups == 8

Dotted == [form : {"dotted"}, zeros : BOOLEAN]
Groups == [form : {"groups"}, before : 0 .. MaxGroups, gap : {FALSE}, after : {0}]
          \cup [form : {"groups"}, before : 0 .. MaxGroups, gap : {TRUE},
                after : 0 .. MaxGroups]
Other  == [form : {"other"}]
Texts  == Dotted \cup Groups \cup Other

is_ipv4_address(t) == t.form = "dotted"

\* The alternative of the pattern that begins with a colon never matches: there
\* is no word boundary before it.
is_ipv6_address(t) ==
    /\ t.form = "groups"
    /\ IF t.gap THEN t.before \in 1 .. 7 /\ t.after \in 1 .. 7
       ELSE t.before = 8

is_ip_address(t) == is_ipv4_address(t) \/ is_ipv6_address(t)

\* inet_pton(AF_INET, ...): no leading zeros
ParsesAsIPv4(t) == t.form = "dotted" /\ ~t.zeros

\* inet_pton(AF_INET6, ...): a "::" stands for at least one group
ParsesAsIPv6(t) ==
    /\ t.form = "groups"
    /\ IF t.gap THEN t.before + t.after <= 7 ELSE t.before = 8

\* IPAddress::IPAddress() does not throw.
Parses(t) == ParsesAsIPv4(t) \/ ParsesAsIPv6(t)
=============================================================================
