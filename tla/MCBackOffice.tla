---------------------------- MODULE MCBackOffice ----------------------------
(* The back office: loyalty codes, reminders and imports, what Platform Admin sets up for a
   business and at Twilio, its accounts at the payment providers, who signs in, and its
   pictures. They write rows of their own, so a behaviour follows one of them and the
   others keep still. *)
EXTENDS Naturals, Sequences, FiniteSets, TLC

CONSTANTS Workers, None,
          Bookings, Customers, Limits, PerCustomer,
          Rounds, Dates, Leads, Horizon, MaxAccidents,
          Services, Slots, Names, Contacts, Rows, MaxImports,
          Garages, Numbers, Subaccounts, Senders, MaxEdits,
          Emails, MaxBusinesses, MaxAccounts,
          Businesses, Merchants, MaxCodes, MaxTokens, MaxNews,
          MaxTime, MaxEnds, MaxLinks,
          Pictures, Media

VARIABLES focus, code, booked, subject, now, round, records, sends, accidents,
          services, customers, diary, imported,
          account, trunks, biz, lock, job, slips,
          subaccount, enabled, voice, openai, wa,
          settings, made, press, overlap, edits,
          businesses, accounts, asking, moved, late,
          provider, stripe, charges, states, heard, history, deposit, creating, lost, stale,
          connection, tokens, news, told, calling, outrun,
          time, tenant, staff, links, grant, session, signing, uses, crossing,
          image, bucket, tickets, media, upload, retired, accident, excused

Loyalty == INSTANCE LoyaltyRedemption WITH NoLimit <- None, NoCustomer <- None
Reminders == INSTANCE ReminderRounds
Imports == INSTANCE BulkImport
Provisioning == INSTANCE NumberProvisioning
Channels == INSTANCE ChannelSetup
Carrier == INSTANCE CarrierIntegration
Tenants == INSTANCE TenantSetup WITH request <- asking, overtaken <- late
Stripe == INSTANCE PaymentAccounts WITH account <- stripe, stripe <- states, task <- creating
Square == INSTANCE SquareConnection WITH row <- connection, request <- calling, overtaken <- outrun
Access == INSTANCE AccountAccess WITH now <- time, request <- signing, overlap <- crossing
Images == INSTANCE ImageUploads WITH task <- upload

\* A limit of a code is a number of uses. None stands for NULL: no limit, owner, date,
\* identifier, number or status. Numbers that no business holds are in the market or with the
\* parent account, which is no business's subaccount.
ASSUME LoyaltyAssumption == IsFiniteSet(Bookings) /\ Limits \subseteq Nat
ASSUME EmailsAssumption == IsFiniteSet(Emails)
ASSUME RoundsAssumption == IsFiniteSet(Rounds) /\ Horizon \in Nat
ASSUME RowsAssumption == Rows \subseteq Seq(Imports!DiaryRow)
ASSUME NoneAssumption ==
    /\ None \notin Nat \union BOOLEAN \union Senders \union Numbers
    /\ None \notin Subaccounts \union Garages \union Workers
    /\ None \notin Channels!SenderStatus \union {"market", "parent"}
ASSUME AccountsAssumption == {"market", "parent"} \cap Subaccounts = {}
ASSUME MerchantsAssumption == None \notin Merchants \union {"fresh", "due", "expired"}
ASSUME FilesAssumption == /\ Pictures \cap Media = {}
                          /\ {None, "gone"} \cap (Pictures \union Media) = {}
ASSUME BoundsAssumption ==
    /\ {MaxBusinesses, MaxAccounts, MaxTokens, MaxLinks, MaxTime, MaxEnds, MaxEdits,
      MaxNews} \subseteq Nat
    /\ MaxTime > 0 /\ MaxLinks > 0

loyaltyVars == <<code, booked>>
reminderVars == <<subject, now, round, records, sends, accidents>>
importVars == <<services, customers, diary, imported>>
numberVars == <<account, trunks, biz, lock, job, slips>>
setupVars == <<subaccount, enabled, voice, openai, wa>>
carrierVars == <<settings, made, press, overlap, edits>>
tenantVars == <<businesses, accounts, asking, moved, late>>
stripeVars == <<provider, stripe, charges, states, heard, history, deposit, creating, lost, stale>>
squareVars == <<connection, tokens, news, told, calling, outrun>>
accessVars == <<time, tenant, staff, links, grant, session, signing, uses, crossing>>
imageVars == <<image, bucket, tickets, media, upload, retired, accident, excused>>
shopVars == <<loyaltyVars, reminderVars, importVars>>
twilioVars == <<numberVars, setupVars, carrierVars>>
ownerVars == <<tenantVars, stripeVars, squareVars, accessVars, imageVars>>
vars == <<focus, shopVars, twilioVars, ownerVars>>

Init == /\ focus \in {"loyalty", "reminders", "imports", "numbers", "channels", "carrier",
                      "tenants", "stripe", "square", "access", "images"}
        /\ Loyalty!Init /\ Reminders!Init /\ Imports!Init
        /\ Provisioning!Init /\ Channels!Init /\ Carrier!Init
        /\ Tenants!Init /\ Stripe!Init /\ Square!Init /\ Access!Init /\ Images!Init

LoyaltyStep == /\ focus = "loyalty" /\ Loyalty!Next
               /\ UNCHANGED <<focus, reminderVars, importVars, twilioVars, ownerVars>>
RemindersStep == /\ focus = "reminders" /\ Reminders!Next
                 /\ UNCHANGED <<focus, loyaltyVars, importVars, twilioVars, ownerVars>>
ImportsStep == /\ focus = "imports" /\ Imports!Next
               /\ UNCHANGED <<focus, loyaltyVars, reminderVars, twilioVars, ownerVars>>
NumbersStep == /\ focus = "numbers" /\ Provisioning!Next
               /\ UNCHANGED <<focus, shopVars, setupVars, carrierVars, ownerVars>>
ChannelsStep == /\ focus = "channels" /\ Channels!Next
                /\ UNCHANGED <<focus, shopVars, numberVars, carrierVars, ownerVars>>
CarrierStep == /\ focus = "carrier" /\ Carrier!Next
               /\ UNCHANGED <<focus, shopVars, numberVars, setupVars, ownerVars>>
TenantsStep == /\ focus = "tenants" /\ Tenants!Next
               /\ UNCHANGED <<focus, shopVars, twilioVars, stripeVars, squareVars, accessVars, imageVars>>
StripeStep == /\ focus = "stripe" /\ Stripe!Next
              /\ UNCHANGED <<focus, shopVars, twilioVars, tenantVars, squareVars, accessVars, imageVars>>
SquareStep == /\ focus = "square" /\ Square!Next
              /\ UNCHANGED <<focus, shopVars, twilioVars, tenantVars, stripeVars, accessVars, imageVars>>
AccessStep == /\ focus = "access" /\ Access!Next
              /\ UNCHANGED <<focus, shopVars, twilioVars, tenantVars, stripeVars, squareVars, imageVars>>
ImagesStep == /\ focus = "images" /\ Images!Next
              /\ UNCHANGED <<focus, shopVars, twilioVars, tenantVars, stripeVars, squareVars, accessVars>>

Next == \/ LoyaltyStep \/ RemindersStep \/ ImportsStep
        \/ NumbersStep \/ ChannelsStep \/ CarrierStep
        \/ TenantsStep \/ StripeStep \/ SquareStep \/ AccessStep \/ ImagesStep

Spec == Init /\ [][Next]_vars

-----------------------------------------------------------------------------
\* The instance that TLC checks. Workers are interchangeable.
Alike == Permutations(Workers)

MCPerson == [name : Names, phone : Contacts, email : Contacts]
MCRow == [service : Services, slot : Slots, customer : MCPerson]
\* Spreadsheets of a row, or of two rows of different names.
MCRows == {<<r>> : r \in MCRow}
          \union LET n1 == CHOOSE n \in Names : TRUE IN
                 {<<p, q>> : p \in {r \in MCRow : r.customer.name = n1},
                             q \in {r \in MCRow : r.customer.name # n1}}

\* What is out of focus starts, and stays, in one of its initial states only.
MCInit == /\ focus \in {"loyalty", "reminders", "imports", "numbers", "channels", "carrier",
                        "tenants", "stripe", "square", "access", "images"}
          /\ Loyalty!Init /\ (focus # "loyalty" => code.owner = CHOOSE c \in Customers : TRUE)
          /\ Reminders!Init /\ (focus # "reminders" => subject.date = 2 /\ subject.text)
          /\ Imports!Init /\ (focus # "imports" => services = {} /\ customers = <<>>)
          /\ Provisioning!Init /\ (focus # "numbers" => \A n \in Numbers : account[n] = "parent")
          /\ Channels!Init
          /\ Carrier!Init /\ (focus # "carrier" => settings.capability = "unknown" /\ "uri" \in settings.known)
          /\ Tenants!Init /\ Stripe!Init /\ Square!Init /\ Access!Init /\ Images!Init

MCSpec == MCInit /\ [][Next]_vars

\* Constraint: a third Square token is issued only while one business connects.
ThreeTokensForOne ==
    \/ Len(tokens) < 3
    \/ Cardinality({b \in Businesses : \/ connection[b] # Square!Cleared
                                       \/ \E w \in Workers : /\ calling[w] # Square!Idle
                                                              /\ calling[w].business = b}) <= 1

-----------------------------------------------------------------------------
\* Each property is about the component in focus, and includes its type invariant: the others
\* are in initial states of theirs.
\* A discount code is not used more often than its limits allow, and a reward is redeemed
\* by the customer who earned it.
CodesAreRespected == /\ [](focus = "loyalty" => Loyalty!TypeOK /\ Loyalty!RewardStaysPersonal)
                     /\ Loyalty!UsesRespectLimit
\* A reminder is repeated only after a crash or an overlap of two rounds, and an import that
\* is run again makes no second copy.
NothingIsRepeated == /\ [](focus = "reminders" => Reminders!TypeOK /\ Reminders!RepeatsNeedAccidents)
                     /\ [](focus = "imports" => Imports!TypeOK) /\ Imports!RerunMakesNoCopies
\* A recorded number is in no other business's subaccount, and what is retried at the
\* carrier is not made twice.
NothingIsMixedUp == /\ focus = "numbers" => Provisioning!TypeOK /\ Provisioning!NumbersStayApart
                    /\ focus = "carrier" => Carrier!TypeOK /\ Carrier!DuplicatesNeedOverlap
\* A channel shown as online is one that customers reach, and no step is offered that
\* would be refused.
ChannelsTellTheTruth ==
    focus = "channels" => Channels!TypeOK /\ Channels!OnlineIsLive /\ Channels!OfferedStepsWork
\* One onboarding makes one business, and every business keeps an active owner.
BusinessesAreSound ==
    focus = "tenants" => Tenants!TypeOK /\ Tenants!OneBusinessPerSpec /\ Tenants!OwnersRemain
\* No Stripe account is forgotten while money may go to it.
AccountsAreKept == focus = "stripe" => Stripe!TypeOK /\ Stripe!AccountsAreKept
\* A Square connection that is shown as ready can take a payment, and a token that works is
\* not given up.
ConnectionsKeepWorking == /\ [](focus = "square" => Square!TypeOK /\ Square!ReadyConnectionsWork)
                          /\ Square!TokensAreKept
\* No session outlives what ended it, and a link signs in once.
SignInsEnd == focus = "access" => Access!TypeOK /\ Access!OldSessionsEnd /\ Access!LinksWorkOnce
\* A picture that is shown exists, and none that nobody shows is kept.
PicturesAreKept ==
    focus = "images" => Images!TypeOK /\ Images!ShownFilesExist /\ Images!NothingIsLeftBehind
=============================================================================
