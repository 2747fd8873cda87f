----------------------------- MODULE AdminPanels -----------------------------
(***************************************************************************)
(* The editors of the staff console (web/admin) and of the customer portal *)
(* (web/portal), one profile each; what the fields mean is in              *)
(* PanelSession.  A definition stands for the whole component: its query,  *)
(* its draft, its save, its dialog and its commands.                       *)
(***************************************************************************)

\* A card of the settings pages: useSettingsForm inside SettingsDraftBoundary,
\* whose fieldset is inert while any mutation is out.
SettingsForm ==
  [kind |-> "form", frozen |-> TRUE, held |-> FALSE, cas |-> FALSE, gate |-> FALSE,
   cancel |-> FALSE, refresh |-> "invalidate", settle |-> "clean", reload |-> "none",
   once |-> "no", polls |-> "focus", commands |-> {}, gaps |-> {}]

\* What was sent becomes the baseline: edits made since stay dirty.
RebasedForm == [SettingsForm EXCEPT !.settle = "rebase"]

\* Edits laid over the loaded data until they are saved, then dropped before
\* the refetch has landed.
Overlay == [SettingsForm EXCEPT !.kind = "overlay", !.settle = "drop", !.gaps = {"stale"}]
FieldOverlay == [Overlay EXCEPT !.kind = "fields"]

\* A dialog that can neither be edited nor closed while its save is out.
HeldDialog == [Overlay EXCEPT !.kind = "dialog", !.held = TRUE]
\* The same, sending the version its draft was made from.
VersionedDialog == [HeldDialog EXCEPT !.cas = TRUE, !.gaps = {}]
\* A dialog whose inputs stay live.
LiveDialog == [HeldDialog EXCEPT !.frozen = FALSE, !.gaps = {"stale", "typed"}]
\* A dialog that may also be closed, and another opened, while its save is out.
LooseDialog == [LiveDialog EXCEPT !.held = FALSE, !.gaps = {"stale", "typed", "other"}]
\* An empty dialog, or a line of inputs, that adds to a list.
Creation == [LooseDialog EXCEPT !.kind = "create", !.gaps = {"typed", "other", "twice"}]

CommandPanel == [SettingsForm EXCEPT !.kind = "none", !.commands = {"invalidate"}]


-----------------------------------------------------------------------------
(* Forms of the settings pages.                                            *)
MailCard == [SettingsForm EXCEPT !.commands = {"none"}]
InviteCard == SettingsForm
NoticeCard == SettingsForm
ACMECard == SettingsForm
RegistrationCard == SettingsForm
TelegramCard == MailCard
TrialCard == SettingsForm
DynLimitCard == SettingsForm
ConnLogCard == SettingsForm
WebhooksCard == MailCard
HeartbeatCard == [SettingsForm EXCEPT !.commands = {"invalidate"}]
BackupCard == [SettingsForm EXCEPT !.commands = {"none", "invalidate", "edit"}]
ProbeCard == SettingsForm
LegacyClientsEditor == RebasedForm
NodeGroupCard == RebasedForm
SitePage == RebasedForm
ClientEditor == [RebasedForm EXCEPT !.cas = TRUE, !.refresh = "both", !.reload = "replace",
                   !.commands = {"set", "both", "invalidate"}]
ServiceStatusCard == [SettingsForm EXCEPT !.cas = TRUE, !.polls = "never", !.refresh = "set",
                        !.settle = "drop", !.reload = "replace"]
AgentHTTPSCard == [SettingsForm EXCEPT !.cas = TRUE, !.cancel = TRUE, !.refresh = "both",
                     !.settle = "drop", !.reload = "replace"]
NodeProbePlanCard == [ServiceStatusCard EXCEPT !.polls = "focus", !.gaps = {"late"}]
NodeTrafficControlPolicy == [RebasedForm EXCEPT !.cas = TRUE, !.gate = TRUE, !.cancel = TRUE,
                               !.polls = "interval", !.refresh = "set", !.reload = "rebase"]
\* The node card saves two things in one request: the finance fields, whose
\* revision is compared, and all the others, which are written as they were
\* sent.  A refusal for the sake of the first is a failed save to the second.
NodeFinance == NodeTrafficControlPolicy
NodeInformation == [RebasedForm EXCEPT !.cancel = TRUE, !.polls = "interval", !.refresh = "set",
                      !.commands = {"set", "invalidate"}]

-----------------------------------------------------------------------------
(* Edits laid over the loaded data.                                        *)
SubscriptionCard == FieldOverlay
PurchaseCard == FieldOverlay
OIDCCard == FieldOverlay
OverridesCard == [FieldOverlay EXCEPT !.refresh = "both"]
SecurityCard == Overlay
AuditRulesCard == Overlay
RoutingCard == [Overlay EXCEPT !.commands = {"edit"}]
EgressUpstreams == [Overlay EXCEPT !.refresh = "set", !.gaps = {"late", "stale"}]
ForwardsCard == [EgressUpstreams EXCEPT !.polls = "interval", !.commands = {"invalidate"}]
ResponseRules == [Overlay EXCEPT !.frozen = FALSE, !.commands = {"none"}, !.gaps = {"stale", "typed"}]
ReturnRoutesCard == [Overlay EXCEPT !.settle = "await", !.polls = "interval", !.commands = {"invalidate"}, !.gaps = {}]
SubDesigner == [Overlay EXCEPT !.settle = "unless", !.refresh = "both", !.commands = {"edit"}, !.gaps = {}]
TextTemplateEditor == [RebasedForm EXCEPT !.kind = "keyed", !.refresh = "both", !.gaps = {"moved", "stale"}]
UserEntries == [FieldOverlay EXCEPT !.frozen = FALSE, !.gaps = {"stale", "typed"}]
ExternalNodes == UserEntries

-----------------------------------------------------------------------------
(* Dialogs that hold still while they save.                                *)
MetadataEditor == HeldDialog
EntryLocationEditor == HeldDialog
EntryEditor == HeldDialog
EntryCategoriesManager == [HeldDialog EXCEPT !.commands = {"invalidate"}]
NodeDetailsCard == [HeldDialog EXCEPT !.kind = "patch", !.gaps = {}]
NodeAgentSettingsCard == NodeDetailsCard
LineEditor == VersionedDialog
PathEditor == VersionedDialog
RouteEditor == VersionedDialog
NodeLayoutEditor == [VersionedDialog EXCEPT !.reload = "stop"]
InfrastructureAssets == NodeLayoutEditor
InfrastructurePaymentModal == [VersionedDialog EXCEPT !.kind = "create", !.once = "key", !.reload = "rebase"]
InboundAccessModal == [VersionedDialog EXCEPT !.gate = TRUE, !.reload = "replace"]
GroupAccessModal == InboundAccessModal
NodeServiceControl == [VersionedDialog EXCEPT !.cancel = TRUE, !.polls = "interval", !.refresh = "set",
                         !.reload = "rebase"]
NodeBillingLink == [NodeServiceControl EXCEPT !.reload = "stop", !.frozen = FALSE, !.gaps = {"typed"}]
PingTasks == [LiveDialog EXCEPT !.commands = {"invalidate"}]
LoginClientsCard == PingTasks
WireGuardDevices == [LiveDialog EXCEPT !.refresh = "both", !.polls = "interval", !.commands = {"none", "both"}]
PasskeysCard == LiveDialog
HostManagementPage == [LiveDialog EXCEPT !.cas = TRUE, !.commands = {"sweep"}, !.gaps = {"typed", "swept"}]
HwidDevices == [PingTasks EXCEPT !.settle = "rebase", !.gaps = {"stale"}]

-----------------------------------------------------------------------------
(* Dialogs a person may leave while they save.                             *)
IngressesCard == [LooseDialog EXCEPT !.commands = {"invalidate"}]
InboundsManager == IngressesCard
WireGuardConnections == IngressesCard
ReverseConnections == [LooseDialog EXCEPT !.cas = TRUE, !.gaps = {"typed", "other"}]
CouponsPage == IngressesCard
PlansPage == IngressesCard
ArticlesPage == IngressesCard
AdminsPage == IngressesCard
DomainsPage == IngressesCard
InfrastructurePage == IngressesCard
SubscriptionProfiles == [IngressesCard EXCEPT !.commands = {"none", "invalidate"}]
SubTemplateLibrary == SubscriptionProfiles
ConfigPresets == SubscriptionProfiles
MonitoringPage == LooseDialog
UsersPage == IngressesCard

-----------------------------------------------------------------------------
(* Creations.                                                              *)
EntryInboundCreator == [Creation EXCEPT !.frozen = TRUE, !.held = TRUE, !.once = "stop", !.gaps = {}]
NodeSupplierFields == [Creation EXCEPT !.held = TRUE, !.gaps = {"typed", "twice"}]
GiftsPage == [Creation EXCEPT !.commands = {"invalidate"}]
ExternalPage == GiftsPage
NodesPage == GiftsPage
TicketsPage == GiftsPage
MonitoringAlerts == GiftsPage
TokensCard == GiftsPage
TempLinks == GiftsPage
UserGroupsPanel == Creation
WithdrawalsPage == Creation
WarpCard == GiftsPage

-----------------------------------------------------------------------------
(* Panels that only have commands.                                         *)
SurplusCard == CommandPanel
SpeedtestPage == CommandPanel
NodeMaintenance == CommandPanel
NodeModeCard == CommandPanel
RenewalsPanel == CommandPanel
UserSubs == CommandPanel
SubAdjust == CommandPanel
UserSubscriptionProfile == CommandPanel
AccountIDEditor == CommandPanel
WireGuardReadiness == CommandPanel
ProbeThemes == CommandPanel
LinesPanel == CommandPanel
PathRoutesPanel == CommandPanel
EntriesWorkspace == CommandPanel
UserDirectory == [CommandPanel EXCEPT !.commands = {"none", "invalidate"}]
TwoFactorCard == UserDirectory
DNSResult == [CommandPanel EXCEPT !.commands = {"both"}]
NodeAddressesCard == [DNSResult EXCEPT !.cancel = TRUE, !.polls = "interval"]
SubDesignClaudeRules == NodeAddressesCard

-----------------------------------------------------------------------------
AdminPanelProfiles ==
  {MailCard, InviteCard, NoticeCard, ACMECard, RegistrationCard,
   TelegramCard, TrialCard, DynLimitCard, ConnLogCard, WebhooksCard,
   HeartbeatCard, BackupCard, ProbeCard, LegacyClientsEditor,
   NodeGroupCard, SitePage, ClientEditor, ServiceStatusCard,
   AgentHTTPSCard, NodeProbePlanCard, NodeTrafficControlPolicy,
   NodeFinance, NodeInformation, SubscriptionCard, PurchaseCard, OIDCCard,
   OverridesCard, SecurityCard, AuditRulesCard, RoutingCard,
   EgressUpstreams, ForwardsCard, ResponseRules, ReturnRoutesCard,
   SubDesigner, TextTemplateEditor, UserEntries, ExternalNodes,
   MetadataEditor, EntryLocationEditor, EntryEditor,
   EntryCategoriesManager, NodeDetailsCard, NodeAgentSettingsCard,
   LineEditor, PathEditor, RouteEditor, NodeLayoutEditor,
   InfrastructureAssets, InfrastructurePaymentModal, InboundAccessModal,
   GroupAccessModal, NodeServiceControl, NodeBillingLink, PingTasks,
   LoginClientsCard, WireGuardDevices, PasskeysCard, HostManagementPage,
   HwidDevices, IngressesCard, InboundsManager, WireGuardConnections,
   ReverseConnections, CouponsPage, PlansPage, ArticlesPage, AdminsPage,
   DomainsPage, InfrastructurePage, SubscriptionProfiles,
   SubTemplateLibrary, ConfigPresets, MonitoringPage, UsersPage,
   EntryInboundCreator, NodeSupplierFields, GiftsPage, ExternalPage,
   NodesPage, TicketsPage, MonitoringAlerts, TokensCard, TempLinks,
   UserGroupsPanel, WithdrawalsPage, WarpCard, SurplusCard, SpeedtestPage,
   NodeMaintenance, NodeModeCard, RenewalsPanel, UserSubs, SubAdjust,
   UserSubscriptionProfile, AccountIDEditor, WireGuardReadiness,
   ProbeThemes, LinesPanel, PathRoutesPanel, EntriesWorkspace,
   UserDirectory, TwoFactorCard, DNSResult, NodeAddressesCard,
   SubDesignClaudeRules}

-----------------------------------------------------------------------------
(* The editors of the customer portal (web/portal).                         *)
PortalDevices == WireGuardDevices
PortalRedeem == Creation
PortalInvite == [Creation EXCEPT !.commands = {"invalidate"}]
PortalTickets == [PortalInvite EXCEPT !.polls = "interval"]
PortalTelegram == [CommandPanel EXCEPT !.polls = "interval"]
PortalAccount == CommandPanel
PortalHome == CommandPanel
PortalAuthorize == [CommandPanel EXCEPT !.commands = {"none"}]

PanelsOfBothApps ==
  AdminPanelProfiles \cup
  {PortalDevices, PortalRedeem, PortalInvite, PortalTickets, PortalTelegram, PortalAccount, PortalHome,
   PortalAuthorize}
==============================================================================
