--------------------------- MODULE DeviceMethods ---------------------------
(***************************************************************************)
(* The tables of the device APIs (services/device_apis/, rdm_device.py,    *)
(* api/routers/capabilities.py): for every public method of every API      *)
(* class the PID it asks for and how it treats the answer and the cache,   *)
(* and the two tables that say which PIDs a module and a method need.      *)
(*                                                                         *)
(* A method is a record.  The fields of a getter: it looks into the cache  *)
(* first (cached), it takes an argument (index), it refuses an answer of   *)
(* fewer than "least" bytes, and it decodes the first "needs" bytes.  Of a *)
(* setter: the entries that its success clears.  Formatting, units and     *)
(* names of the values are left out.                                       *)
(***************************************************************************)
EXTENDS Naturals

AnyPid == "*"           \* clear_cache() without an argument
NoPid == "none"         \* a method that _METHOD_PID does not list

Method(module, name, pid, verb, cached, index, least, needs, clears) ==
    [module |-> module, name |-> name, pid |-> pid, verb |-> verb, cached |-> cached,
     index |-> index, least |-> least, needs |-> needs, clears |-> clears]

\* A getter that keeps its answer, one that does not, and one with an argument.
Cached(module, name, pid, least, needs) ==
    Method(module, name, pid, "get", TRUE, FALSE, least, needs, {})

Uncached(module, name, pid, least, needs) ==
    Method(module, name, pid, "get", FALSE, FALSE, least, needs, {})

Indexed(module, name, pid, least, needs) ==
    Method(module, name, pid, "get", FALSE, TRUE, least, needs, {})

\* A setter that clears entries, and one that clears nothing.
Setter(module, name, pid, clears) ==
    Method(module, name, pid, "set", FALSE, TRUE, 0, 0, clears)

Action(module, name, pid) == Setter(module, name, pid, {})

\* A getter and a setter of the same PID.
Both(module, get, set, pid, least, needs) ==
    {Cached(module, get, pid, least, needs), Setter(module, set, pid, {pid})}

-----------------------------------------------------------------------------
(* The API classes.                                                        *)

DeviceLabelAPI == Both("device_label", "get", "set", "DEVICE_LABEL", 0, 0)

DmxConfigAPI ==
    {Setter("dmx_config", "set_start_address", "DMX_START_ADDRESS", {"DMX_START_ADDRESS"}),
     Cached("dmx_config", "get_personality", "DMX_PERSONALITY", 2, 2),
     Setter("dmx_config", "set_personality", "DMX_PERSONALITY",
            {"DMX_PERSONALITY", "DEVICE_INFO"}),
     Indexed("dmx_config", "get_personality_description",
             "DMX_PERSONALITY_DESCRIPTION", 3, 3)}

DeviceControlAPI ==
    {Action("control", "identify", "IDENTIFY_DEVICE"),
     Setter("control", "reset", "RESET_DEVICE", {AnyPid}),
     Setter("control", "factory_defaults", "FACTORY_DEFAULTS", {AnyPid})}

SensorsAPI ==
    {Indexed("sensors", "get_value", "SENSOR_VALUE", 9, 9),
     Action("sensors", "record", "RECORD_SENSORS")}

SensorDefinitionsAPI ==
    {Indexed("sensor_definitions", "get_sensor_definition", "SENSOR_DEFINITION", 13, 13)}

DeviceMaintenanceAPI ==
    Both("maintenance", "get_hours", "set_hours", "DEVICE_HOURS", 4, 4)
    \union Both("maintenance", "get_power_cycles", "set_power_cycles",
                "DEVICE_POWER_CYCLES", 4, 4)

DeviceInfoAPI ==
    {Cached("info", "get_model_description", "DEVICE_MODEL_DESCRIPTION", 0, 0),
     Cached("info", "get_boot_software_version", "BOOT_SOFTWARE_VERSION_LABEL", 0, 0),
     Cached("info", "get_boot_software_version_id", "BOOT_SOFTWARE_VERSION_ID", 4, 4),
     Cached("info", "get_product_detail_id_list", "PRODUCT_DETAIL_ID_LIST", 1, 0)}

DmxSlotsAPI ==
    {Uncached("slots", "get_slot_info", "SLOT_INFO", 1, 0),
     Indexed("slots", "get_slot_description", "SLOT_DESCRIPTION", 3, 2),
     Uncached("slots", "get_default_slot_values", "DEFAULT_SLOT_VALUE", 0, 0)}

DmxModesAPI ==
    Both("modes", "get_dmx_startup_mode", "set_dmx_startup_mode", "DMX_STARTUP_MODE", 2, 2)
    \union Both("modes", "get_output_response_time", "set_output_response_time",
                "OUTPUT_RESPONSE_TIME", 1, 1)
    \union {Action("modes", "capture_preset", "CAPTURE_PRESET")}
    \union Both("modes", "get_dmx_block_address", "set_dmx_block_address",
                "DMX_BLOCK_ADDRESS", 6, 6)
    \union Both("modes", "get_dmx_fail_mode", "set_dmx_fail_mode", "DMX_FAIL_MODE", 7, 7)

LampControlAPI ==
    Both("lamp", "get_hours", "set_hours", "LAMP_HOURS", 4, 4)
    \union Both("lamp", "get_strikes", "set_strikes", "LAMP_STRIKES", 4, 4)
    \union Both("lamp", "get_state", "set_state", "LAMP_STATE", 1, 1)
    \union Both("lamp", "get_on_mode", "set_on_mode", "LAMP_ON_MODE", 1, 1)

DisplaySettingsAPI ==
    Both("display", "get_invert", "set_invert", "DISPLAY_INVERT", 1, 1)
    \union Both("display", "get_level", "set_level", "DISPLAY_LEVEL", 1, 1)

(* Mutant of PositionConfigAPI: set_tilt_invert clears the other entry.    *)
PositionClearsOther ==
    Both("position", "get_pan_invert", "set_pan_invert", "PAN_INVERT", 1, 1)
    \union {Cached("position", "get_tilt_invert", "TILT_INVERT", 1, 1),
            Setter("position", "set_tilt_invert", "TILT_INVERT", {"PAN_INVERT"})}
    \union Both("position", "get_pan_tilt_swap", "set_pan_tilt_swap", "PAN_TILT_SWAP", 1, 1)
    \union Both("position", "get_real_time_clock", "set_real_time_clock",
                "REAL_TIME_CLOCK", 7, 7)

PositionConfigAPI ==
    Both("position", "get_pan_invert", "set_pan_invert", "PAN_INVERT", 1, 1)
    \union Both("position", "get_tilt_invert", "set_tilt_invert", "TILT_INVERT", 1, 1)
    \union Both("position", "get_pan_tilt_swap", "set_pan_tilt_swap", "PAN_TILT_SWAP", 1, 1)
    \union Both("position", "get_real_time_clock", "set_real_time_clock",
                "REAL_TIME_CLOCK", 7, 7)

PowerControlAPI == Both("power", "get_state", "set_state", "POWER_STATE", 1, 1)

SelfTestAPI ==
    {Action("self_test", "perform", "PERFORM_SELFTEST"),
     Indexed("self_test", "get_description", "SELF_TEST_DESCRIPTION", 2, 1)}

(* Mutant of PresetControlAPI: the level is decoded but not counted.       *)
PresetCountsShort ==
    Both("presets", "get_playback", "set_playback", "PRESET_PLAYBACK", 2, 3)
    \union {Cached("presets", "get_status", "PRESET_STATUS", 8, 8)}
    \union Both("presets", "get_merge_mode", "set_merge_mode", "PRESET_MERGEMODE", 1, 1)

PresetControlAPI ==
    Both("presets", "get_playback", "set_playback", "PRESET_PLAYBACK", 3, 3)
    \union {Cached("presets", "get_status", "PRESET_STATUS", 8, 8)}
    \union Both("presets", "get_merge_mode", "set_merge_mode", "PRESET_MERGEMODE", 1, 1)

SystemParameters ==
    {Cached("system", "get_supported_parameters", "SUPPORTED_PARAMETERS", 1, 0),
     Indexed("system", "get_parameter_description", "PARAMETER_DESCRIPTION", 20, 20)}

\* get_queued_message and get_status_messages have an argument with a default.
SystemMessages ==
    {Uncached("system", "get_queued_message", "QUEUED_MESSAGE", 1, 0),
     Uncached("system", "get_status_messages", "STATUS_MESSAGES", 2, 2),
     Indexed("system", "get_status_id_description", "STATUS_ID_DESCRIPTION", 3, 2),
     Action("system", "clear_status_id", "CLEAR_STATUS_ID"),
     Uncached("system", "get_comms_status", "COMMS_STATUS", 6, 6),
     Action("system", "clear_comms_status", "COMMS_STATUS")}

SystemSettings ==
    Both("system", "get_sub_device_status_report_threshold",
         "set_sub_device_status_report_threshold",
         "SUB_DEVICE_STATUS_REPORT_THRESHOLD", 1, 1)
    \union {Cached("system", "get_language_capabilities", "LANGUAGE_CAPABILITIES", 1, 0)}
    \union Both("system", "get_language", "set_language", "LANGUAGE", 2, 2)

ProxyAPI ==
    {Cached("proxy", "get_proxied_device_count", "PROXIED_DEVICE_COUNT", 3, 3),
     Uncached("proxy", "get_proxied_devices", "PROXIED_DEVICES", 0, 0)}

\* Two labels that the device asks for itself, outside the modules.
RdmDeviceLabels ==
    {Cached("device", "get_manufacturer_label", "MANUFACTURER_LABEL", 0, 0),
     Cached("device", "get_software_version_label", "SOFTWARE_VERSION_LABEL", 0, 0)}

\* The methods that ask for one index after the other.
Sweep(module, name, pid) == [module |-> module, name |-> name, pid |-> pid]

Sweeps ==
    {Sweep("sensor_definitions", "get_all_sensor_definitions", "SENSOR_DEFINITION"),
     Sweep("slots", "get_all_slot_descriptions", "SLOT_DESCRIPTION"),
     Sweep("dmx_config", "get_personalities", "DMX_PERSONALITY_DESCRIPTION"),
     Sweep("system", "get_supported_pids", "PARAMETER_DESCRIPTION"),
     Sweep("sensors", "get_sensor_readings", "SENSOR_VALUE")}

Methods ==
    DeviceLabelAPI \union DmxConfigAPI \union DeviceControlAPI \union SensorsAPI
    \union SensorDefinitionsAPI \union DeviceMaintenanceAPI \union DeviceInfoAPI
    \union DmxSlotsAPI \union DmxModesAPI \union LampControlAPI
    \union DisplaySettingsAPI \union PositionConfigAPI \union PowerControlAPI
    \union SelfTestAPI \union PresetControlAPI \union SystemParameters
    \union SystemMessages \union SystemSettings \union ProxyAPI \union RdmDeviceLabels

Pid == {m.pid : m \in Methods}

Clears(m, pid) == pid \in m.clears \/ AnyPid \in m.clears

-----------------------------------------------------------------------------
(* What a module and a method need.                                        *)

API_PID_MAPPING ==
    [device_label |-> {"DEVICE_LABEL"},
     dmx_config |-> {"DMX_START_ADDRESS", "DMX_PERSONALITY",
         "DMX_PERSONALITY_DESCRIPTION"},
     control |-> {"IDENTIFY_DEVICE", "RESET_DEVICE", "FACTORY_DEFAULTS"},
     sensors |-> {"SENSOR_VALUE", "RECORD_SENSORS"},
     sensor_definitions |-> {"SENSOR_DEFINITION"},
     maintenance |-> {"DEVICE_HOURS", "DEVICE_POWER_CYCLES"},
     info |-> {"DEVICE_MODEL_DESCRIPTION", "BOOT_SOFTWARE_VERSION_LABEL",
         "BOOT_SOFTWARE_VERSION_ID", "PRODUCT_DETAIL_ID_LIST"},
     slots |-> {"SLOT_INFO", "SLOT_DESCRIPTION", "DEFAULT_SLOT_VALUE"},
     modes |-> {"DMX_STARTUP_MODE", "OUTPUT_RESPONSE_TIME", "CAPTURE_PRESET",
         "DMX_BLOCK_ADDRESS", "DMX_FAIL_MODE"},
     lamp |-> {"LAMP_HOURS", "LAMP_STRIKES", "LAMP_STATE", "LAMP_ON_MODE"},
     display |-> {"DISPLAY_INVERT", "DISPLAY_LEVEL"},
     position |-> {"PAN_INVERT", "TILT_INVERT", "PAN_TILT_SWAP", "REAL_TIME_CLOCK"},
     power |-> {"POWER_STATE"},
     self_test |-> {"PERFORM_SELFTEST", "SELF_TEST_DESCRIPTION"},
     presets |-> {"PRESET_PLAYBACK", "PRESET_STATUS", "PRESET_MERGEMODE"},
     system |-> {"SUPPORTED_PARAMETERS", "PARAMETER_DESCRIPTION", "QUEUED_MESSAGE",
         "STATUS_MESSAGES", "STATUS_ID_DESCRIPTION", "CLEAR_STATUS_ID",
         "SUB_DEVICE_STATUS_REPORT_THRESHOLD", "COMMS_STATUS",
         "LANGUAGE_CAPABILITIES", "LANGUAGE"},
     proxy |-> {"PROXIED_DEVICES", "PROXIED_DEVICE_COUNT"},
     raw |-> {}]

Module == DOMAIN API_PID_MAPPING

\* Every device has these, also when it does not list them.
MANDATORY_PIDS ==
    {"DISC_UNIQUE_BRANCH", "DISC_MUTE", "DISC_UN_MUTE", "SUPPORTED_PARAMETERS",
     "DEVICE_INFO", "SOFTWARE_VERSION_LABEL", "DMX_START_ADDRESS", "IDENTIFY_DEVICE"}

METHOD_PID ==
    [device_label |->
        [get |-> "DEVICE_LABEL", set |-> "DEVICE_LABEL"],
     dmx_config |->
        [set_start_address |-> "DMX_START_ADDRESS",
         get_personality |-> "DMX_PERSONALITY",
         set_personality |-> "DMX_PERSONALITY",
         get_personality_description |-> "DMX_PERSONALITY_DESCRIPTION"],
     control |->
        [identify |-> "IDENTIFY_DEVICE", reset |-> "RESET_DEVICE",
         factory_defaults |-> "FACTORY_DEFAULTS"],
     sensors |->
        [get_value |-> "SENSOR_VALUE", record |-> "RECORD_SENSORS"],
     sensor_definitions |->
        [get_sensor_definition |-> "SENSOR_DEFINITION",
         get_all_sensor_definitions |-> "SENSOR_DEFINITION"],
     maintenance |->
        [get_hours |-> "DEVICE_HOURS", set_hours |-> "DEVICE_HOURS",
         get_power_cycles |-> "DEVICE_POWER_CYCLES"],
     info |->
        [get_model_description |-> "DEVICE_MODEL_DESCRIPTION",
         get_boot_software_version |-> "BOOT_SOFTWARE_VERSION_LABEL",
         get_boot_software_version_id |-> "BOOT_SOFTWARE_VERSION_ID",
         get_product_detail_id_list |-> "PRODUCT_DETAIL_ID_LIST"],
     slots |->
        [get_slot_info |-> "SLOT_INFO", get_slot_description |-> "SLOT_DESCRIPTION",
         get_all_slot_descriptions |-> "SLOT_DESCRIPTION",
         get_default_slot_values |-> "DEFAULT_SLOT_VALUE"],
     modes |->
        [get_dmx_startup_mode |-> "DMX_STARTUP_MODE",
         set_dmx_startup_mode |-> "DMX_STARTUP_MODE",
         get_output_response_time |-> "OUTPUT_RESPONSE_TIME",
         set_output_response_time |-> "OUTPUT_RESPONSE_TIME",
         capture_preset |-> "CAPTURE_PRESET",
         get_dmx_block_address |-> "DMX_BLOCK_ADDRESS",
         set_dmx_block_address |-> "DMX_BLOCK_ADDRESS",
         get_dmx_fail_mode |-> "DMX_FAIL_MODE", set_dmx_fail_mode |-> "DMX_FAIL_MODE"],
     lamp |->
        [get_hours |-> "LAMP_HOURS", set_hours |-> "LAMP_HOURS",
         get_strikes |-> "LAMP_STRIKES", set_strikes |-> "LAMP_STRIKES",
         get_state |-> "LAMP_STATE", set_state |-> "LAMP_STATE",
         get_on_mode |-> "LAMP_ON_MODE", set_on_mode |-> "LAMP_ON_MODE"],
     display |->
        [get_invert |-> "DISPLAY_INVERT", set_invert |-> "DISPLAY_INVERT",
         get_level |-> "DISPLAY_LEVEL", set_level |-> "DISPLAY_LEVEL"],
     position |->
        [get_pan_invert |-> "PAN_INVERT", set_pan_invert |-> "PAN_INVERT",
         get_tilt_invert |-> "TILT_INVERT", set_tilt_invert |-> "TILT_INVERT",
         get_pan_tilt_swap |-> "PAN_TILT_SWAP",
         set_pan_tilt_swap |-> "PAN_TILT_SWAP",
         get_real_time_clock |-> "REAL_TIME_CLOCK",
         set_real_time_clock |-> "REAL_TIME_CLOCK"],
     power |->
        [get_state |-> "POWER_STATE", set_state |-> "POWER_STATE"],
     self_test |->
        [perform |-> "PERFORM_SELFTEST", get_description |-> "SELF_TEST_DESCRIPTION"],
     presets |->
        [get_playback |-> "PRESET_PLAYBACK", set_playback |-> "PRESET_PLAYBACK",
         get_status |-> "PRESET_STATUS", get_merge_mode |-> "PRESET_MERGEMODE",
         set_merge_mode |-> "PRESET_MERGEMODE"],
     system |->
        [get_supported_parameters |-> "SUPPORTED_PARAMETERS",
         get_queued_message |-> "QUEUED_MESSAGE",
         get_status_messages |-> "STATUS_MESSAGES",
         get_status_id_description |-> "STATUS_ID_DESCRIPTION",
         clear_status_id |-> "CLEAR_STATUS_ID", get_comms_status |-> "COMMS_STATUS",
         clear_comms_status |-> "COMMS_STATUS",
         get_sub_device_status_report_threshold |-> "SUB_DEVICE_STATUS_REPORT_THRESHOLD",
         set_sub_device_status_report_threshold |-> "SUB_DEVICE_STATUS_REPORT_THRESHOLD",
         get_language_capabilities |-> "LANGUAGE_CAPABILITIES",
         get_language |-> "LANGUAGE", set_language |-> "LANGUAGE"],
     proxy |->
        [get_proxied_devices |-> "PROXIED_DEVICES",
         get_proxied_device_count |-> "PROXIED_DEVICE_COUNT"]]

(* Mutant of MethodPid: one entry for all methods of the same name.        *)
MethodPidByName(module, name) ==
    LET modules == {n \in DOMAIN METHOD_PID : name \in DOMAIN METHOD_PID[n]}
    IN  IF modules = {} THEN NoPid ELSE METHOD_PID[CHOOSE n \in modules : TRUE][name]

MethodPid(module, name) ==
    IF module \in DOMAIN METHOD_PID /\ name \in DOMAIN METHOD_PID[module]
    THEN METHOD_PID[module][name] ELSE NoPid

-----------------------------------------------------------------------------
(* RdmDevice: what is known to be supported, from the list "pids" of the   *)
(* device when "checked" says that it has been read.                       *)

SupportsPid(checked, pids, pid) == pid \in MANDATORY_PIDS \/ ~checked \/ pid \in pids

SupportsApi(checked, pids, module) ==
    \/ module = "raw"
    \/ ~checked
    \/ \E pid \in API_PID_MAPPING[module] : SupportsPid(checked, pids, pid)

AvailableApis(checked, pids) == {m \in Module : SupportsApi(checked, pids, m)}

(* Mutant of SupportDetails: only what the device lists.                   *)
SupportDetailsListed(checked, pids, module) ==
    IF checked /\ pids # {} THEN API_PID_MAPPING[module] \intersect pids
    ELSE API_PID_MAPPING[module]

\* get_api_support_details: the PIDs of the module that it counts as supported.
SupportDetails(checked, pids, module) ==
    IF checked /\ pids # {}
    THEN {pid \in API_PID_MAPPING[module] : pid \in pids \union MANDATORY_PIDS}
    ELSE API_PID_MAPPING[module]

\* and whether it calls the module supported.
DetailsSupported(checked, pids, module) ==
    module = "raw" \/ SupportDetails(checked, pids, module) # {}

\* The router: a method is offered unless its PID is known to be missing.
Offered(checked, pids, module, name) ==
    LET pid == MethodPid(module, name)
    IN  pid # NoPid => SupportsPid(checked, pids, pid)
=============================================================================
